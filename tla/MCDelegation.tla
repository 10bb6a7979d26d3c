---------------------------- MODULE MCDelegation ----------------------------
(* Small instances of Delegation. *)
EXTENDS Delegation

CONSTANTS i1, i2, e1, e2, e3, e4

MCIncidents == {i1, i2}
MCEvidence == {e1, e2, e3, e4}

Both == {"INVESTIGATION_AGENT", "TRACE_AGENT"}

Rec(id, incident, source, sensitivity, agents, supersedes, proves, holds, rank) ==
    [id |-> id, incident |-> incident, source |-> source, dataset |-> "set",
     sensitivity |-> sensitivity, agents |-> agents, supersedes |-> supersedes,
     proves |-> proves, holds |-> holds, rank |-> rank]

\* e1: synthetic, of no incident; e2: synthetic, of incident i1, for the
\* investigation only; e3: official; e4: a secret correction of e1, or a
\* correction of e3 that claims to be synthetic.
MCRecords ==
    {Rec(e1, None, "SYNTHETIC", "INTERNAL", Both, None, "CI_ACTION_MUTATED", TRUE, 2),
     Rec(e2, i1, "SYNTHETIC", "SENSITIVE", {"INVESTIGATION_AGENT"}, None, "SECRET_ACCESSED", TRUE, 3),
     Rec(e3, None, "OFFICIAL", "INTERNAL", Both, None, "NOTHING", FALSE, 1),
     Rec(e4, None, "SYNTHETIC", "SECRET", Both, e1, "SECRET_ACCESSED", TRUE, 2),
     Rec(e4, None, "SYNTHETIC", "INTERNAL", Both, e3, "SECRET_ACCESSED", TRUE, 2)}

MCContexts == {[agent |-> "INVESTIGATION_AGENT", incident |-> i2]}

Issued(incident, agent, refs, tools) ==
    [incident |-> incident, agent |-> agent, refs |-> refs, facts |-> {}, tools |-> tools,
     parent |-> 0, planned |-> FALSE]

MCIssuedTasks ==
    {Issued(i1, "MAIN_AGENT", <<e1, e2, e3>>, {"create_agent_task"}),
     Issued(i2, "MAIN_AGENT", <<e1, e4, e2>>, {"create_agent_task"}),
     Issued(i1, "MAIN_AGENT", <<e1>>, {}),
     Issued(i1, "SILENT_MONITOR_AGENT", <<>>, {"run_detection_rules"}),
     Issued(i1, "AUDIT_AGENT", <<e1>>, {"query_audit_records", "generate_report_input"}),
     Issued(i1, "AUDIT_AGENT", <<e1>>, {"query_audit_records"})}

Plan(action, refs, about, tools) ==
    [action |-> action, refs |-> refs, facts |-> about, tools |-> tools]

MCPlans ==
    {Plan("INVESTIGATE", <<e1, e2>>, {}, <<"get_evidence", "search_knowledge">>),
     Plan("INVESTIGATE", <<e1, e4>>, {}, <<"get_evidence">>),
     Plan("INVESTIGATE", <<e1>>, {"SECRET_ACCESSED"}, <<"get_evidence">>),
     Plan("INVESTIGATE", <<e1>>, {}, <<"get_evidence", "create_action_request">>),
     Plan("TRACE", <<e1, e3>>, {}, <<"build_timeline", "get_evidence">>),
     Plan("TRACE", <<>>, {}, <<"build_timeline", "get_evidence">>),
     Plan("STOP", <<>>, {}, <<>>)}

MCTools == DOMAIN Registry \cup {"delete_evidence"}

MCAnswers == {{e1}, {e1, e2}, {e3}}

Candidate(incident, type, refs) == [incident |-> incident, type |-> type, refs |-> refs]

MCCandidates ==
    {Candidate(i1, "CI_ACTION_MUTATED", <<e1>>), Candidate(i1, "SECRET_ACCESSED", <<e2>>),
     Candidate(i2, "SECRET_ACCESSED", <<e3, e4>>), Candidate(i2, "SECRET_ACCESSED", <<e4>>)}
=============================================================================
