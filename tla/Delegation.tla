----------------------------- MODULE Delegation -----------------------------
(***************************************************************************)
(* What agents may see, use and conclude: evidence/service.py with its     *)
(* access control and append-only corrections, tools/registry.py,          *)
(* agents/runtime.py, the audit agent of audit/reporting.py, and           *)
(* services/facts.py.  Every action is one call, made under the runtime    *)
(* lock on one session; the variables are what the session holds, also     *)
(* after a call that raises (a rollback is its caller's, see DemoRun).     *)
(* A model answer is any value its output schema accepts.                  *)
(***************************************************************************)
EXTENDS Integers, SequencesExt

CONSTANTS
    None,           \* no incident, no superseded evidence
    Incidents,
    Evidence,       \* evidence ids
    Records,        \* the evidence that may be offered, records with an id
    IssuedTasks,    \* the tasks the system issues
    Plans,          \* the plans the main agent's model may answer
    Answers,        \* the sets of evidence an investigation's model may cite
    Candidates,     \* the facts that may be proposed
    Tools,          \* the names of tools that tasks may carry, registered or not
    Contexts,       \* the agents and incidents for which evidence is corrected
    MaxIssued, MaxTasks, MaxResults, MaxFacts   \* bounds on the tables

VARIABLES
    evidence,       \* the evidence table: a function on the ids it holds
    tasks,          \* the task table, in the order of insertion
    findings,       \* the finding table
    results,        \* the result table
    associations,   \* pairs of evidence the trace agent links, by incident
    signals,        \* [signal id -> incident]; a signal is named for its evidence
    facts,          \* the confirmed facts
    trail,          \* the audit records of these calls
    read            \* history: pairs of a task and evidence get_for_agent returned to it

tables == <<tasks, findings, results, associations, signals, facts>>
vars == <<evidence, tables, trail, read>>

AgentTypes == {"MAIN_AGENT", "SILENT_MONITOR_AGENT", "INVESTIGATION_AGENT",
               "TRACE_AGENT", "OPERATION_AGENT", "AUDIT_AGENT"}

FactTypes == {"CI_ACTION_MUTATED", "SECRET_ACCESSED", "CREDENTIAL_EXPOSED",
              "CREDENTIAL_ABUSED", "SENSITIVE_DATA_ACCESSED", "HIGH_COST_RESOURCE_CREATED"}

\* proves: the fact type whose event type the snapshot carries; holds: whether
\* the snapshot satisfies the rule of that fact type; rank: its place by
\* timestamp and source record, the order of a timeline.
EvidenceRecord ==
    [id: Evidence, incident: Incidents \cup {None},
     source: {"OFFICIAL", "SYNTHETIC", "MOCK", "SYSTEM"}, dataset: STRING,
     sensitivity: {"PUBLIC", "INTERNAL", "SENSITIVE", "RESTRICTED", "SECRET"},
     agents: SUBSET AgentTypes, supersedes: Evidence \cup {None},
     proves: FactTypes \cup {"NOTHING"}, holds: BOOLEAN, rank: Nat]

Task ==
    [incident: Incidents, agent: AgentTypes, refs: Seq(Evidence), facts: SUBSET FactTypes,
     tools: SUBSET Tools, parent: Nat, planned: BOOLEAN]

Init ==
    /\ evidence = [e \in {} |-> None]
    /\ tasks = <<>> /\ findings = <<>> /\ results = <<>>
    /\ associations = {} /\ facts = {} /\ trail = {} /\ read = {}
    /\ signals = [e \in {} |-> None]

-----------------------------------------------------------------------------
(* The tool registry *)

Tool(agents, permission, sideEffect) ==
    [agents |-> agents, permission |-> permission, side_effect |-> sideEffect]

ReadAgents == AgentTypes \ {"OPERATION_AGENT"}

Registry ==
    [query_event_summary |-> Tool(ReadAgents, "event:read", FALSE),
     query_normalized_events |-> Tool({"SILENT_MONITOR_AGENT"}, "event:read", FALSE),
     create_agent_task |-> Tool({"MAIN_AGENT"}, "task:create", TRUE),
     run_detection_rules |-> Tool({"SILENT_MONITOR_AGENT"}, "detection:run", FALSE),
     get_evidence |-> Tool(ReadAgents, "evidence:read", FALSE),
     query_cloud_audit |-> Tool({"INVESTIGATION_AGENT"}, "cloud_audit:read", FALSE),
     query_resource_events |-> Tool({"INVESTIGATION_AGENT"}, "resource:read", FALSE),
     query_network_flow |-> Tool({"INVESTIGATION_AGENT"}, "network:read", FALSE),
     query_mock_state_readonly |-> Tool({"INVESTIGATION_AGENT"}, "mock_state:read", FALSE),
     build_timeline |-> Tool({"TRACE_AGENT"}, "timeline:build", FALSE),
     create_action_request |-> Tool({"OPERATION_AGENT"}, "action:propose", TRUE),
     query_audit_records |-> Tool({"AUDIT_AGENT"}, "audit:read", FALSE),
     generate_report_input |-> Tool({"AUDIT_AGENT"}, "audit:read", FALSE),
     search_knowledge |-> Tool({"MAIN_AGENT", "INVESTIGATION_AGENT", "AUDIT_AGENT"},
                               "knowledge:read", FALSE),
     query_policy_decision |-> Tool({"OPERATION_AGENT"}, "policy:read", FALSE),
     query_execution_result |-> Tool({"OPERATION_AGENT"}, "execution:read", FALSE),
     query_verification_status |-> Tool({"OPERATION_AGENT"}, "verification:read", FALSE),
     execute_mock_action_plan |-> Tool({"SYSTEM_EXECUTOR"}, "controlled_execution:execute", TRUE)]

ASSUME DataAssumption ==
    /\ Records \subseteq EvidenceRecord
    /\ DOMAIN Registry \subseteq Tools
    /\ None \notin Evidence
    /\ Answers \subseteq (SUBSET Evidence) \ {{}}
    /\ \A task \in IssuedTasks: task \in Task /\ task.parent = 0 /\ ~task.planned
    /\ \A plan \in Plans: plan \in [action: STRING, refs: Seq(Evidence),
                                    facts: SUBSET FactTypes, tools: Seq(Tools)]
    /\ \A candidate \in Candidates: candidate \in [incident: Incidents, type: FactTypes,
                                                   refs: Seq(Evidence)]

\* ToolRegistry.authorize.
Allowed(agent, tool, declared, permissions) ==
    /\ tool \in DOMAIN Registry
    /\ tool \in declared
    /\ agent \in Registry[tool].agents
    /\ Registry[tool].permission \in permissions

Verdict(agent, tool, granted) ==
    <<IF granted THEN "TOOL_ACCESS_GRANTED" ELSE "TOOL_ACCESS_DENIED", agent, tool>>

\* The records of authorising tools one after the other, up to the first denial.
ToolTrail(agent, tools, declared, permissions) ==
    LET granted == [n \in DOMAIN tools |-> Allowed(agent, tools[n], declared, permissions)]
    IN  {Verdict(agent, tools[n], granted[n]):
           n \in {n \in DOMAIN tools: \A m \in 1..n - 1: granted[m]}}

AllAllowed(agent, tools, declared, permissions) ==
    \A tool \in Range(tools): Allowed(agent, tool, declared, permissions)

-----------------------------------------------------------------------------
(* Evidence *)

Add(record) ==
    evidence' = [e \in DOMAIN evidence \cup {record.id} |->
                   IF e = record.id THEN record ELSE evidence[e]]

\* EvidenceService.create, which looks at neither the source nor what the record
\* supersedes: the primary key refuses an id the table holds.
CreateEvidence(record) ==
    /\ record.id \notin DOMAIN evidence
    /\ Add(record)
    /\ trail' = trail \cup {<<"EVIDENCE_CREATED", "SYSTEM", record.id>>}
    /\ UNCHANGED <<tables, read>>

MayReadAnyScope(e, agent, incident) ==
    /\ e \in DOMAIN evidence
    /\ evidence[e].sensitivity # "SECRET"
    /\ agent \in evidence[e].agents

\* get_for_agent returns the evidence; otherwise it audits a denial and raises.
MayRead(e, agent, incident) ==
    /\ e \in DOMAIN evidence
    /\ evidence[e].sensitivity # "SECRET"
    /\ evidence[e].incident \in {None, incident}
    /\ agent \in evidence[e].agents

AccessRecord(e, agent, incident) ==
    <<IF MayRead(e, agent, incident) THEN "EVIDENCE_ACCESSED" ELSE "EVIDENCE_ACCESS_DENIED",
      agent, e>>

CorrectsAnySource(correction, original) ==
    /\ correction.id # original.id
    /\ correction.supersedes = original.id
    /\ correction.dataset = original.dataset

Corrects(correction, original) ==
    /\ correction.id # original.id
    /\ correction.supersedes = original.id
    /\ correction.source = original.source
    /\ correction.dataset = original.dataset

\* EvidenceService.append_correction of evidence that exists: a denied read, a correction that does not
\* fit the original, and a taken id raise; the access is audited before.
AppendCorrection(original, record, agent, incident) ==
    LET appended == /\ MayRead(original, agent, incident)
                    /\ Corrects(record, evidence[original])
                    /\ record.id \notin DOMAIN evidence
    IN  /\ IF appended THEN Add(record) ELSE UNCHANGED evidence
        /\ trail' = trail \cup {AccessRecord(original, agent, incident)}
              \cup (IF appended
                      THEN {<<"EVIDENCE_CORRECTION_APPENDED", agent, record.id>>} ELSE {})
        /\ UNCHANGED <<tables, read>>

-----------------------------------------------------------------------------
(* Tasks *)

\* AgentContractRepository.add_task, for a task the workflow makes.
IssueTask(task) ==
    /\ Len(tasks) < MaxTasks
    /\ Cardinality({t \in DOMAIN tasks: tasks[t].parent = 0}) < MaxIssued
    /\ tasks' = Append(tasks, task)
    /\ UNCHANGED <<evidence, findings, results, associations, signals, facts, trail, read>>

\* AgentRuntime._validate_task.
Assigned(t, agent, required) ==
    tasks[t].agent = agent /\ required \subseteq tasks[t].tools

ModelRecord(t, outcome, attempt) == <<outcome, tasks[t].agent, t, attempt>>

\* plan_main when the model fails: a MANUAL plan, and no child task.
PlanUnavailable(t) ==
    /\ Assigned(t, "MAIN_AGENT", {})
    /\ trail' = trail \cup {ModelRecord(t, "MODEL_CALL_FAILED", 1)}
    /\ UNCHANGED <<evidence, tables, read>>

ChildAgent == [INVESTIGATE |-> "INVESTIGATION_AGENT", TRACE |-> "TRACE_AGENT"]

PlannedPermissions == {"evidence:read", "cloud_audit:read", "resource:read", "network:read",
                       "mock_state:read", "timeline:build", "knowledge:read"}

WithinFactsOnly(t, plan) ==
    plan.facts \subseteq tasks[t].facts

\* The child asks for no evidence and no facts beyond its parent's.
Within(t, plan) ==
    /\ Range(plan.refs) \subseteq Range(tasks[t].refs)
    /\ plan.facts \subseteq tasks[t].facts

ToolsAcceptedUnchecked(plan) == plan.action \in DOMAIN ChildAgent

ToolsAccepted(plan) ==
    AllAllowed(ChildAgent[plan.action], plan.tools, Range(plan.tools), PlannedPermissions)

MayCreate(t) == Allowed("MAIN_AGENT", "create_agent_task", tasks[t].tools, {"task:create"})

Child(t, plan) ==
    [incident |-> tasks[t].incident, agent |-> ChildAgent[plan.action], refs |-> plan.refs,
     facts |-> plan.facts, tools |-> Range(plan.tools), parent |-> t, planned |-> TRUE]

\* plan_main, then create_planned_task: a plan for no child task and one that
\* expands its parent raise before any tool is authorised.
PlanTask(t, plan) ==
    LET asks == plan.action \in DOMAIN ChildAgent /\ Within(t, plan)
        creates == asks /\ MayCreate(t) /\ ToolsAccepted(plan)
    IN  /\ Assigned(t, "MAIN_AGENT", {})
        /\ Len(tasks) < MaxTasks
        /\ tasks' = IF creates THEN Append(tasks, Child(t, plan)) ELSE tasks
        /\ trail' = trail \cup {ModelRecord(t, "MODEL_CALL_COMPLETED", 1)}
             \cup (IF asks THEN {Verdict("MAIN_AGENT", "create_agent_task", MayCreate(t))} ELSE {})
             \cup (IF asks /\ MayCreate(t)
                     THEN ToolTrail(ChildAgent[plan.action], plan.tools, Range(plan.tools),
                                    PlannedPermissions) ELSE {})
             \cup (IF creates THEN {<<"MAIN_AGENT_TASK_CREATED", "MAIN_AGENT", t>>} ELSE {})
        /\ UNCHANGED <<evidence, findings, results, associations, signals, facts, read>>

-----------------------------------------------------------------------------
(* Agents *)

\* _authorize: an agent that has passed _validate_task is never refused here.
ToolCalls(t, tools) ==
    UNION {{Verdict(tasks[t].agent, tool, TRUE), <<"TOOL_CALL_SUCCEEDED", tasks[t].agent, tool>>}:
             tool \in tools}

\* The evidence of a task is read in order, up to the first denial.
ReadIndexes(t) ==
    {n \in DOMAIN tasks[t].refs:
       \A m \in 1..n: MayRead(tasks[t].refs[m], tasks[t].agent, tasks[t].incident)}

ReadsAll(t) == ReadIndexes(t) = DOMAIN tasks[t].refs

Learnt(t) == {<<t, tasks[t].refs[n]>>: n \in ReadIndexes(t)}

ReadTrail(t) ==
    {AccessRecord(tasks[t].refs[n], tasks[t].agent, tasks[t].incident):
       n \in {n \in DOMAIN tasks[t].refs: n = 1 \/ n - 1 \in ReadIndexes(t)}}

Finding(t, kind, refs) ==
    [task |-> t, incident |-> tasks[t].incident, kind |-> kind, refs |-> refs]

Result(t, status, found, refs) ==
    [task |-> t, incident |-> tasks[t].incident, status |-> status, findings |-> found,
     refs |-> refs]

ConcludesUnnumbered(t, kind, status, refs) ==
    /\ findings' = Append(findings, Finding(t, kind, refs))
    /\ results' = Append(results, Result(t, status, {Len(findings)}, refs))

\* The finding and the result that cites it.
Concludes(t, kind, status, refs) ==
    /\ findings' = Append(findings, Finding(t, kind, refs))
    /\ results' = Append(results, Result(t, status, {Len(findings) + 1}, refs))

\* The last record of a run that concludes; one in manual review leaves none.
CompletedEvent ==
    [SILENT_MONITOR_AGENT |-> "MONITOR_AGENT_COMPLETED", TRACE_AGENT |-> "TRACE_AGENT_COMPLETED",
     INVESTIGATION_AGENT |-> "INVESTIGATION_AGENT_COMPLETED", AUDIT_AGENT |-> "AUDIT_REPORT_GENERATED"]
CompletionRecord(t) == <<CompletedEvent[tasks[t].agent], tasks[t].agent, t>>
CompletionIf(concludes, t) == IF concludes THEN {CompletionRecord(t)} ELSE {}

\* run_investigation or run_trace raises on the first evidence it may not read.
ReadRefused(t) ==
    /\ \/ Assigned(t, "INVESTIGATION_AGENT", {"get_evidence"})
       \/ Assigned(t, "TRACE_AGENT", {"build_timeline", "get_evidence"})
    /\ ~ReadsAll(t)
    /\ trail' = trail \cup ReadTrail(t) \cup ToolCalls(t,
         IF tasks[t].agent = "TRACE_AGENT" THEN {"build_timeline"} ELSE {"get_evidence"})
    /\ read' = read \cup Learnt(t)
    /\ UNCHANGED <<evidence, tables>>

\* run_investigation up to its first model call.
Investigates(t) ==
    /\ Assigned(t, "INVESTIGATION_AGENT", {"get_evidence"})
    /\ ReadsAll(t)
    /\ read' = read \cup Learnt(t)

InvestigationTrail(t, modelRecords) ==
    ReadTrail(t) \cup modelRecords
      \cup ToolCalls(t, {"get_evidence"} \cup (tasks[t].tools \cap {"search_knowledge"}))

InvestigateManuallyAtOnce(t) ==
    /\ Len(results) < MaxResults
    /\ Investigates(t)
    /\ results' = Append(results, Result(t, "MANUAL_REQUIRED", {}, {}))
    /\ trail' = trail \cup InvestigationTrail(t, {ModelRecord(t, "MODEL_CALL_FAILED", 1)})
    /\ UNCHANGED <<evidence, tasks, findings, associations, signals, facts>>

\* Both attempts fail: a MANUAL_REQUIRED result without a finding.
InvestigateManually(t) ==
    /\ Len(results) < MaxResults
    /\ Investigates(t)
    /\ results' = Append(results, Result(t, "MANUAL_REQUIRED", {}, {}))
    /\ trail' = trail \cup InvestigationTrail(t,
         {ModelRecord(t, "MODEL_CALL_FAILED", 1), ModelRecord(t, "MODEL_CALL_FAILED", 2)})
    /\ UNCHANGED <<evidence, tasks, findings, associations, signals, facts>>

\* The answer cites no evidence outside the task.
Cites(t, refs) == refs \subseteq Range(tasks[t].refs)

\* An answer on the first or the second attempt; one that cites other evidence
\* raises, and the model call has been recorded as completed.
Investigate(t, refs, attempt) ==
    /\ Len(results) < MaxResults
    /\ Investigates(t)
    /\ trail' = trail \cup InvestigationTrail(t,
         {ModelRecord(t, "MODEL_CALL_COMPLETED", 1)}
           \cup {ModelRecord(t, "MODEL_CALL_FAILED", a): a \in 1..attempt - 1}
           \cup CompletionIf(Cites(t, refs), t))
    /\ IF Cites(t, refs)
         THEN Concludes(t, "INVESTIGATION_FINDING", "COMPLETED", refs)
         ELSE UNCHANGED <<findings, results>>
    /\ UNCHANGED <<evidence, tasks, associations, signals, facts>>

TraceTask(t) ==
    [incident |-> tasks[t].incident, agent |-> "TRACE_AGENT", refs |-> tasks[t].refs,
     facts |-> {}, tools |-> {"get_evidence", "build_timeline"}, parent |-> t, planned |-> FALSE]

\* The trace task the workflow makes of an investigated task.
FollowWithTrace(t) ==
    /\ Len(tasks) < MaxTasks
    /\ \E r \in Range(results): r.task = t /\ r.status = "COMPLETED"
    /\ tasks[t].agent = "INVESTIGATION_AGENT"
    /\ tasks' = Append(tasks, TraceTask(t))
    /\ UNCHANGED <<evidence, findings, results, associations, signals, facts, trail, read>>

\* The order of a timeline: by timestamp and source record, and stable.
Timeline(t, m, n) ==
    LET Rank(k) == evidence[tasks[t].refs[k]].rank
    IN  Rank(m) < Rank(n) \/ (Rank(m) = Rank(n) /\ m < n)

\* Neighbours on the timeline are linked unless their sources differ.
Links(t) ==
    LET nodes == DOMAIN tasks[t].refs
        Item(n) == evidence[tasks[t].refs[n]]
        Neighbours(m, n) ==
            Timeline(t, m, n) /\ ~\E k \in nodes: Timeline(t, m, k) /\ Timeline(t, k, n)
    IN  {<<tasks[t].incident, tasks[t].refs[p[1]], tasks[t].refs[p[2]]>>:
           p \in {p \in nodes \X nodes: /\ Neighbours(p[1], p[2])
                                        /\ Item(p[1]).source = Item(p[2]).source}}

\* run_trace; without evidence the timeline schema raises after the tool call.
Trace(t) ==
    /\ Len(results) < MaxResults
    /\ Assigned(t, "TRACE_AGENT", {"build_timeline", "get_evidence"})
    /\ ReadsAll(t)
    /\ trail' = trail \cup ReadTrail(t) \cup ToolCalls(t, {"build_timeline"})
                     \cup CompletionIf(tasks[t].refs # <<>>, t)
    /\ read' = read \cup Learnt(t)
    /\ IF tasks[t].refs # <<>>
         THEN /\ associations' = associations \cup Links(t)
              /\ Concludes(t, "ATTACK_TIMELINE", "COMPLETED", Range(tasks[t].refs))
         ELSE UNCHANGED <<associations, findings, results>>
    /\ UNCHANGED <<evidence, tasks, signals, facts>>

\* run_monitor: matched are the evidence records the rules match in a capture.
\* A signal that exists is left as it is, with the incident that had it first.
Monitor(t, matched) ==
    /\ Len(results) < MaxResults
    /\ Assigned(t, "SILENT_MONITOR_AGENT", {"run_detection_rules"})
    /\ signals' = [e \in DOMAIN signals \cup matched |->
                     IF e \in DOMAIN signals THEN signals[e] ELSE tasks[t].incident]
    /\ results' = Append(results, Result(t, "COMPLETED", {}, matched))
    /\ trail' = trail \cup ToolCalls(t, {"run_detection_rules"}) \cup {CompletionRecord(t)}
    /\ UNCHANGED <<evidence, tasks, findings, associations, facts, read>>

ReportTools == <<"query_audit_records", "generate_report_input">>

Reports(t) ==
    /\ AllAllowed("AUDIT_AGENT", ReportTools, tasks[t].tools, {"audit:read"})
    /\ tasks[t].refs # <<>>

\* AuditAgentService.generate; the finding's schema refuses a task without evidence.
Generate(t, chainValid) ==
    /\ Len(results) < MaxResults
    /\ Assigned(t, "AUDIT_AGENT", {})
    /\ trail' = trail \cup ToolTrail("AUDIT_AGENT", ReportTools, tasks[t].tools, {"audit:read"})
                     \cup CompletionIf(Reports(t), t)
    /\ IF Reports(t)
         THEN Concludes(t, "AUDIT_REPORT", IF chainValid THEN "COMPLETED" ELSE "MANUAL_REQUIRED",
                        Range(tasks[t].refs))
         ELSE UNCHANGED <<findings, results>>
    /\ UNCHANGED <<evidence, tasks, associations, signals, facts, read>>

-----------------------------------------------------------------------------
(* Facts *)

Prerequisites ==
    [SECRET_ACCESSED |-> "CI_ACTION_MUTATED", CREDENTIAL_EXPOSED |-> "SECRET_ACCESSED",
     CREDENTIAL_ABUSED |-> "CREDENTIAL_EXPOSED", SENSITIVE_DATA_ACCESSED |-> "CREDENTIAL_ABUSED",
     HIGH_COST_RESOURCE_CREATED |-> "CREDENTIAL_ABUSED"]

HasPrerequisiteAnywhere(candidate) ==
    candidate.type \in DOMAIN Prerequisites =>
        \E f \in facts: f.type = Prerequisites[candidate.type]

HasPrerequisite(candidate) ==
    candidate.type \in DOMAIN Prerequisites =>
        \E f \in facts:
            f.incident = candidate.incident /\ f.type = Prerequisites[candidate.type]

\* _required_evidence and the check of the incident.
Supports(e, candidate) ==
    /\ e \in DOMAIN evidence
    /\ evidence[e].source # "OFFICIAL"
    /\ evidence[e].incident \in {None, candidate.incident}

\* _validate_semantics looks at the first evidence with the event type of the fact.
Proves(candidate) ==
    \E n \in DOMAIN candidate.refs:
        /\ evidence[candidate.refs[n]].proves = candidate.type
        /\ \A m \in 1..n - 1: evidence[candidate.refs[m]].proves # candidate.type
        /\ evidence[candidate.refs[n]].holds

\* FactValidator.promote; a candidate that fails a check raises and leaves nothing.
Promote(candidate) ==
    /\ Cardinality(facts) < MaxFacts
    /\ \A e \in Range(candidate.refs): Supports(e, candidate)
    /\ HasPrerequisite(candidate)
    /\ Proves(candidate)
    /\ facts' = facts \cup {candidate}
    /\ trail' = trail \cup {<<"FACT_PROMOTED", "SYSTEM", candidate.type>>}
    /\ UNCHANGED <<evidence, tasks, findings, results, associations, signals, read>>

-----------------------------------------------------------------------------

\* What the program calls create with: the official evidence of a capture
\* (demo.py:451), the synthetic evidence of the replay (golden_path.py:215) and the
\* snapshots of the mock state (state.py:148).  Each builds first versions only;
\* the API offers neither create nor append_correction.
Originals == {record \in Records: record.supersedes = None}

EvidenceSteps ==
    \/ \E record \in Originals: CreateEvidence(record)
    \/ \E record \in Records, original \in DOMAIN evidence, context \in Contexts:
         AppendCorrection(original, record, context.agent, context.incident)

AgentSteps ==
    \E t \in DOMAIN tasks:
        \/ PlanUnavailable(t)
        \/ \E plan \in Plans: PlanTask(t, plan)
        \/ ReadRefused(t)
        \/ InvestigateManually(t)
        \/ \E refs \in Answers, attempt \in 1..2: Investigate(t, refs, attempt)
        \/ FollowWithTrace(t)
        \/ Trace(t)
        \/ \E matched \in SUBSET {e \in DOMAIN evidence: evidence[e].source = "OFFICIAL"}:
             Monitor(t, matched)
        \/ \E chainValid \in BOOLEAN: Generate(t, chainValid)

Next ==
    \/ EvidenceSteps
    \/ \E task \in IssuedTasks: IssueTask(task)
    \/ AgentSteps
    \/ \E candidate \in Candidates: Promote(candidate)

Spec == Init /\ [][Next]_vars

-----------------------------------------------------------------------------
(* What delegation promises *)

\* The types of findings and results, which refer to the rows they cite.
FindingKinds == {"INVESTIGATION_FINDING", "ATTACK_TIMELINE", "AUDIT_REPORT"}

FindingType == [task: DOMAIN tasks, incident: Incidents, kind: FindingKinds,
                refs: (SUBSET Evidence) \ {{}}]

ResultType == [task: DOMAIN tasks, incident: Incidents, status: {"COMPLETED", "MANUAL_REQUIRED"},
               findings: SUBSET DOMAIN findings, refs: SUBSET Evidence]

\* Type invariant.
TypeOK ==
    /\ \A e \in DOMAIN evidence: evidence[e] \in Records /\ evidence[e].id = e
    /\ tasks \in Seq(Task) /\ \A t \in DOMAIN tasks: tasks[t].parent < t
    /\ findings \in Seq(FindingType)
    /\ \A f \in Range(findings): f.incident = tasks[f.task].incident
    /\ results \in Seq(ResultType)
    /\ facts \subseteq Candidates
    /\ read \subseteq (DOMAIN tasks) \X (DOMAIN evidence)
    /\ DOMAIN signals \subseteq DOMAIN evidence

\* The first version of an evidence record.
Origin[e \in DOMAIN evidence] ==
    IF evidence[e].supersedes = None THEN e ELSE Origin[evidence[e].supersedes]

\* However often a record is corrected, and whoever corrects it, it keeps the
\* source and the dataset of its first version (append_correction): corrections
\* cannot turn official evidence into synthetic evidence in two steps.  That first
\* versions come from create and later ones from append_correction is the callers'
\* doing, see Originals: create would store a correction of any source.
CorrectionsKeepOrigin ==
    \A e \in DOMAIN evidence:
        /\ evidence[e].supersedes \in DOMAIN evidence \cup {None}
        /\ evidence[e].source = evidence[Origin[e]].source
        /\ evidence[e].dataset = evidence[Origin[e]].dataset

Concluded == {f \in Range(findings): f.kind # "AUDIT_REPORT"}

\* A finding of the investigation and trace agents cites only evidence that the
\* trail shows its agent to have accessed, and that the agent was cleared for in
\* the incident of the finding: nothing secret, of another incident or withheld
\* from its type reaches a conclusion, through whatever plan the task was made.
\* The same holds of what the trace agent links, and links join one source.
FindingsCleared ==
    LET Cleared(e, agent, incident) ==
            /\ <<"EVIDENCE_ACCESSED", agent, e>> \in trail
            /\ evidence[e].sensitivity # "SECRET"
            /\ evidence[e].incident \in {None, incident}
            /\ agent \in evidence[e].agents
    IN  /\ \A f \in Concluded: \A e \in f.refs: Cleared(e, tasks[f.task].agent, f.incident)
        /\ \A link \in associations:
             /\ \A n \in 2..3: Cleared(link[n], "TRACE_AGENT", link[1])
             /\ evidence[link[2]].source = evidence[link[3]].source

\* A task planned by the main agent's model carries only tools that are
\* registered for its agent and change nothing, and every tool call on the trail
\* was a tool of a task of that agent: a plan cannot hand an agent a tool that
\* creates tasks, proposes actions or executes them.
ToolsSanctioned ==
    /\ \A t \in DOMAIN tasks: tasks[t].planned =>
         \A tool \in tasks[t].tools:
            /\ tool \in DOMAIN Registry /\ ~Registry[tool].side_effect
            /\ tasks[t].agent \in Registry[tool].agents
    /\ \A entry \in trail: entry[1] = "TOOL_CALL_SUCCEEDED" =>
         \E t \in DOMAIN tasks: tasks[t].agent = entry[2] /\ entry[3] \in tasks[t].tools

\* A model failure leaves no conclusion: an investigation that ended in manual
\* review has no finding, and the trail shows both attempts; any other result is
\* of a run the trail shows to have completed, the findings it cites are of its own
\* task, with the same evidence, and no run is shown to have completed without one.
FailuresConcludeNothing ==
    LET Manual(r) == tasks[r.task].agent = "INVESTIGATION_AGENT" /\ r.status = "MANUAL_REQUIRED" IN
    /\ \A r \in Range(results):
         IF Manual(r)
           THEN /\ r.findings = {} /\ r.refs = {}
                /\ \A a \in 1..2: ModelRecord(r.task, "MODEL_CALL_FAILED", a) \in trail
           ELSE /\ CompletionRecord(r.task) \in trail
                /\ \A n \in r.findings: findings[n].task = r.task /\ findings[n].refs = r.refs
    /\ \A entry \in trail: entry[1] \in Range(CompletedEvent) =>
         \E r \in Range(results): r.task = entry[3] /\ ~Manual(r)

\* A confirmed fact stands on evidence of its own incident that no correction
\* has brought over from an official capture, one record of which satisfies its
\* rule, and on the whole chain of prerequisites within the same incident.
FactsGrounded ==
    \A f \in facts:
        /\ \A e \in Range(f.refs):
             evidence[e].incident \in {None, f.incident} /\ evidence[Origin[e]].source # "OFFICIAL"
        /\ \E e \in Range(f.refs): evidence[e].proves = f.type /\ evidence[e].holds
        /\ f.type \in DOMAIN Prerequisites =>
             \E g \in facts: g.incident = f.incident /\ g.type = Prerequisites[f.type]

\* Delegation implements NeedToKnow: a task known to the abstraction by its
\* parent and its evidence, what it read, and what its findings cite.
Need == INSTANCE NeedToKnow WITH
    tasks <- [t \in DOMAIN tasks |-> [parent |-> tasks[t].parent, granted |-> Range(tasks[t].refs)]],
    known <- read,
    concluded <- {<<f.task, f.refs>>: f \in Concluded}

NeedsToKnow == Need!Spec
=============================================================================
