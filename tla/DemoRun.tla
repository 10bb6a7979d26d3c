------------------------------ MODULE DemoRun ------------------------------
(***************************************************************************)
(* One process that runs the demonstration (application/demo.py): it drives *)
(* the workflow graph (orchestration/golden_path.py) node by node over the *)
(* services of IncidentServices, which flush into one long database        *)
(* session, and commits only when the graph pauses for a human or ends.    *)
(* The graph's position is persisted separately, in a second database.     *)
(*                                                                         *)
(* The variables of IncidentServices are what the session sees; db is what *)
(* the business database has committed.  A start, a decision and a reset   *)
(* hold the runtime's lock from call to return, so at most one of them is  *)
(* in progress; only a crash comes in between.                             *)
(***************************************************************************)
EXTENDS Naturals, Sequences, FiniteSets

CONSTANTS
    Captures,           \* official captures that a run may import
    ReqIds,             \* request identifiers of the clients' decisions
    Faults,             \* which failures the environment produces
    AutonomousEnabled,  \* COMPETITION_AUTONOMOUS is explicitly enabled
    MaxApprovals,       \* bound: decisions a run may record
    None

FaultKinds == {"crash", "store", "checkpoint", "knowledge"}

ASSUME FaultsAssumption == Faults \subseteq FaultKinds

VARIABLES
    \* what the workflow's session sees (IncidentServices)
    status, facts, mock, request, policy, approvals, preauth, execution,
    verdicts, report, chainIntact,
    imported,  \* captures imported, as the session sees them
    \* durable
    db,        \* the committed business database
    saved,     \* where the checkpoint database would resume the graph
    \* of the process
    session,   \* "none", "clean", "dirty" (uncommitted writes), "broken"
    stage,     \* DemoRuntime._stage
    cache,     \* DemoRuntime._request_results
    call,      \* the call in progress
    graph      \* the graph's position and inputs while a call runs it

view == <<status, facts, mock, request, policy, approvals, preauth, execution,
          verdicts, report, chainIntact>>

process == <<session, stage, cache, call, graph>>

vars == <<view, imported, db, saved, process>>

\* A workflow creates one request, always from the same frozen template.
TheRequest == "arq"

S == INSTANCE IncidentServices WITH
        Requests <- {TheRequest}, Contents <- {"plan"}, Compliant <- {"plan"},
        OnTarget <- {"plan"}

ASSUME ServicesAssumption ==
    /\ AutonomousEnabled \in BOOLEAN
    /\ MaxApprovals \in Nat
    /\ None \notin {"plan"} \cup S!Preauthorization \cup S!MockState

-----------------------------------------------------------------------------
Nodes == {"ingest_event", "detect_signal", "create_incident",
          "plan_investigation", "run_investigation", "run_trace",
          "evaluate_facts", "build_action_plan", "build_action_request",
          "policy_check", "wait_for_approval", "autonomous_preauthorization",
          "execute_action", "verify_result", "generate_audit",
          "close_incident", "manual_or_stop", "replan_or_manual"}

\* stop_reason of the graph's state; "NONE" while there is none.
StopReasons == {"NONE", "MODEL_UNAVAILABLE", "POLICY_DENIED", "HUMAN_REJECTED",
                "AUTONOMOUS_PREAUTHORIZATION_DENIED",
                "VERIFICATION_FAILED_REPLAN", "CLOSED"}

Stages == {"IDLE", "WAITING_APPROVAL", "MANUAL_REQUIRED"}
              \cup (StopReasons \ {"NONE", "MODEL_UNAVAILABLE"})

Sequel ==
    [ingest_event         |-> "detect_signal",
     detect_signal        |-> "create_incident",
     create_incident      |-> "plan_investigation",
     plan_investigation   |-> "run_investigation",
     run_investigation    |-> "run_trace",
     run_trace            |-> "evaluate_facts",
     evaluate_facts       |-> "build_action_plan",
     build_action_plan    |-> "build_action_request",
     build_action_request |-> "policy_check",
     wait_for_approval    |-> "execute_action",
     autonomous_preauthorization |-> "execute_action",
     execute_action       |-> "verify_result",
     verify_result        |-> "generate_audit",
     generate_audit       |-> "close_incident",
     close_incident       |-> "END",
     manual_or_stop       |-> "END",
     replan_or_manual     |-> "END"]

\* The conditional edges leave the sequence on a stop reason.
Stopping == {"plan_investigation", "run_investigation", "policy_check",
             "wait_for_approval", "autonomous_preauthorization"}

After(node, stop, mode) ==
    IF node \in Stopping /\ stop # "NONE" THEN "manual_or_stop"
    ELSE IF node = "verify_result" /\ stop # "NONE" THEN "replan_or_manual"
    ELSE IF node # "policy_check" THEN Sequel[node]
    ELSE IF mode = "COMPETITION_AUTONOMOUS" THEN "autonomous_preauthorization"
    ELSE "wait_for_approval"

Position == [next : Nodes \cup {"END"}, stop : StopReasons]

IdleGraph == [next |-> "END", stop |-> "NONE", mode |-> "PRODUCTION_GUARDED",
              force |-> FALSE, modelOk |-> TRUE, missed |-> FALSE]

NoCall == [kind |-> "none", decision |-> "NONE", id |-> None]

CallType == [kind : {"none", "start", "decide"},
             decision : {"NONE", "APPROVED", "REJECTED"},
             id : ReqIds \cup {None}]

GraphType == [next : Nodes \cup {"END"}, stop : StopReasons, mode : S!Modes,
              force : BOOLEAN, modelOk : BOOLEAN, missed : BOOLEAN]

StoreType ==
    [status : S!Statuses, facts : SUBSET S!FactTypes, mock : S!MockState \cup {None},
     request : [{TheRequest} -> {"plan", None}],
     policy : [{TheRequest} -> S!Outcomes],
     approvals : [{TheRequest} -> Seq(S!Approval)],
     preauth : [{TheRequest} -> S!Preauthorization \cup {None}],
     execution : [{TheRequest} -> {"plan", None}],
     verdicts : SUBSET S!Verdict, report : {"NONE", "VALID", "INVALID"},
     chainIntact : BOOLEAN, imported : SUBSET Captures]

Store ==
    [status |-> status, facts |-> facts, mock |-> mock, request |-> request,
     policy |-> policy, approvals |-> approvals, preauth |-> preauth,
     execution |-> execution, verdicts |-> verdicts, report |-> report,
     chainIntact |-> chainIntact, imported |-> imported]

\* The next session sees what store holds.
Load(store) ==
    /\ status' = store.status /\ facts' = store.facts /\ mock' = store.mock
    /\ request' = store.request /\ policy' = store.policy
    /\ approvals' = store.approvals /\ preauth' = store.preauth
    /\ execution' = store.execution /\ verdicts' = store.verdicts
    /\ report' = store.report /\ chainIntact' = store.chainIntact
    /\ imported' = store.imported

EmptyStore ==
    [status |-> "NONE", facts |-> {}, mock |-> None,
     request |-> [r \in {TheRequest} |-> None],
     policy |-> [r \in {TheRequest} |-> "NONE"],
     approvals |-> [r \in {TheRequest} |-> <<>>],
     preauth |-> [r \in {TheRequest} |-> None],
     execution |-> [r \in {TheRequest} |-> None],
     verdicts |-> {}, report |-> "NONE", chainIntact |-> TRUE, imported |-> {}]

\* The type invariant.
TypeOK ==
    /\ Store \in StoreType /\ db \in StoreType
    /\ saved \in Position \cup {None}
    /\ session \in {"none", "clean", "dirty", "broken"}
    /\ stage \in Stages
    /\ cache \in [ReqIds -> Stages \cup {None}]
    /\ call \in CallType
    /\ graph \in GraphType

Init ==
    /\ S!Init
    /\ imported = {} /\ db = EmptyStore /\ saved = None
    /\ session = "none" /\ stage = "IDLE"
    /\ cache = [q \in ReqIds |-> None]
    /\ call = NoCall /\ graph = IdleGraph

-----------------------------------------------------------------------------
\* DemoRuntime.start up to the graph's first node.  A start on top of a failed
\* one that still holds the store's write lock changes nothing.
Start(k, m, force, ok) ==
    /\ call = NoCall /\ stage = "IDLE" /\ session # "dirty"
    /\ m = "COMPETITION_AUTONOMOUS" => AutonomousEnabled
    /\ k \notin db.imported
    /\ call' = [NoCall EXCEPT !.kind = "start"]
    /\ session' = "dirty"
    /\ imported' = imported \cup {k}
    /\ graph' = [IdleGraph EXCEPT !.next = "ingest_event", !.mode = m,
                                  !.force = force, !.modelOk = ok]
    /\ saved' = [next |-> "ingest_event", stop |-> "NONE"]
    /\ UNCHANGED <<view, db, stage, cache>>

\* The evidence of a capture that is already stored collides with itself.
StartImportFails(k) ==
    /\ call = NoCall /\ stage = "IDLE" /\ session # "dirty"
    /\ k \in db.imported
    /\ session' = "broken"
    /\ UNCHANGED <<view, imported, db, saved, stage, cache, call, graph>>

\* DemoRuntime.decide up to the resumed graph: a known request id is answered
\* from the cache.  The graph goes on from its persisted position, whatever
\* this decision says, unless that position is the pause itself.
Decide(d, q) ==
    /\ call = NoCall /\ stage = "WAITING_APPROVAL" /\ cache[q] = None
    /\ session # "broken" /\ request[TheRequest] # None
    /\ Len(approvals[TheRequest]) < MaxApprovals
    /\ call' = [kind |-> "decide", decision |-> d, id |-> q]
    /\ session' = "dirty"
    /\ graph' = [graph EXCEPT !.next = saved.next, !.stop = saved.stop]
    /\ UNCHANGED <<view, imported, db, saved, stage, cache>>

\* Mutant: the call commits what it has written although it raises.
AbandonCommitting ==
    /\ call' = NoCall
    /\ graph' = [graph EXCEPT !.next = "END", !.stop = "NONE", !.missed = FALSE]
    /\ db' = Store /\ session' = "clean"
    /\ UNCHANGED <<imported, saved, stage, cache>>

\* The call raises: nothing is rolled back, nothing is remembered of it.
Abandon ==
    /\ call' = NoCall
    /\ graph' = [graph EXCEPT !.next = "END", !.stop = "NONE", !.missed = FALSE]
    /\ UNCHANGED <<imported, db, saved, session, stage, cache>>

-----------------------------------------------------------------------------
At(node) == call # NoCall /\ graph.next = node

\* Mutant: every node commits.
LeaveCommitting(stop) ==
    LET next == After(graph.next, stop, graph.mode) IN
    /\ saved' = [next |-> next, stop |-> stop]
    /\ graph' = [graph EXCEPT !.next = next, !.stop = stop]
    /\ db' = [status |-> status', facts |-> facts', mock |-> mock',
              request |-> request', policy |-> policy', approvals |-> approvals',
              preauth |-> preauth', execution |-> execution',
              verdicts |-> verdicts', report |-> report',
              chainIntact |-> chainIntact', imported |-> imported]
    /\ UNCHANGED <<imported, session, stage, cache, call>>

\* Leaving a node with this stop reason.  The checkpoint is written in the
\* background: when a write is lost the graph runs on, later writes are still
\* attempted, and the call raises when the graph has stopped.
Leave(stop) ==
    LET next == After(graph.next, stop, graph.mode) IN
    /\ \/ /\ saved' = [next |-> next, stop |-> stop]
          /\ graph' = [graph EXCEPT !.next = next, !.stop = stop]
       \/ /\ "checkpoint" \in Faults
          /\ saved' = saved
          /\ graph' = [graph EXCEPT !.next = next, !.stop = stop, !.missed = TRUE]
    /\ UNCHANGED <<imported, db, session, stage, cache, call>>

IngestEvent == At("ingest_event") /\ S!Ingest /\ Leave("NONE")

\* Nodes that leave nothing in the tables modelled here.
Bookkeeping ==
    /\ \E node \in {"detect_signal", "run_investigation", "run_trace",
                    "build_action_plan", "manual_or_stop", "replan_or_manual"} : At(node)
    /\ UNCHANGED view
    /\ Leave(graph.stop)

CreateIncident == At("create_incident") /\ S!OpenIncident /\ Leave("NONE")

\* The scenario's incident is already stored.
CreateIncidentFails ==
    At("create_incident") /\ ~S!CanOpen /\ Abandon /\ UNCHANGED view

PlanInvestigation ==
    /\ At("plan_investigation")
    /\ \/ graph.modelOk /\ S!PlanInvestigation /\ Leave("NONE")
       \/ ~graph.modelOk /\ UNCHANGED view /\ Leave("MODEL_UNAVAILABLE")

EvaluateFacts ==
    At("evaluate_facts") /\ S!CanAttribute /\ S!EvaluateFacts /\ Leave("NONE")

BuildActionRequest ==
    At("build_action_request") /\ S!CreateRequest(TheRequest, "plan") /\ Leave("NONE")

PolicyCheck ==
    /\ At("policy_check")
    /\ S!EvaluatePolicy(TheRequest, graph.mode)
    /\ Leave(IF policy'[TheRequest] = "DENY" THEN "POLICY_DENIED" ELSE "NONE")

WaitForApproval ==
    /\ At("wait_for_approval") /\ call.kind = "decide"
    /\ S!DecideApproval(TheRequest, call.decision)
    /\ Leave(IF call.decision = "REJECTED" THEN "HUMAN_REJECTED" ELSE "NONE")

AutonomousPreauthorization ==
    /\ At("autonomous_preauthorization")
    /\ S!Preauthorize(TheRequest, graph.mode)
    /\ Leave(IF preauth'[TheRequest].decision = "DENY"
             THEN "AUTONOMOUS_PREAUTHORIZATION_DENIED" ELSE "NONE")

ExecuteAction ==
    /\ At("execute_action")
    /\ \/ S!Execute(TheRequest, graph.mode)
       \/ execution[TheRequest] # None /\ UNCHANGED view
    /\ Leave("NONE")

VerifyResult ==
    /\ At("verify_result")
    /\ S!Verify(TheRequest, graph.force)
    /\ Leave(IF S!Recovered /\ ~graph.force THEN "NONE" ELSE "VERIFICATION_FAILED_REPLAN")

GenerateAudit == At("generate_audit") /\ S!GenerateReport /\ Leave("NONE")

CloseIncident == At("close_incident") /\ S!Close /\ Leave("CLOSED")

\* The node runs again over an incident that an abandoned call has closed.
CloseIncidentFails ==
    At("close_incident") /\ ~S!CanClose /\ Abandon /\ UNCHANGED view

\* One node of the graph.
Step ==
    \/ IngestEvent \/ Bookkeeping \/ CreateIncident \/ CreateIncidentFails
    \/ PlanInvestigation \/ EvaluateFacts \/ BuildActionRequest \/ PolicyCheck
    \/ WaitForApproval \/ AutonomousPreauthorization \/ ExecuteAction
    \/ VerifyResult \/ GenerateAudit \/ CloseIncident \/ CloseIncidentFails

-----------------------------------------------------------------------------
Stopped ==
    \/ At("END")
    \/ At("wait_for_approval") /\ call.kind = "start"

\* Mutant: the stage is the graph's stop reason, whatever that is.
FinishUnmapped ==
    /\ Stopped /\ ~graph.missed
    /\ db' = Store
    /\ session' = "clean"
    /\ stage' = IF graph.next = "wait_for_approval" THEN "WAITING_APPROVAL" ELSE graph.stop
    /\ cache' = IF call.kind = "decide" THEN [cache EXCEPT ![call.id] = stage'] ELSE cache
    /\ call' = NoCall
    /\ graph' = [graph EXCEPT !.next = "END", !.stop = "NONE"]
    /\ UNCHANGED <<view, imported, saved>>

\* The rest of DemoRuntime.start and decide: commit, then report.
Finish ==
    /\ Stopped /\ ~graph.missed
    /\ db' = Store
    /\ session' = "clean"
    /\ stage' = IF graph.next = "wait_for_approval" THEN "WAITING_APPROVAL"
                ELSE IF graph.stop = "MODEL_UNAVAILABLE" /\ call.kind = "start"
                     THEN "MANUAL_REQUIRED"
                ELSE graph.stop
    /\ cache' = IF call.kind = "decide" THEN [cache EXCEPT ![call.id] = stage'] ELSE cache
    /\ call' = NoCall
    /\ graph' = [graph EXCEPT !.next = "END", !.stop = "NONE"]
    /\ UNCHANGED <<view, imported, saved>>

\* Mutant: the failed call rolls the session back, and keeps its thread.
FinishFailsRollingBack ==
    /\ Stopped /\ graph.missed
    /\ Load(db)
    /\ session' = "clean" /\ call' = NoCall
    /\ graph' = [graph EXCEPT !.next = "END", !.stop = "NONE", !.missed = FALSE]
    /\ UNCHANGED <<db, saved, stage, cache>>

\* A lost checkpoint write surfaces.
FinishFails == Stopped /\ graph.missed /\ Abandon /\ UNCHANGED view

\* Nodes that flush rows into the session.
Writing == Nodes \ {"detect_signal", "manual_or_stop"}

\* A flush fails: the session forgets its transaction and refuses further use.
StoreFails ==
    /\ "store" \in Faults /\ call # NoCall
    /\ ~Stopped /\ graph.next \in Writing
    /\ Load(db)
    /\ session' = "broken"
    /\ call' = NoCall
    /\ graph' = [graph EXCEPT !.next = "END", !.stop = "NONE", !.missed = FALSE]
    /\ UNCHANGED <<db, saved, stage, cache>>

\* The process dies and is started again: the stores survive, and the new
\* runtime knows neither thread nor incident.
Restart ==
    /\ "crash" \in Faults
    /\ Load(db)
    /\ session' = "none" /\ stage' = "IDLE"
    /\ cache' = [q \in ReqIds |-> None]
    /\ call' = NoCall /\ graph' = IdleGraph /\ saved' = None
    /\ UNCHANGED db

\* Mutant: the answers of the wiped run are remembered.
ResetKeepingAnswers ==
    /\ call = NoCall
    /\ db' = EmptyStore /\ Load(EmptyStore) /\ saved' = None
    /\ session' = "none" /\ stage' = "IDLE"
    /\ graph' = IdleGraph
    /\ UNCHANGED <<call, cache>>

Reset ==
    /\ call = NoCall
    /\ db' = EmptyStore /\ Load(EmptyStore) /\ saved' = None
    /\ session' = "none" /\ stage' = "IDLE"
    /\ cache' = [q \in ReqIds |-> None]
    /\ graph' = IdleGraph
    /\ UNCHANGED call

\* The knowledge index cannot be rebuilt: the files are gone, the memory of
\* the run is not.
ResetFails ==
    /\ "knowledge" \in Faults /\ call = NoCall
    /\ db' = EmptyStore /\ Load(EmptyStore) /\ saved' = None
    /\ session' = IF session = "none" THEN "none" ELSE "clean"
    /\ UNCHANGED <<stage, cache, call, graph>>

Next ==
    \/ \E k \in Captures, m \in S!Modes, force, ok \in BOOLEAN : Start(k, m, force, ok)
    \/ \E k \in Captures : StartImportFails(k)
    \/ \E d \in {"APPROVED", "REJECTED"}, q \in ReqIds : Decide(d, q)
    \/ Step \/ Finish \/ FinishFails
    \/ StoreFails \/ Restart \/ Reset \/ ResetFails

Spec == Init /\ [][Next]_vars

-----------------------------------------------------------------------------
Passed == [request |-> TheRequest, passed |-> TRUE]

Endorsed(store) ==
    \/ \E i \in DOMAIN store.approvals[TheRequest] :
           store.approvals[TheRequest][i].decision = "APPROVED"
    \/ /\ store.preauth[TheRequest] # None
       /\ store.preauth[TheRequest].decision = "AUTO_PREAUTHORIZED"

\* What is committed is whole, whatever fails in between: the stored
\* environment is never half contained, it is contained exactly when the
\* execution that did it is stored too, together with the authority it had,
\* and a stored CLOSED comes with a passed verification (the single commit of
\* start and decide over everything the nodes flush).
CommittedEffects ==
    /\ db.mock \in {None, S!InitialMock, S!RotatedMock}
    /\ db.mock = S!RotatedMock <=> db.execution[TheRequest] # None
    /\ db.execution[TheRequest] # None =>
           Endorsed(db) /\ db.status \in {"ROTATED", "VERIFIED", "CLOSED"}
    /\ db.status = "CLOSED" => Passed \in db.verdicts

\* Between calls the stage that status() reports describes the committed
\* store, as the stage table of docs/13 section 4.4 says.  A failed reset may
\* leave the stage over an empty store: that is excluded here.
StageTruthful ==
    call = NoCall /\ db.status # "NONE" =>
        CASE stage = "IDLE"             -> TRUE
          [] stage = "WAITING_APPROVAL" ->
                 /\ db.status = "ATTRIBUTED" /\ db.mock = S!InitialMock
                 /\ db.approvals[TheRequest] = <<>> /\ db.preauth[TheRequest] = None
          [] stage = "MANUAL_REQUIRED"  ->
                 /\ db.status = "DETECTED" /\ db.mock = S!InitialMock
                 /\ db.request[TheRequest] = None
          [] stage = "HUMAN_REJECTED"   ->
                 /\ db.status = "ATTRIBUTED" /\ db.mock = S!InitialMock
                 /\ Len(db.approvals[TheRequest]) = 1 /\ ~Endorsed(db)
          [] stage = "VERIFICATION_FAILED_REPLAN" ->
                 /\ db.status = "ROTATED" /\ db.mock = S!RotatedMock
                 /\ Passed \notin db.verdicts
          [] stage = "CLOSED"           ->
                 db.status = "CLOSED" /\ db.mock = S!RotatedMock
          [] OTHER                      -> FALSE

\* A remembered answer is still what the runtime reports, and no second
\* decision of the same run has been answered: a client that repeats its
\* request id after the run has moved on is not told a stale stage
\* (_request_results across decide, reset and restart).
CacheTruthful ==
    /\ \A q \in ReqIds : cache[q] \in {None, stage}
    /\ \A q, p \in ReqIds : cache[q] # None /\ cache[p] # None => q = p

\* Even when checkpoint writes are lost and a decision is given again, a run
\* reported CLOSED is closed in the store, on a standing approval or
\* pre-authorization and a passed verification (resumption of the graph from a
\* position that is behind the session's writes).
ClosedJustified ==
    stage = "CLOSED" /\ db.status # "NONE" =>
        /\ db.status = "CLOSED" /\ db.mock = S!RotatedMock
        /\ Passed \in db.verdicts /\ Endorsed(db)

\* docs/4 section 18.2, scenario 5: after a human rejection the Mock state is
\* completely unchanged.  Violated when an approval whose checkpoint was lost
\* is followed by a rejection: DemoRuntime.decide rolls nothing back.
RejectedLeavesMockUnchanged ==
    stage = "HUMAN_REJECTED" /\ db.status # "NONE" => db.mock = S!InitialMock

\* docs/4 section 12.2: the checkpoint serves to resume the process.  Violated
\* by a restart: DemoRuntime.__init__ starts with no thread, so a committed
\* request that waits for its approval can no longer be decided.
WaitingRequestIsDecidable ==
    /\ call = NoCall
    /\ db.policy[TheRequest] = "ALLOW_WITH_APPROVAL" /\ db.approvals[TheRequest] = <<>>
    => stage = "WAITING_APPROVAL"

\* A run keeps the operator's promises of RunOutcome.
Reported ==
    CASE stage = "IDLE"             -> "idle"
      [] stage = "WAITING_APPROVAL" -> "waiting"
      [] stage = "HUMAN_REJECTED"   -> "rejected"
      [] stage = "CLOSED"           -> "closed"
      [] stage = "VERIFICATION_FAILED_REPLAN" -> "replan"
      [] OTHER                      -> "manual"

Outcome == INSTANCE RunOutcome WITH
               outcome <- Reported, contained <- db.mock = S!RotatedMock

KeepsPromises == Outcome!Spec
=============================================================================
