--------------------------- MODULE DemoRun_proofs ---------------------------
(***************************************************************************)
(* Theorems about DemoRun, for any captures, request ids, bounds and kinds *)
(* of failure: type correctness, commits that are whole, answers that are  *)
(* not stale, runs that are closed with a reason.  Where no checkpoint     *)
(* write is lost: stages that tell the store, and the refinement of        *)
(* RunOutcome.                                                             *)
(*                                                                         *)
(* RunInv is inductive whatever fails.  A graph that resumes behind its    *)
(* session finds more than its position says, so RunInv says only which    *)
(* positions a decision may resume and that the session is whole there.    *)
(* ExactInv says, for each node, what it finds; it needs every checkpoint. *)
(***************************************************************************)
EXTENDS DemoRun, SequenceTheorems, TLAPS

\* The nodes that may run over an incident that is stored already.
Opening == {"ingest_event", "detect_signal", "create_incident"}

\* The nodes that a decision may run.
Deciding == {"wait_for_approval", "execute_action", "verify_result",
             "generate_audit", "close_incident", "manual_or_stop",
             "replan_or_manual", "END"}

\* What a database says that was written by a run from its first node on.
Whole(store) ==
    /\ store.mock \in {None, S!InitialMock, S!RotatedMock}
    /\ store.mock = S!RotatedMock <=> store.execution[TheRequest] # None
    /\ store.execution[TheRequest] # None =>
           Endorsed(store) /\ store.status \in {"ROTATED", "VERIFIED", "CLOSED"}
    /\ store.status \in {"VERIFIED", "CLOSED"} =>
           Passed \in store.verdicts /\ store.execution[TheRequest] # None

\* A stop reason that fits the node it comes with.
Fits(node, stop) ==
    /\ node \notin {"manual_or_stop", "replan_or_manual", "END"} => stop = "NONE"
    /\ node = "manual_or_stop" =>
           stop \in {"MODEL_UNAVAILABLE", "POLICY_DENIED", "HUMAN_REJECTED",
                     "AUTONOMOUS_PREAUTHORIZATION_DENIED"}
    /\ node = "replan_or_manual" => stop = "VERIFICATION_FAILED_REPLAN"
    /\ node = "END" => stop # "NONE"

\* A position that a decision may take up, over this status of the incident.
Resumable(node, stop) ==
    /\ node \in Deciding /\ Fits(node, stop)
    /\ stop # "MODEL_UNAVAILABLE"
    /\ stop = "CLOSED" => status = "CLOSED"

\* But for the environment and the imports, the session shows the database.
AsCommitted ==
    /\ status = db.status /\ facts = db.facts /\ request = db.request
    /\ policy = db.policy /\ approvals = db.approvals /\ preauth = db.preauth
    /\ execution = db.execution /\ verdicts = db.verdicts
    /\ report = db.report /\ chainIntact = db.chainIntact

\* The call in progress is none, a start, or a decision with its answer and id.
CallShape ==
    \/ call = NoCall
    \/ call = [NoCall EXCEPT !.kind = "start"]
    \/ call.kind = "decide" /\ call.decision \in {"APPROVED", "REJECTED"} /\ call.id \in ReqIds

\* The committed database.
CommittedInv ==
    /\ Whole(db)
    /\ db.status = "NONE" => db = EmptyStore

\* No call is in progress.
RestInv ==
    call = NoCall =>
        /\ ~graph.missed
        /\ session # "dirty" => Store = db
        /\ session = "dirty" => stage \in {"IDLE", "WAITING_APPROVAL"}
        /\ session = "dirty" /\ stage = "WAITING_APPROVAL" =>
               Whole(Store) /\ status # "NONE"
        /\ stage = "WAITING_APPROVAL" /\ session # "broken" /\ request[TheRequest] # None =>
               saved \in Position /\ Resumable(saved.next, saved.stop)

\* A call is in progress.
CallInv ==
    call # NoCall =>
        /\ session = "dirty"
        /\ Fits(graph.next, graph.stop)
        /\ graph.stop = "CLOSED" => status = "CLOSED"
        /\ saved \in Position
        /\ ~graph.missed => saved = [next |-> graph.next, stop |-> graph.stop]

\* A start works on an empty store: up to create_incident its session shows
\* what is committed, and afterwards a run that it wrote from its first node on.
StartInv ==
    call.kind = "start" =>
        /\ stage = "IDLE"
        /\ graph.next \in Opening => AsCommitted
        /\ graph.next = "ingest_event" => mock = db.mock
        /\ graph.next \in Opening \ {"ingest_event"} => mock = S!InitialMock
        /\ graph.next \notin Opening => Whole(Store) /\ status # "NONE" /\ db = EmptyStore

\* A decision works on a whole run, from a position that it may take up.
DecideInv ==
    call.kind = "decide" =>
        /\ stage = "WAITING_APPROVAL"
        /\ Whole(Store) /\ status # "NONE"
        /\ Resumable(graph.next, graph.stop)
        /\ Resumable(saved.next, saved.stop)

\* What the runtime remembers of its run.
MemoryInv ==
    /\ stage \in {"IDLE", "WAITING_APPROVAL"} => cache = [q \in ReqIds |-> None]
    /\ CacheTruthful
    /\ ClosedJustified

\* The inductive invariant that holds whatever fails.
RunInv ==
    /\ TypeOK
    /\ CallShape
    /\ CommittedInv
    /\ RestInv
    /\ CallInv
    /\ StartInv
    /\ DecideInv
    /\ MemoryInv

-----------------------------------------------------------------------------
\* Without lost checkpoints.

\* Nothing has been requested or done yet.
Pristine ==
    /\ mock = S!InitialMock /\ request[TheRequest] = None
    /\ policy[TheRequest] = "NONE" /\ approvals[TheRequest] = <<>>
    /\ preauth[TheRequest] = None /\ execution[TheRequest] = None
    /\ verdicts = {}

\* The request is stored, nothing has been done.
Requested(p) ==
    /\ status = "ATTRIBUTED" /\ facts = S!FactTypes
    /\ mock = S!InitialMock /\ request[TheRequest] = "plan"
    /\ policy[TheRequest] = p /\ approvals[TheRequest] = <<>>
    /\ preauth[TheRequest] = None /\ execution[TheRequest] = None
    /\ verdicts = {}

\* What the session sees when the graph has reached a node.
Reached(node) ==
    /\ node = "plan_investigation" => status = "DETECTED" /\ Pristine
    /\ node \in {"run_investigation", "run_trace", "evaluate_facts"} =>
           status = "INVESTIGATING" /\ Pristine
    /\ node \in {"build_action_plan", "build_action_request"} =>
           status = "ATTRIBUTED" /\ facts = S!FactTypes /\ Pristine
    /\ node = "policy_check" => Requested("NONE")
    /\ node = "wait_for_approval" =>
           Requested("ALLOW_WITH_APPROVAL") /\ graph.mode = "PRODUCTION_GUARDED"
    /\ node = "autonomous_preauthorization" =>
           Requested("ALLOW_WITH_PREAUTHORIZATION") /\ graph.mode = "COMPETITION_AUTONOMOUS"
    /\ node = "execute_action" =>
           /\ status = "ATTRIBUTED" /\ execution[TheRequest] = None /\ verdicts = {}
    /\ node = "verify_result" =>
           status = "ROTATED" /\ mock = S!RotatedMock /\ verdicts = {}
    /\ node = "generate_audit" => status = "VERIFIED" /\ mock = S!RotatedMock
    /\ node = "close_incident" =>
           status = "VERIFIED" /\ mock = S!RotatedMock /\ report = "VALID"

\* What the session sees when the graph has a reason to stop.
StoppedFor(stop) ==
    /\ stop \notin {"POLICY_DENIED", "AUTONOMOUS_PREAUTHORIZATION_DENIED"}
    /\ stop = "MODEL_UNAVAILABLE" => status = "DETECTED" /\ Pristine
    /\ stop = "HUMAN_REJECTED" =>
           /\ status = "ATTRIBUTED" /\ mock = S!InitialMock
           /\ Len(approvals[TheRequest]) = 1 /\ ~Endorsed(Store)
    /\ stop = "VERIFICATION_FAILED_REPLAN" =>
           status = "ROTATED" /\ mock = S!RotatedMock /\ Passed \notin verdicts
    /\ stop = "CLOSED" => status = "CLOSED" /\ mock = S!RotatedMock

\* StageTruthful, whether or not a call is in progress.
StageFits ==
    db.status # "NONE" =>
        /\ stage \in {"IDLE", "WAITING_APPROVAL", "MANUAL_REQUIRED", "HUMAN_REJECTED",
                      "VERIFICATION_FAILED_REPLAN", "CLOSED"}
        /\ stage = "WAITING_APPROVAL" =>
               /\ graph.mode = "PRODUCTION_GUARDED"
               /\ db.status = "ATTRIBUTED" /\ db.facts = S!FactTypes
               /\ db.mock = S!InitialMock /\ db.request[TheRequest] = "plan"
               /\ db.policy[TheRequest] = "ALLOW_WITH_APPROVAL"
               /\ db.approvals[TheRequest] = <<>> /\ db.preauth[TheRequest] = None
               /\ db.execution[TheRequest] = None /\ db.verdicts = {}
        /\ stage = "MANUAL_REQUIRED" =>
               /\ db.status = "DETECTED" /\ db.mock = S!InitialMock
               /\ db.request[TheRequest] = None
        /\ stage = "HUMAN_REJECTED" =>
               /\ db.status = "ATTRIBUTED" /\ db.mock = S!InitialMock
               /\ Len(db.approvals[TheRequest]) = 1 /\ ~Endorsed(db)
        /\ stage = "VERIFICATION_FAILED_REPLAN" =>
               /\ db.status = "ROTATED" /\ db.mock = S!RotatedMock
               /\ Passed \notin db.verdicts
        /\ stage = "CLOSED" => db.status = "CLOSED" /\ db.mock = S!RotatedMock

\* The inductive invariant that holds where no checkpoint write is lost: every
\* node finds what its predecessors left, and every stage what was committed.
ExactInv ==
    /\ ~graph.missed
    /\ chainIntact /\ db.chainIntact
    /\ graph.mode = "COMPETITION_AUTONOMOUS" => AutonomousEnabled
    /\ call = NoCall /\ session = "dirty" => stage = "IDLE"
    /\ stage = "WAITING_APPROVAL" /\ call = NoCall /\ session # "broken" /\ request[TheRequest] # None =>
           saved = [next |-> "wait_for_approval", stop |-> "NONE"]
    /\ call # NoCall => Reached(graph.next) /\ StoppedFor(graph.stop)
    /\ StageFits
    /\ call.kind = "decide" => db.mock # S!RotatedMock
    /\ call.kind = "start" => graph.stop # "HUMAN_REJECTED"

-----------------------------------------------------------------------------
\* A missing row is no row, and the two states of the environment differ.
LEMMA NoneIsNoRow ==
    /\ None # "plan" /\ None # S!InitialMock /\ None # S!RotatedMock
    /\ S!InitialMock # S!RotatedMock
    /\ S!InitialMock \in S!MockState /\ S!RotatedMock \in S!MockState
    /\ None \notin S!Preauthorization
BY ServicesAssumption DEF S!InitialMock, S!RotatedMock, S!MockState

\* Where the graph goes from each node while there is no reason to stop, and
\* where it goes when there is one.
LEMMA AfterEachNode ==
    /\ \A stop, mode : After("ingest_event", stop, mode) = "detect_signal"
    /\ \A stop, mode : After("detect_signal", stop, mode) = "create_incident"
    /\ \A stop, mode : After("create_incident", stop, mode) = "plan_investigation"
    /\ \A mode : After("plan_investigation", "NONE", mode) = "run_investigation"
    /\ \A mode : After("run_investigation", "NONE", mode) = "run_trace"
    /\ \A stop, mode : After("run_trace", stop, mode) = "evaluate_facts"
    /\ \A stop, mode : After("evaluate_facts", stop, mode) = "build_action_plan"
    /\ \A stop, mode : After("build_action_plan", stop, mode) = "build_action_request"
    /\ \A stop, mode : After("build_action_request", stop, mode) = "policy_check"
    /\ \A mode : After("policy_check", "NONE", mode) =
                     IF mode = "COMPETITION_AUTONOMOUS" THEN "autonomous_preauthorization"
                     ELSE "wait_for_approval"
    /\ \A mode : After("wait_for_approval", "NONE", mode) = "execute_action"
    /\ \A mode : After("autonomous_preauthorization", "NONE", mode) = "execute_action"
    /\ \A stop, mode : After("execute_action", stop, mode) = "verify_result"
    /\ \A mode : After("verify_result", "NONE", mode) = "generate_audit"
    /\ \A stop, mode : After("generate_audit", stop, mode) = "close_incident"
    /\ \A stop, mode : After("close_incident", stop, mode) = "END"
    /\ \A stop, mode : After("manual_or_stop", stop, mode) = "END"
    /\ \A stop, mode : After("replan_or_manual", stop, mode) = "END"
<1>1. /\ Sequel["ingest_event"] = "detect_signal"
      /\ Sequel["detect_signal"] = "create_incident"
      /\ Sequel["create_incident"] = "plan_investigation"
      /\ Sequel["plan_investigation"] = "run_investigation"
      /\ Sequel["run_investigation"] = "run_trace"
      /\ Sequel["run_trace"] = "evaluate_facts"
      /\ Sequel["evaluate_facts"] = "build_action_plan"
      /\ Sequel["build_action_plan"] = "build_action_request"
      /\ Sequel["build_action_request"] = "policy_check"
      /\ Sequel["wait_for_approval"] = "execute_action"
      /\ Sequel["autonomous_preauthorization"] = "execute_action"
      /\ Sequel["execute_action"] = "verify_result"
      /\ Sequel["verify_result"] = "generate_audit"
      /\ Sequel["generate_audit"] = "close_incident"
      /\ Sequel["close_incident"] = "END"
      /\ Sequel["manual_or_stop"] = "END"
      /\ Sequel["replan_or_manual"] = "END"
  BY DEF Sequel
<1>2. QED
  BY <1>1 DEF After, Stopping

\* With a reason to stop, the graph leaves the sequence.
LEMMA AfterStopping ==
    ASSUME NEW stop, stop # "NONE", NEW mode
    PROVE  /\ \A node \in Stopping : After(node, stop, mode) = "manual_or_stop"
           /\ After("verify_result", stop, mode) = "replan_or_manual"
BY DEF After, Stopping

\* The graph has a successor for every node.
LEMMA AfterStaysInGraph ==
    ASSUME NEW node, node \in Nodes, NEW stop, NEW mode
    PROVE  After(node, stop, mode) \in Nodes \cup {"END"}
<1>1. CASE stop # "NONE" /\ node \in Stopping \cup {"verify_result"}
  BY <1>1, AfterStopping DEF Nodes
<1>2. CASE stop = "NONE" \/ node \notin Stopping \cup {"verify_result"}
  BY <1>2, AfterEachNode DEF Nodes, Stopping
<1>3. QED
  BY <1>1, <1>2

\* Loading a store gives the session that store.
LEMMA LoadGivesStore ==
    ASSUME NEW store, store \in StoreType, Load(store)
    PROVE  Store' = store
BY DEF StoreType, Load, Store

\* What leaving a node does to the graph and to its persisted position.
LEMMA LeavingNode ==
    ASSUME graph \in GraphType, saved \in Position, graph.next \in Nodes,
           NEW stop, stop \in StopReasons, Leave(stop)
    PROVE  /\ graph' \in GraphType
           /\ graph'.next = After(graph.next, stop, graph.mode) /\ graph'.stop = stop
           /\ graph'.mode = graph.mode /\ graph'.force = graph.force
           /\ saved' \in Position
           /\ saved' = saved \/ saved' = [next |-> graph'.next, stop |-> stop]
           /\ ~graph'.missed => ~graph.missed /\ saved' = [next |-> graph'.next, stop |-> stop]
           /\ graph'.missed => graph.missed \/ "checkpoint" \in Faults
           /\ UNCHANGED <<imported, db, session, stage, cache, call>>
<1> DEFINE next == After(graph.next, stop, graph.mode)
<1>1. next \in Nodes \cup {"END"}
  BY AfterStaysInGraph
<1>2. [next |-> next, stop |-> stop] \in Position
  BY <1>1 DEF Position
<1>3. /\ [graph EXCEPT !.next = next, !.stop = stop] \in GraphType
      /\ [graph EXCEPT !.next = next, !.stop = stop, !.missed = TRUE] \in GraphType
  BY <1>1 DEF GraphType
<1>4. \/ /\ saved' = [next |-> next, stop |-> stop]
         /\ graph' = [graph EXCEPT !.next = next, !.stop = stop]
      \/ /\ "checkpoint" \in Faults /\ saved' = saved
         /\ graph' = [graph EXCEPT !.next = next, !.stop = stop, !.missed = TRUE]
  BY DEF Leave
<1>5. graph'.next = next /\ graph'.stop = stop /\ graph'.mode = graph.mode /\ graph'.force = graph.force
  BY <1>4 DEF GraphType
<1>6. /\ ~graph'.missed => ~graph.missed /\ saved' = [next |-> next, stop |-> stop]
      /\ graph'.missed => graph.missed \/ "checkpoint" \in Faults
  BY <1>4 DEF GraphType
<1>7. QED
  BY <1>2, <1>3, <1>4, <1>5, <1>6 DEF Leave

\* A call's shape tells its kind.
LEMMA CallKinds ==
    ASSUME CallShape
    PROVE  /\ call # NoCall <=> call.kind \in {"start", "decide"}
           /\ call = NoCall => call.kind = "none"
           /\ call.kind = "decide" => call.decision \in {"APPROVED", "REJECTED"}
                                      /\ call.id \in ReqIds
BY DEF CallShape, NoCall

-----------------------------------------------------------------------------
\* A node of a running call keeps the invariant if it leaves with a fitting
\* stop reason and with a session that is whole, or, while the incident is not
\* opened, as far as the database.
LEMMA NodeKeeps ==
    ASSUME RunInv, call # NoCall, graph.next \in Nodes,
           NEW stop, stop \in StopReasons, Leave(stop),
           Store' \in StoreType,
           Fits(graph'.next, stop),
           stop = "CLOSED" => status' = "CLOSED",
           call.kind = "decide" =>
               /\ Whole(Store)' /\ status' # "NONE"
               /\ graph'.next \in Deciding /\ stop # "MODEL_UNAVAILABLE"
               /\ status = "CLOSED" => status' = "CLOSED",
           call.kind = "start" =>
               /\ graph'.next # "ingest_event"
               /\ graph'.next \in Opening => AsCommitted' /\ mock' = S!InitialMock
               /\ graph'.next \notin Opening =>
                      Whole(Store)' /\ status' # "NONE" /\ db = EmptyStore
    PROVE  RunInv'
<1>1. graph \in GraphType /\ saved \in Position
  BY DEF RunInv, TypeOK, CallInv
<1>2. /\ graph' \in GraphType /\ graph'.stop = stop
      /\ saved' \in Position
      /\ saved' = saved \/ saved' = [next |-> graph'.next, stop |-> stop]
      /\ ~graph'.missed => ~graph.missed /\ saved' = [next |-> graph'.next, stop |-> stop]
      /\ UNCHANGED <<imported, db, session, stage, cache, call>>
  BY <1>1, LeavingNode
<1>3. TypeOK'
  BY <1>2 DEF RunInv, TypeOK
<1>4. CallShape' /\ CommittedInv'
  BY <1>2 DEF RunInv, CallShape, CommittedInv
<1>5. RestInv'
  BY <1>2 DEF RestInv
<1>6. CallInv'
  BY <1>2 DEF RunInv, CallInv
<1>7. StartInv'
  BY <1>2 DEF RunInv, StartInv, Opening
<1>8. DecideInv'
  <2> SUFFICES ASSUME call.kind = "decide"
               PROVE  DecideInv'
    BY <1>2 DEF DecideInv
  <2>1. Resumable(graph.next, graph.stop) /\ Resumable(saved.next, saved.stop)
    BY DEF RunInv, DecideInv
  <2>2. Resumable(graph.next, graph.stop)'
    BY <1>2 DEF Resumable
  <2>3. Resumable(saved.next, saved.stop)'
    BY <1>2, <2>1, <2>2 DEF Resumable
  <2>4. QED
    BY <1>2, <2>2, <2>3 DEF RunInv, DecideInv
<1>9. MemoryInv'
  BY <1>2 DEF RunInv, MemoryInv, CacheTruthful, ClosedJustified, Endorsed
<1>10. QED
  BY <1>3, <1>4, <1>5, <1>6, <1>7, <1>8, <1>9 DEF RunInv

\* What the session sees, piece by piece.
LEMMA ViewOfType ==
    ASSUME TypeOK
    PROVE  /\ status \in S!Statuses /\ facts \in SUBSET S!FactTypes
           /\ mock \in S!MockState \cup {None}
           /\ request \in [{TheRequest} -> {"plan", None}]
           /\ policy \in [{TheRequest} -> S!Outcomes]
           /\ approvals \in [{TheRequest} -> Seq(S!Approval)]
           /\ preauth \in [{TheRequest} -> S!Preauthorization \cup {None}]
           /\ execution \in [{TheRequest} -> {"plan", None}]
           /\ verdicts \in SUBSET S!Verdict
           /\ report \in {"NONE", "VALID", "INVALID"}
           /\ chainIntact \in BOOLEAN /\ imported \in SUBSET Captures
           /\ graph \in GraphType /\ call \in CallType
           /\ stage \in Stages /\ cache \in [ReqIds -> Stages \cup {None}]
BY DEF TypeOK, StoreType, Store

\* The nodes that a decision runs come after the opening of the incident.
LEMMA WhoRuns ==
    ASSUME RunInv, call # NoCall
    PROVE  /\ graph.next \notin Deciding => call.kind = "start" /\ stage = "IDLE"
           /\ graph.next \notin Opening => Whole(Store) /\ status # "NONE"
           /\ graph.next \notin Opening /\ call.kind = "start" => db = EmptyStore
           /\ graph.next \in Opening => call.kind = "start" /\ AsCommitted
           /\ graph.next \in Deciding \ {"END"} => graph.next \in Nodes
           /\ graph.next \notin {"manual_or_stop", "replan_or_manual", "END"} => graph.stop = "NONE"
<1>1. call.kind \in {"start", "decide"}
  BY CallKinds DEF RunInv
<1>2. QED
  BY <1>1 DEF RunInv, StartInv, DecideInv, CallInv, Resumable, Fits, Deciding, Opening, Nodes

\* LeavingNode, from the invariant.
LEMMA LeavingRun ==
    ASSUME RunInv, call # NoCall, graph.next \in Nodes,
           NEW stop, stop \in StopReasons, Leave(stop)
    PROVE  /\ graph'.next = After(graph.next, stop, graph.mode) /\ graph'.stop = stop
           /\ graph'.mode = graph.mode /\ graph'.force = graph.force
           /\ UNCHANGED <<imported, db, session, stage, cache, call>>
<1>1. graph \in GraphType /\ saved \in Position
  BY DEF RunInv, TypeOK, CallInv
<1>2. QED
  BY <1>1, LeavingNode

\* Ingestion sets the environment up, and nothing else.
LEMMA IngestEventKeeps ==
    ASSUME RunInv, IngestEvent
    PROVE  RunInv'
<1>1. /\ call # NoCall /\ graph.next = "ingest_event" /\ Leave("NONE")
      /\ graph.next \in Nodes /\ "NONE" \in StopReasons
  BY DEF IngestEvent, At, Nodes, StopReasons
<1>2. graph'.next = After(graph.next, "NONE", graph.mode) /\ db' = db /\ imported' = imported
  BY <1>1, LeavingRun
<1>3. graph'.next = "detect_signal"
  BY <1>1, <1>2, AfterEachNode
<1>4. call.kind = "start" /\ AsCommitted
  BY <1>1, WhoRuns DEF Opening
<1>5. AsCommitted' /\ mock' = S!InitialMock
  BY <1>2, <1>4 DEF IngestEvent, S!Ingest, AsCommitted
<1>6. Store' \in StoreType
  BY <1>2, ViewOfType, NoneIsNoRow DEF RunInv, IngestEvent, S!Ingest, Store, StoreType
<1>7. Fits("detect_signal", "NONE")
  BY DEF Fits
<1>8. QED
  BY <1>1, <1>2, <1>3, <1>4, <1>5, <1>6, <1>7, NodeKeeps DEF Opening

\* An incident is opened over an empty store only.
LEMMA CreateIncidentKeeps ==
    ASSUME RunInv, CreateIncident
    PROVE  RunInv'
<1>1. /\ call # NoCall /\ graph.next = "create_incident" /\ Leave("NONE")
      /\ graph.next \in Nodes /\ "NONE" \in StopReasons
  BY DEF CreateIncident, At, Nodes, StopReasons
<1>2. graph'.next = After(graph.next, "NONE", graph.mode) /\ db' = db /\ imported' = imported
  BY <1>1, LeavingRun
<1>3. graph'.next = "plan_investigation"
  BY <1>1, <1>2, AfterEachNode
<1>4. call.kind = "start" /\ AsCommitted /\ mock = S!InitialMock
  BY <1>1, WhoRuns DEF Opening, RunInv, StartInv
<1>5. /\ status = "NONE" /\ status' = "DETECTED"
      /\ UNCHANGED <<facts, mock, request, policy, approvals, preauth, execution,
                     verdicts, report, chainIntact>>
  BY DEF CreateIncident, S!OpenIncident, S!CanOpen
<1>6. db = EmptyStore
  BY <1>4, <1>5 DEF AsCommitted, RunInv, CommittedInv
<1>7. execution[TheRequest] = None
  BY <1>4, <1>6 DEF AsCommitted, EmptyStore
<1>8. Whole(Store)'
  BY <1>4, <1>5, <1>7, NoneIsNoRow DEF Whole, Store, Endorsed
<1>9. Store' \in StoreType
  BY <1>2, <1>5, ViewOfType DEF RunInv, Store, StoreType, S!Statuses
<1>10. Fits("plan_investigation", "NONE")
  BY DEF Fits
<1>11. QED
  BY <1>1, <1>2, <1>3, <1>4, <1>5, <1>6, <1>8, <1>9, <1>10, NodeKeeps DEF Opening

\* A session that is whole stays whole while nothing that matters to it changes.
LEMMA WholeStays ==
    ASSUME Whole(Store), UNCHANGED <<mock, approvals, preauth, execution, verdicts>>,
           \/ status' = status
           \/ status \in {"DETECTED", "INVESTIGATING"}
              /\ status' \in {"INVESTIGATING", "ATTRIBUTED"}
    PROVE  Whole(Store)'
BY DEF Whole, Store, Endorsed

\* The nodes that write nothing modelled here only move the graph on.
LEMMA BookkeepingKeeps ==
    ASSUME RunInv, Bookkeeping
    PROVE  RunInv'
<1> DEFINE stop == graph.stop
<1>1. /\ call # NoCall /\ graph.next \in Nodes /\ Leave(stop)
      /\ graph.next \in {"detect_signal", "run_investigation", "run_trace",
                         "build_action_plan", "manual_or_stop", "replan_or_manual"}
      /\ UNCHANGED view
  BY DEF Bookkeeping, At, Nodes
<1>2. stop \in StopReasons
  BY DEF RunInv, TypeOK, GraphType
<1> HIDE DEF stop
<1>3. /\ graph'.next = After(graph.next, stop, graph.mode)
      /\ UNCHANGED <<imported, db, session, stage, cache, call>>
  BY <1>1, <1>2, LeavingRun
<1>4. UNCHANGED <<status, facts, mock, request, policy, approvals, preauth, execution,
                  verdicts, report, chainIntact>>
  BY <1>1 DEF view
<1>5. Store' = Store /\ Store' \in StoreType
  BY <1>3, <1>4 DEF RunInv, TypeOK, Store
<1>6. /\ stop = "CLOSED" => status' = "CLOSED"
      /\ call.kind = "decide" => stop # "MODEL_UNAVAILABLE" /\ graph.next \in Deciding
      /\ Fits(graph.next, stop)
  BY <1>1, <1>4 DEF RunInv, CallInv, DecideInv, Resumable, stop
<1>7. CASE graph.next = "detect_signal"
  <2>1. graph'.next = "create_incident" /\ stop = "NONE"
    BY <1>3, <1>6, <1>7, AfterEachNode DEF Fits
  <2>2. call.kind = "start" /\ AsCommitted /\ mock = S!InitialMock
    BY <1>1, <1>7, WhoRuns DEF Opening, RunInv, StartInv
  <2>3. AsCommitted' /\ mock' = S!InitialMock
    BY <1>3, <1>4, <2>2 DEF AsCommitted
  <2>4. Fits(graph'.next, stop)
    BY <2>1 DEF Fits
  <2>5. QED
    BY <1>1, <1>2, <1>5, <1>6, <2>1, <2>2, <2>3, <2>4, NodeKeeps DEF Opening
<1>8. CASE graph.next # "detect_signal"
  <2>1. /\ graph'.next \in {"run_trace", "evaluate_facts", "build_action_request", "END"}
        /\ graph'.next = "END" <=> graph.next \in {"manual_or_stop", "replan_or_manual"}
    <3>1. graph.next = "run_investigation" => stop = "NONE"
      BY <1>6 DEF Fits
    <3>2. CASE graph.next = "run_investigation"
      BY <1>3, <3>1, <3>2, AfterEachNode
    <3>3. CASE graph.next \in {"run_trace", "build_action_plan"}
      BY <1>3, <3>3, AfterEachNode
    <3>4. CASE graph.next \in {"manual_or_stop", "replan_or_manual"}
      BY <1>3, <3>4, AfterEachNode
    <3>5. QED
      BY <1>1, <1>8, <3>2, <3>3, <3>4
  <2>2. Fits(graph'.next, stop)
    BY <1>6, <2>1, <1>1 DEF Fits
  <2>3. Whole(Store)' /\ status' # "NONE"
    BY <1>1, <1>4, <1>8, WhoRuns, WholeStays DEF Opening
  <2>4. call.kind = "start" => db = EmptyStore
    BY <1>1, <1>8, WhoRuns DEF Opening
  <2>5. call.kind = "decide" => graph'.next \in Deciding /\ (status = "CLOSED" => status' = "CLOSED")
    BY <1>4, <1>6, <1>1, <2>1 DEF Deciding
  <2>6. graph'.next \notin Opening
    BY <2>1 DEF Opening
  <2>7. QED
    BY <1>1, <1>2, <1>5, <1>6, <2>2, <2>3, <2>4, <2>5, <2>6, NodeKeeps DEF Opening
<1>9. QED
  BY <1>7, <1>8

\* The nodes between the opening of the incident and the policy decision are
\* run by a start only.
LEMMA StartedNodeKeeps ==
    ASSUME RunInv, call # NoCall, graph.next \in Nodes \ (Opening \cup Deciding),
           NEW stop, stop \in StopReasons \ {"CLOSED"}, Leave(stop),
           Store' \in StoreType, Whole(Store)', status' # "NONE",
           graph'.next \notin Opening, Fits(graph'.next, stop)
    PROVE  RunInv'
<1>1. call.kind = "start" /\ db = EmptyStore
  BY WhoRuns
<1>2. QED
  BY <1>1, NodeKeeps DEF Opening

\* The nodes that a decision may run go on to such nodes.
LEMMA DecidedNodeKeeps ==
    ASSUME RunInv, call # NoCall, graph.next \in Deciding \ {"END"},
           NEW stop, stop \in StopReasons \ {"MODEL_UNAVAILABLE"}, Leave(stop),
           Store' \in StoreType, Whole(Store)', status' # "NONE",
           status = "CLOSED" => status' = "CLOSED",
           stop = "CLOSED" => status' = "CLOSED",
           graph'.next \in Deciding, Fits(graph'.next, stop)
    PROVE  RunInv'
<1>1. graph.next \in Nodes /\ graph.next \notin Opening /\ graph'.next \notin Opening
      /\ graph'.next # "ingest_event"
  BY DEF Deciding, Opening, Nodes
<1>2. call.kind = "start" => db = EmptyStore
  BY <1>1, WhoRuns
<1>3. QED
  BY <1>1, <1>2, NodeKeeps

-----------------------------------------------------------------------------
\* An investigation is planned, or the model is unavailable and nothing is written.
LEMMA PlanInvestigationKeeps ==
    ASSUME RunInv, PlanInvestigation
    PROVE  RunInv'
<1>1. /\ call # NoCall /\ graph.next = "plan_investigation"
      /\ graph.next \in Nodes /\ graph.next \in Nodes \ (Opening \cup Deciding)
  BY DEF PlanInvestigation, At, Nodes, Opening, Deciding
<1>2. Whole(Store)
  BY <1>1, WhoRuns
<1>3. CASE graph.modelOk /\ S!PlanInvestigation /\ Leave("NONE")
  <2>1. graph'.next = After(graph.next, "NONE", graph.mode) /\ imported' = imported
    BY <1>1, <1>3, LeavingRun DEF StopReasons
  <2>2. graph'.next = "run_investigation"
    BY <1>1, <2>1, AfterEachNode
  <2>3. /\ status = "DETECTED" /\ status' = "INVESTIGATING"
        /\ UNCHANGED <<facts, mock, request, policy, approvals, preauth, execution,
                       verdicts, report, chainIntact>>
    BY <1>3 DEF S!PlanInvestigation, S!CanPlan
  <2>4. Whole(Store)'
    BY <1>2, <2>3, WholeStays
  <2>5. Store' \in StoreType
    BY <2>1, <2>3, ViewOfType DEF RunInv, Store, StoreType, S!Statuses
  <2>6. QED
    BY <1>1, <1>3, <2>2, <2>3, <2>4, <2>5, StartedNodeKeeps
       DEF StopReasons, Opening, Fits
<1>4. CASE ~graph.modelOk /\ UNCHANGED view /\ Leave("MODEL_UNAVAILABLE")
  <2>1. graph'.next = After(graph.next, "MODEL_UNAVAILABLE", graph.mode) /\ imported' = imported
    BY <1>1, <1>4, LeavingRun DEF StopReasons
  <2>2. graph'.next = "manual_or_stop"
    BY <1>1, <2>1, AfterStopping DEF Stopping
  <2>3. UNCHANGED <<status, facts, mock, request, policy, approvals, preauth, execution,
                    verdicts, report, chainIntact>>
    BY <1>4 DEF view
  <2>4. Whole(Store)' /\ status' # "NONE"
    BY <1>1, <1>2, <2>3, WholeStays, WhoRuns
  <2>5. Store' \in StoreType
    BY <2>1, <2>3 DEF RunInv, TypeOK, Store
  <2>6. QED
    BY <1>1, <1>4, <2>2, <2>4, <2>5, StartedNodeKeeps DEF StopReasons, Opening, Fits
<1>5. QED
  BY <1>3, <1>4 DEF PlanInvestigation

\* Attribution finds no execution and makes none.
LEMMA EvaluateFactsKeeps ==
    ASSUME RunInv, EvaluateFacts
    PROVE  RunInv'
<1>1. /\ call # NoCall /\ graph.next = "evaluate_facts" /\ Leave("NONE")
      /\ graph.next \in Nodes /\ graph.next \in Nodes \ (Opening \cup Deciding)
  BY DEF EvaluateFacts, At, Nodes, Opening, Deciding
<1>2. Whole(Store)
  BY <1>1, WhoRuns
<1>3. graph'.next = After(graph.next, "NONE", graph.mode) /\ imported' = imported
  BY <1>1, LeavingRun DEF StopReasons
<1>4. graph'.next = "build_action_plan"
  BY <1>1, <1>3, AfterEachNode
<1>5. /\ status = "INVESTIGATING" /\ status' = "ATTRIBUTED" /\ facts' = S!FactTypes
      /\ UNCHANGED <<mock, request, policy, approvals, preauth, execution,
                     verdicts, report, chainIntact>>
  BY DEF EvaluateFacts, S!EvaluateFacts, S!CanAttribute
<1>6. Whole(Store)'
  BY <1>2, <1>5, WholeStays
<1>7. Store' \in StoreType
  BY <1>3, <1>5, ViewOfType DEF RunInv, Store, StoreType, S!Statuses
<1>8. QED
  BY <1>1, <1>4, <1>5, <1>6, <1>7, StartedNodeKeeps DEF StopReasons, Opening, Fits

\* Storing the request leaves the environment as it is.
LEMMA BuildActionRequestKeeps ==
    ASSUME RunInv, BuildActionRequest
    PROVE  RunInv'
<1>1. /\ call # NoCall /\ graph.next = "build_action_request" /\ Leave("NONE")
      /\ graph.next \in Nodes /\ graph.next \in Nodes \ (Opening \cup Deciding)
  BY DEF BuildActionRequest, At, Nodes, Opening, Deciding
<1>2. Whole(Store) /\ status # "NONE"
  BY <1>1, WhoRuns DEF Opening
<1>3. graph'.next = After(graph.next, "NONE", graph.mode) /\ imported' = imported
  BY <1>1, LeavingRun DEF StopReasons
<1>4. graph'.next = "policy_check"
  BY <1>1, <1>3, AfterEachNode
<1>5. /\ request' = [request EXCEPT ![TheRequest] = "plan"]
      /\ UNCHANGED <<status, facts, mock, policy, approvals, preauth, execution,
                     verdicts, report, chainIntact>>
  BY DEF BuildActionRequest, S!CreateRequest
<1>6. Whole(Store)'
  BY <1>2, <1>5, WholeStays
<1>7. Store' \in StoreType
  BY <1>3, <1>5, ViewOfType DEF RunInv, Store, StoreType
<1>8. QED
  BY <1>1, <1>2, <1>4, <1>5, <1>6, <1>7, StartedNodeKeeps DEF StopReasons, Opening, Fits

\* The policy's outcome decides whether the graph stops.
LEMMA PolicyCheckKeeps ==
    ASSUME RunInv, PolicyCheck
    PROVE  RunInv'
<1> DEFINE stop == IF policy'[TheRequest] = "DENY" THEN "POLICY_DENIED" ELSE "NONE"
<1>1. /\ call # NoCall /\ graph.next = "policy_check" /\ Leave(stop)
      /\ graph.next \in Nodes /\ graph.next \in Nodes \ (Opening \cup Deciding)
  BY DEF PolicyCheck, At, Nodes, Opening, Deciding
<1>2. Whole(Store) /\ status # "NONE"
  BY <1>1, WhoRuns DEF Opening
<1>3. stop \in {"NONE", "POLICY_DENIED"} /\ stop \in StopReasons \ {"CLOSED"}
  BY DEF StopReasons
<1> HIDE DEF stop
<1>4. graph'.next = After(graph.next, stop, graph.mode) /\ imported' = imported
  BY <1>1, <1>3, LeavingRun
<1>5. \/ /\ graph'.next \in {"wait_for_approval", "autonomous_preauthorization"}
         /\ stop = "NONE"
      \/ graph'.next = "manual_or_stop" /\ stop = "POLICY_DENIED"
  <2>1. CASE stop = "NONE"
    BY <1>1, <1>4, <2>1, AfterEachNode
  <2>2. CASE stop = "POLICY_DENIED"
    BY <1>1, <1>4, <2>2, AfterStopping DEF Stopping
  <2>3. QED
    BY <1>3, <2>1, <2>2
<1>6. /\ policy' \in [{TheRequest} -> S!Outcomes]
      /\ UNCHANGED <<status, facts, mock, request, approvals, preauth, execution,
                     verdicts, report, chainIntact>>
  BY ViewOfType DEF PolicyCheck, S!EvaluatePolicy, RunInv, S!Outcomes
<1>7. Whole(Store)'
  BY <1>2, <1>6, WholeStays
<1>8. Store' \in StoreType
  BY <1>4, <1>6, ViewOfType DEF RunInv, Store, StoreType
<1>9. QED
  BY <1>1, <1>2, <1>3, <1>5, <1>6, <1>7, <1>8, StartedNodeKeeps DEF Opening, Fits

\* A pre-authorization is an authority if it is not a denial.
LEMMA AutonomousPreauthorizationKeeps ==
    ASSUME RunInv, AutonomousPreauthorization
    PROVE  RunInv'
<1> DEFINE stop == IF preauth'[TheRequest].decision = "DENY"
                   THEN "AUTONOMOUS_PREAUTHORIZATION_DENIED" ELSE "NONE"
<1>1. /\ call # NoCall /\ graph.next = "autonomous_preauthorization" /\ Leave(stop)
      /\ graph.next \in Nodes /\ graph.next \in Nodes \ (Opening \cup Deciding)
  BY DEF AutonomousPreauthorization, At, Nodes, Opening, Deciding
<1>2. Whole(Store) /\ status # "NONE"
  BY <1>1, WhoRuns DEF Opening
<1>3. /\ stop \in {"NONE", "AUTONOMOUS_PREAUTHORIZATION_DENIED"}
      /\ stop \in StopReasons \ {"CLOSED"}
  BY DEF StopReasons
<1> HIDE DEF stop
<1>4. graph'.next = After(graph.next, stop, graph.mode) /\ imported' = imported
  BY <1>1, <1>3, LeavingRun
<1>5. \/ graph'.next = "execute_action" /\ stop = "NONE"
      \/ graph'.next = "manual_or_stop" /\ stop = "AUTONOMOUS_PREAUTHORIZATION_DENIED"
  <2>1. CASE stop = "NONE"
    BY <1>1, <1>4, <2>1, AfterEachNode
  <2>2. CASE stop = "AUTONOMOUS_PREAUTHORIZATION_DENIED"
    BY <1>1, <1>4, <2>2, AfterStopping DEF Stopping
  <2>3. QED
    BY <1>3, <2>1, <2>2
<1>6. PICK p \in S!Preauthorization :
          /\ preauth[TheRequest] = None
          /\ preauth' = [preauth EXCEPT ![TheRequest] = p]
          /\ UNCHANGED <<status, facts, mock, request, policy, approvals, execution,
                         verdicts, report, chainIntact>>
  <2> DEFINE p(d) == [decision |-> d, content |-> request[TheRequest]]
  <2>1. preauth[TheRequest] = None /\ request[TheRequest] # None
    BY DEF AutonomousPreauthorization, S!Preauthorize
  <2>2. request[TheRequest] = "plan"
    BY <2>1, ViewOfType DEF RunInv
  <2>3. p("AUTO_PREAUTHORIZED") \in S!Preauthorization /\ p("DENY") \in S!Preauthorization
    BY <2>2 DEF S!Preauthorization
  <2>4. /\ \/ preauth' = [preauth EXCEPT ![TheRequest] = p("AUTO_PREAUTHORIZED")]
           \/ preauth' = [preauth EXCEPT ![TheRequest] = p("DENY")]
        /\ UNCHANGED <<status, facts, mock, request, policy, approvals, execution,
                       verdicts, report, chainIntact>>
    <3>1. CASE S!Preauthorizable(TheRequest, graph.mode)
      BY <3>1 DEF AutonomousPreauthorization, S!Preauthorize
    <3>2. CASE ~S!Preauthorizable(TheRequest, graph.mode)
      BY <3>2 DEF AutonomousPreauthorization, S!Preauthorize
    <3>3. QED
      BY <3>1, <3>2
  <2>5. QED
    BY <2>1, <2>3, <2>4
<1>7. Whole(Store)'
  BY <1>2, <1>6 DEF Whole, Store, Endorsed
<1>8. Store' \in StoreType
  BY <1>4, <1>6, ViewOfType DEF RunInv, Store, StoreType
<1>9. QED
  BY <1>1, <1>2, <1>3, <1>5, <1>6, <1>7, <1>8, StartedNodeKeeps DEF Opening, Fits

-----------------------------------------------------------------------------
\* A decision adds a record and takes no earlier authority away.
LEMMA WaitForApprovalKeeps ==
    ASSUME RunInv, WaitForApproval
    PROVE  RunInv'
<1> DEFINE stop == IF call.decision = "REJECTED" THEN "HUMAN_REJECTED" ELSE "NONE"
           record == [decision |-> call.decision, content |-> request[TheRequest]]
<1>1. /\ call # NoCall /\ graph.next = "wait_for_approval" /\ Leave(stop)
      /\ graph.next \in Nodes /\ graph.next \in Deciding \ {"END"}
      /\ call.kind = "decide"
  BY DEF WaitForApproval, At, Nodes, Deciding
<1>2. Whole(Store) /\ status # "NONE"
  BY <1>1, WhoRuns DEF Opening
<1>3. /\ stop \in {"NONE", "HUMAN_REJECTED"}
      /\ stop \in StopReasons \ {"MODEL_UNAVAILABLE"}
  BY DEF StopReasons
<1> HIDE DEF stop
<1>4. graph'.next = After(graph.next, stop, graph.mode) /\ imported' = imported
  BY <1>1, <1>3, LeavingRun
<1>5. \/ graph'.next = "execute_action" /\ stop = "NONE"
      \/ graph'.next = "manual_or_stop" /\ stop = "HUMAN_REJECTED"
  <2>1. CASE stop = "NONE"
    BY <1>1, <1>4, <2>1, AfterEachNode
  <2>2. CASE stop = "HUMAN_REJECTED"
    BY <1>1, <1>4, <2>2, AfterStopping DEF Stopping
  <2>3. QED
    BY <1>3, <2>1, <2>2
<1>6. /\ request[TheRequest] # None
      /\ approvals' = [approvals EXCEPT ![TheRequest] = Append(@, record)]
      /\ UNCHANGED <<status, facts, mock, request, policy, preauth, execution,
                     verdicts, report, chainIntact>>
  BY DEF WaitForApproval, S!DecideApproval
<1>7. record \in S!Approval
  <2>1. request[TheRequest] = "plan"
    BY <1>6, ViewOfType DEF RunInv
  <2>2. call.decision \in {"APPROVED", "REJECTED"}
    BY <1>1, CallKinds DEF RunInv
  <2>3. QED
    BY <2>1, <2>2 DEF S!Approval
<1>8. approvals[TheRequest] \in Seq(S!Approval)
  BY ViewOfType DEF RunInv
<1> DEFINE longer == Append(approvals[TheRequest], record)
<1>9. /\ longer \in Seq(S!Approval)
      /\ \A i \in DOMAIN approvals[TheRequest] :
             i \in DOMAIN longer /\ longer[i] = approvals[TheRequest][i]
  BY <1>7, <1>8, AppendProperties, LenProperties
<1>10. approvals' \in [{TheRequest} -> Seq(S!Approval)] /\ approvals'[TheRequest] = longer
  BY <1>6, <1>9, ViewOfType DEF RunInv
<1> HIDE DEF longer
<1>11. Endorsed(Store) => Endorsed(Store)'
  BY <1>6, <1>9, <1>10 DEF Endorsed, Store
<1>12. Whole(Store)'
  BY <1>2, <1>6, <1>11 DEF Whole, Store
<1>13. Store' \in StoreType
  BY <1>4, <1>6, <1>10, ViewOfType DEF RunInv, Store, StoreType
<1>14. QED
  BY <1>1, <1>2, <1>3, <1>5, <1>6, <1>12, <1>13, DecidedNodeKeeps DEF Deciding, Fits

\* An execution has its authority, contains the environment, and happens once,
\* also when the node runs again.
LEMMA ExecuteActionKeeps ==
    ASSUME RunInv, ExecuteAction
    PROVE  RunInv'
<1>1. /\ call # NoCall /\ graph.next = "execute_action" /\ Leave("NONE")
      /\ graph.next \in Nodes /\ graph.next \in Deciding \ {"END"}
  BY DEF ExecuteAction, At, Nodes, Deciding
<1>2. Whole(Store) /\ status # "NONE"
  BY <1>1, WhoRuns DEF Opening
<1>3. graph'.next = After(graph.next, "NONE", graph.mode) /\ imported' = imported
  BY <1>1, LeavingRun DEF StopReasons
<1>4. graph'.next = "verify_result"
  BY <1>1, <1>3, AfterEachNode
<1>5. CASE S!Execute(TheRequest, graph.mode)
  <2>1. /\ request[TheRequest] # None /\ S!Authorised(TheRequest, graph.mode)
        /\ mock' = S!RotatedMock
        /\ status = "ATTRIBUTED" /\ status' = "ROTATED"
        /\ execution' = [execution EXCEPT ![TheRequest] = request[TheRequest]]
        /\ UNCHANGED <<facts, request, policy, approvals, preauth, verdicts, report,
                       chainIntact>>
    BY <1>5 DEF S!Execute, S!CanExecute
  <2>2. request[TheRequest] = "plan"
    BY <2>1, ViewOfType DEF RunInv
  <2>3. Endorsed(Store)
    <3>1. CASE graph.mode = "PRODUCTION_GUARDED"
      <4>1. /\ approvals[TheRequest] # <<>>
            /\ S!LatestApproval(TheRequest).decision = "APPROVED"
        BY <2>1, <3>1 DEF S!Authorised
      <4>2. approvals[TheRequest] \in Seq(S!Approval)
        BY ViewOfType DEF RunInv
      <4>3. Len(approvals[TheRequest]) \in DOMAIN approvals[TheRequest]
        BY <4>1, <4>2, LenProperties, EmptySeq
      <4>4. QED
        BY <4>1, <4>3 DEF Endorsed, Store, S!LatestApproval
    <3>2. CASE graph.mode # "PRODUCTION_GUARDED"
      <4>1. preauth[TheRequest] = [decision |-> "AUTO_PREAUTHORIZED",
                                   content |-> request[TheRequest]]
        BY <2>1, <3>2 DEF S!Authorised
      <4>2. preauth[TheRequest] \in S!Preauthorization
        BY <2>2, <4>1 DEF S!Preauthorization
      <4>3. QED
        BY <4>1, <4>2, NoneIsNoRow DEF Endorsed, Store
    <3>3. QED
      BY <3>1, <3>2
  <2>4. Endorsed(Store)'
    BY <2>1, <2>3 DEF Endorsed, Store
  <2>5. execution'[TheRequest] = "plan" /\ execution' \in [{TheRequest} -> {"plan", None}]
    BY <2>1, <2>2, ViewOfType DEF RunInv
  <2>6. Whole(Store)'
    BY <2>1, <2>4, <2>5, NoneIsNoRow DEF Whole, Store
  <2>7. Store' \in StoreType
    BY <1>3, <2>1, <2>5, ViewOfType, NoneIsNoRow DEF RunInv, Store, StoreType, S!Statuses
  <2>8. QED
    BY <1>1, <1>4, <2>1, <2>6, <2>7, DecidedNodeKeeps DEF StopReasons, Deciding, Fits
<1>6. CASE execution[TheRequest] # None /\ UNCHANGED view
  <2>1. UNCHANGED <<status, facts, mock, request, policy, approvals, preauth, execution,
                    verdicts, report, chainIntact>>
    BY <1>6 DEF view
  <2>2. Whole(Store)' /\ status' # "NONE"
    BY <1>2, <2>1, WholeStays
  <2>3. Store' \in StoreType
    BY <1>3, <2>1 DEF RunInv, TypeOK, Store
  <2>4. QED
    BY <1>1, <1>4, <2>1, <2>2, <2>3, DecidedNodeKeeps DEF StopReasons, Deciding, Fits
<1>7. QED
  BY <1>5, <1>6 DEF ExecuteAction

\* A passed verification is stored with the status that says so.
LEMMA VerifyResultKeeps ==
    ASSUME RunInv, VerifyResult
    PROVE  RunInv'
<1> DEFINE passed == S!Recovered /\ ~graph.force
           verdict == [request |-> TheRequest, passed |-> passed]
           stop == IF passed THEN "NONE" ELSE "VERIFICATION_FAILED_REPLAN"
<1>1. /\ call # NoCall /\ graph.next = "verify_result" /\ Leave(stop)
      /\ graph.next \in Nodes /\ graph.next \in Deciding \ {"END"}
  BY DEF VerifyResult, At, Nodes, Deciding
<1>2. Whole(Store) /\ status # "NONE"
  BY <1>1, WhoRuns DEF Opening
<1>3. /\ stop \in {"NONE", "VERIFICATION_FAILED_REPLAN"}
      /\ stop \in StopReasons \ {"MODEL_UNAVAILABLE"}
  BY DEF StopReasons
<1>4. passed \in BOOLEAN
  BY DEF S!Recovered
<1>5. /\ execution[TheRequest] # None
      /\ verdicts' = verdicts \cup {verdict}
      /\ status' = IF passed /\ status = "ROTATED" THEN "VERIFIED" ELSE status
      /\ UNCHANGED <<facts, mock, request, policy, approvals, preauth, execution,
                     report, chainIntact>>
  BY DEF VerifyResult, S!Verify
<1>6. passed => verdict = Passed
  BY <1>4 DEF Passed
<1>7. verdict \in S!Verdict
  BY <1>4 DEF S!Verdict
<1> HIDE DEF stop, verdict, passed
<1>8. graph'.next = After(graph.next, stop, graph.mode) /\ imported' = imported
  BY <1>1, <1>3, LeavingRun
<1>9. \/ graph'.next = "generate_audit" /\ stop = "NONE"
      \/ graph'.next = "replan_or_manual" /\ stop = "VERIFICATION_FAILED_REPLAN"
  <2>1. CASE stop = "NONE"
    BY <1>1, <1>8, <2>1, AfterEachNode
  <2>2. CASE stop = "VERIFICATION_FAILED_REPLAN"
    BY <1>1, <1>8, <2>2, AfterStopping
  <2>3. QED
    BY <1>3, <2>1, <2>2
<1>10. Whole(Store)'
  <2>1. Endorsed(Store)' <=> Endorsed(Store)
    BY <1>5 DEF Endorsed, Store
  <2>2. CASE passed /\ status = "ROTATED"
    BY <1>2, <1>5, <1>6, <2>1, <2>2 DEF Whole, Store
  <2>3. CASE ~(passed /\ status = "ROTATED")
    BY <1>2, <1>5, <2>1, <2>3 DEF Whole, Store
  <2>4. QED
    BY <2>2, <2>3
<1>11. status' \in S!Statuses /\ status' # "NONE" /\ (status = "CLOSED" => status' = "CLOSED")
  BY <1>2, <1>5, ViewOfType DEF RunInv, S!Statuses
<1>12. verdicts' \in SUBSET S!Verdict
  BY <1>5, <1>7, ViewOfType DEF RunInv
<1>13. Store' \in StoreType
  BY <1>5, <1>8, <1>11, <1>12, ViewOfType DEF RunInv, Store, StoreType
<1>14. QED
  BY <1>1, <1>3, <1>9, <1>10, <1>11, <1>13, DecidedNodeKeeps DEF Deciding, Fits

\* The report leaves the incident as it is.
LEMMA GenerateAuditKeeps ==
    ASSUME RunInv, GenerateAudit
    PROVE  RunInv'
<1>1. /\ call # NoCall /\ graph.next = "generate_audit" /\ Leave("NONE")
      /\ graph.next \in Nodes /\ graph.next \in Deciding \ {"END"}
  BY DEF GenerateAudit, At, Nodes, Deciding
<1>2. graph'.next = After(graph.next, "NONE", graph.mode) /\ imported' = imported
  BY <1>1, LeavingRun DEF StopReasons
<1>3. graph'.next = "close_incident"
  BY <1>1, <1>2, AfterEachNode
<1>4. /\ report' \in {"VALID", "INVALID"}
      /\ UNCHANGED <<status, facts, mock, request, policy, approvals, preauth,
                     execution, verdicts, chainIntact>>
  BY DEF GenerateAudit, S!GenerateReport
<1>5. Whole(Store)' /\ status' # "NONE"
  BY <1>1, <1>4, WhoRuns, WholeStays DEF Opening
<1>6. Store' \in StoreType
  BY <1>2, <1>4, ViewOfType DEF RunInv, Store, StoreType
<1>7. QED
  BY <1>1, <1>3, <1>4, <1>5, <1>6, DecidedNodeKeeps DEF StopReasons, Deciding, Fits

\* The stop reason CLOSED comes with the status.
LEMMA CloseIncidentKeeps ==
    ASSUME RunInv, CloseIncident
    PROVE  RunInv'
<1>1. /\ call # NoCall /\ graph.next = "close_incident" /\ Leave("CLOSED")
      /\ graph.next \in Nodes /\ graph.next \in Deciding \ {"END"}
  BY DEF CloseIncident, At, Nodes, Deciding
<1>2. graph'.next = After(graph.next, "CLOSED", graph.mode) /\ imported' = imported
  BY <1>1, LeavingRun DEF StopReasons
<1>3. graph'.next = "END"
  BY <1>1, <1>2, AfterEachNode
<1>4. /\ status = "VERIFIED" /\ status' = "CLOSED"
      /\ UNCHANGED <<facts, mock, request, policy, approvals, preauth, execution,
                     verdicts, report, chainIntact>>
  BY DEF CloseIncident, S!Close, S!CanClose
<1>5. Whole(Store)'
  <2>1. Whole(Store)
    BY <1>1, WhoRuns DEF Opening
  <2>2. QED
    BY <1>4, <2>1 DEF Whole, Store, Endorsed
<1>6. Store' \in StoreType
  BY <1>2, <1>4, ViewOfType DEF RunInv, Store, StoreType, S!Statuses
<1>7. QED
  BY <1>1, <1>3, <1>4, <1>5, <1>6, DecidedNodeKeeps DEF StopReasons, Deciding, Fits

-----------------------------------------------------------------------------
\* A start finds a session that shows the database, and nothing remembered.
LEMMA StartKeeps ==
    ASSUME RunInv, NEW k \in Captures, NEW m \in S!Modes, NEW force \in BOOLEAN,
           NEW ok \in BOOLEAN, Start(k, m, force, ok)
    PROVE  RunInv'
<1> DEFINE first == [next |-> "ingest_event", stop |-> "NONE"]
           begun == [IdleGraph EXCEPT !.next = "ingest_event", !.mode = m,
                                      !.force = force, !.modelOk = ok]
           started == [NoCall EXCEPT !.kind = "start"]
<1>1. /\ call = NoCall /\ stage = "IDLE" /\ session # "dirty" /\ session' = "dirty"
      /\ call' = started /\ graph' = begun /\ saved' = first
      /\ imported' = imported \cup {k}
      /\ UNCHANGED <<view, db, stage, cache>>
  BY DEF Start
<1>2. UNCHANGED <<status, facts, mock, request, policy, approvals, preauth, execution,
                  verdicts, report, chainIntact>>
  BY <1>1 DEF view
<1>3. Store = db
  BY <1>1 DEF RunInv, RestInv
<1>4. /\ begun \in GraphType /\ begun.next = "ingest_event" /\ begun.stop = "NONE"
      /\ ~begun.missed
  BY DEF GraphType, IdleGraph, Nodes, StopReasons
<1>5. started \in CallType /\ started # NoCall /\ started.kind = "start"
  BY DEF CallType, NoCall
<1>6. first \in Position
  BY DEF Position, Nodes, StopReasons
<1>7. TypeOK'
  <2>1. Store' \in StoreType
    BY <1>1, <1>2, ViewOfType DEF RunInv, Store, StoreType
  <2>2. QED
    BY <1>1, <1>4, <1>5, <1>6, <2>1 DEF RunInv, TypeOK
<1>8. CallShape' /\ CommittedInv'
  BY <1>1 DEF RunInv, CallShape, CommittedInv
<1>9. RestInv' /\ DecideInv'
  BY <1>1, <1>5 DEF RestInv, DecideInv
<1>10. CallInv'
  BY <1>1, <1>4, <1>6 DEF CallInv, Fits
<1>11. StartInv'
  <2>1. AsCommitted'
    BY <1>1, <1>2, <1>3 DEF AsCommitted, Store
  <2>2. mock' = db'.mock
    BY <1>1, <1>2, <1>3 DEF Store
  <2>3. QED
    BY <1>1, <1>4, <2>1, <2>2 DEF StartInv, Opening
<1>12. MemoryInv'
  BY <1>1 DEF RunInv, MemoryInv, CacheTruthful, ClosedJustified, Endorsed
<1>13. QED
  BY <1>7, <1>8, <1>9, <1>10, <1>11, <1>12 DEF RunInv

\* A colliding import leaves no write.
LEMMA StartImportFailsKeeps ==
    ASSUME RunInv, NEW k \in Captures, StartImportFails(k)
    PROVE  RunInv'
<1>1. /\ call = NoCall /\ stage = "IDLE" /\ session # "dirty" /\ session' = "broken"
      /\ UNCHANGED <<view, imported, db, saved, stage, cache, call, graph>>
  BY DEF StartImportFails
<1>2. UNCHANGED <<status, facts, mock, request, policy, approvals, preauth, execution,
                  verdicts, report, chainIntact>>
  BY <1>1 DEF view
<1>3. Store' = Store /\ Store = db
  BY <1>1, <1>2 DEF RunInv, RestInv, Store
<1>4. TypeOK'
  BY <1>1, <1>3 DEF RunInv, TypeOK
<1>5. CallShape' /\ CommittedInv'
  BY <1>1 DEF RunInv, CallShape, CommittedInv
<1>6. RestInv'
  BY <1>1, <1>3 DEF RunInv, RestInv
<1>7. CallInv' /\ StartInv' /\ DecideInv'
  BY <1>1 DEF CallInv, StartInv, DecideInv, NoCall
<1>8. MemoryInv'
  BY <1>1 DEF RunInv, MemoryInv, CacheTruthful, ClosedJustified, Endorsed
<1>9. QED
  BY <1>4, <1>5, <1>6, <1>7, <1>8 DEF RunInv

\* A decision is taken up from where the graph was persisted.
LEMMA DecideKeeps ==
    ASSUME RunInv, NEW d \in {"APPROVED", "REJECTED"}, NEW q \in ReqIds, Decide(d, q)
    PROVE  RunInv'
<1> DEFINE resumed == [graph EXCEPT !.next = saved.next, !.stop = saved.stop]
           asked == [kind |-> "decide", decision |-> d, id |-> q]
<1>1. /\ call = NoCall /\ stage = "WAITING_APPROVAL" /\ session # "broken"
      /\ request[TheRequest] # None
      /\ session' = "dirty" /\ call' = asked /\ graph' = resumed
      /\ UNCHANGED <<view, imported, db, saved, stage, cache>>
  BY DEF Decide
<1>2. UNCHANGED <<status, facts, mock, request, policy, approvals, preauth, execution,
                  verdicts, report, chainIntact>>
  BY <1>1 DEF view
<1>3. Store' = Store
  BY <1>1, <1>2 DEF Store
<1>4. saved \in Position /\ Resumable(saved.next, saved.stop) /\ ~graph.missed
  BY <1>1 DEF RunInv, RestInv
<1>5. saved = [next |-> saved.next, stop |-> saved.stop]
  BY <1>4 DEF Position
<1>6. /\ resumed \in GraphType
      /\ resumed.next = saved.next /\ resumed.stop = saved.stop /\ ~resumed.missed
  BY <1>4 DEF RunInv, TypeOK, GraphType, Position
<1>7. asked \in CallType /\ asked # NoCall
  BY DEF CallType, NoCall
<1>8. Whole(Store) /\ status # "NONE"
  <2>1. CASE session = "dirty"
    BY <1>1, <2>1 DEF RunInv, RestInv
  <2>2. CASE session # "dirty"
    <3>1. Store = db /\ Whole(db)
      BY <1>1, <2>2 DEF RunInv, RestInv, CommittedInv
    <3>2. status = "NONE" => db = EmptyStore
      BY <3>1 DEF RunInv, CommittedInv, Store
    <3>3. db # EmptyStore
      BY <1>1, <3>1 DEF Store, EmptyStore
    <3>4. QED
      BY <3>1, <3>2, <3>3
  <2>3. QED
    BY <2>1, <2>2
<1>9. TypeOK'
  BY <1>1, <1>3, <1>6, <1>7 DEF RunInv, TypeOK
<1>10. CallShape' /\ CommittedInv'
  BY <1>1 DEF RunInv, CallShape, CommittedInv
<1>11. RestInv' /\ StartInv'
  BY <1>1, <1>7 DEF RestInv, StartInv
<1>12. /\ Resumable(graph.next, graph.stop)'
       /\ Resumable(saved.next, saved.stop)'
  BY <1>1, <1>2, <1>4, <1>6 DEF Resumable
<1>13. CallInv'
  BY <1>1, <1>2, <1>4, <1>5, <1>6, <1>12 DEF CallInv, Resumable
<1>14. Whole(Store)'
  BY <1>2, <1>8, WholeStays
<1>15. DecideInv'
  BY <1>1, <1>2, <1>8, <1>12, <1>14 DEF DecideInv
<1>16. MemoryInv'
  BY <1>1 DEF RunInv, MemoryInv, CacheTruthful, ClosedJustified, Endorsed
<1>17. QED
  BY <1>9, <1>10, <1>11, <1>13, <1>15, <1>16 DEF RunInv

-----------------------------------------------------------------------------
\* A graph that has been left.
LEMMA LeftGraph ==
    ASSUME graph \in GraphType
    PROVE  /\ [graph EXCEPT !.next = "END", !.stop = "NONE", !.missed = FALSE] \in GraphType
           /\ [graph EXCEPT !.next = "END", !.stop = "NONE", !.missed = FALSE].missed = FALSE
           /\ [graph EXCEPT !.next = "END", !.stop = "NONE"] \in GraphType
           /\ [graph EXCEPT !.next = "END", !.stop = "NONE"].missed = graph.missed
BY DEF GraphType, StopReasons

\* The wiped store has the type of a store, and is whole.
LEMMA EmptyStoreIsStore ==
    /\ NoCall \in CallType /\ NoCall.kind = "none"
    /\ EmptyStore \in StoreType /\ Whole(EmptyStore) /\ EmptyStore.status = "NONE"
    /\ EmptyStore.request[TheRequest] = None
<1>1. <<>> \in Seq(S!Approval)
  OBVIOUS
<1>2. EmptyStore \in StoreType
  BY <1>1 DEF EmptyStore, StoreType, S!Statuses, S!Outcomes
<1>3. Whole(EmptyStore)
  BY NoneIsNoRow DEF EmptyStore, Whole
<1>4. QED
  BY <1>2, <1>3 DEF EmptyStore, NoCall, CallType

\* A call that is given up leaves the session as it is.
LEMMA AbandonKeeps ==
    ASSUME RunInv, call # NoCall, Abandon, UNCHANGED view
    PROVE  RunInv'
<1> DEFINE left == [graph EXCEPT !.next = "END", !.stop = "NONE", !.missed = FALSE]
<1>1. /\ call' = NoCall /\ graph' = left
      /\ UNCHANGED <<imported, db, saved, session, stage, cache>>
      /\ UNCHANGED <<status, facts, mock, request, policy, approvals, preauth, execution,
                     verdicts, report, chainIntact>>
  BY DEF Abandon, view
<1>2. Store' = Store
  BY <1>1 DEF Store
<1>3. left \in GraphType /\ left.missed = FALSE
  BY LeftGraph DEF RunInv, TypeOK
<1>4. TypeOK'
  BY <1>1, <1>2, <1>3, EmptyStoreIsStore DEF RunInv, TypeOK
<1>5. CallShape' /\ CommittedInv'
  BY <1>1 DEF RunInv, CallShape, CommittedInv
<1>6. RestInv'
  <2>1. session = "dirty" /\ saved \in Position
    BY DEF RunInv, CallInv
  <2>2. call.kind \in {"start", "decide"}
    BY CallKinds DEF RunInv
  <2>3. CASE call.kind = "start"
    BY <1>1, <1>3, <2>1, <2>3 DEF RunInv, StartInv, RestInv
  <2>4. CASE call.kind = "decide"
    <3>1. /\ stage = "WAITING_APPROVAL" /\ Whole(Store) /\ status # "NONE"
          /\ Resumable(saved.next, saved.stop)
      BY <2>4 DEF RunInv, DecideInv
    <3>2. Whole(Store)' /\ Resumable(saved.next, saved.stop)'
      BY <1>1, <3>1, WholeStays DEF Resumable
    <3>3. QED
      BY <1>1, <1>3, <2>1, <3>1, <3>2 DEF RestInv
  <2>5. QED
    BY <2>2, <2>3, <2>4
<1>7. CallInv' /\ StartInv' /\ DecideInv'
  BY <1>1, EmptyStoreIsStore DEF CallInv, StartInv, DecideInv
<1>8. MemoryInv'
  BY <1>1 DEF RunInv, MemoryInv, CacheTruthful, ClosedJustified, Endorsed
<1>9. QED
  BY <1>4, <1>5, <1>6, <1>7, <1>8 DEF RunInv

\* The single commit of a call takes the session as a whole.
LEMMA FinishKeeps ==
    ASSUME RunInv, Finish
    PROVE  RunInv'
<1> DEFINE left == [graph EXCEPT !.next = "END", !.stop = "NONE"]
<1>1. /\ call # NoCall /\ ~graph.missed
      /\ \/ graph.next = "END"
         \/ graph.next = "wait_for_approval" /\ call.kind = "start"
      /\ db' = Store /\ session' = "clean" /\ call' = NoCall /\ graph' = left
      /\ stage' = IF graph.next = "wait_for_approval" THEN "WAITING_APPROVAL"
                  ELSE IF graph.stop = "MODEL_UNAVAILABLE" /\ call.kind = "start"
                       THEN "MANUAL_REQUIRED"
                  ELSE graph.stop
      /\ cache' = IF call.kind = "decide" THEN [cache EXCEPT ![call.id] = stage'] ELSE cache
      /\ UNCHANGED <<imported, saved>>
      /\ UNCHANGED <<status, facts, mock, request, policy, approvals, preauth, execution,
                     verdicts, report, chainIntact>>
  BY DEF Finish, Stopped, At, view
<1>2. Store' = Store /\ Store = db'
  BY <1>1 DEF Store
<1>3. left \in GraphType /\ left.missed = graph.missed
  BY LeftGraph DEF RunInv, TypeOK
<1>4. Whole(Store) /\ status # "NONE"
  BY <1>1, WhoRuns DEF Opening
<1>5. /\ call.kind \in {"start", "decide"}
      /\ call.kind = "decide" => call.id \in ReqIds
      /\ graph.stop \in StopReasons
  BY <1>1, CallKinds DEF RunInv, TypeOK, GraphType
<1>6. CASE graph.next = "wait_for_approval"
  <2>1. /\ call.kind = "start" /\ stage = "IDLE" /\ stage' = "WAITING_APPROVAL"
        /\ cache' = cache
    BY <1>1, <1>6 DEF RunInv, StartInv
  <2>2. cache = [q \in ReqIds |-> None]
    BY <2>1 DEF RunInv, MemoryInv
  <2>3. TypeOK'
    BY <1>1, <1>2, <1>3, <2>1, EmptyStoreIsStore DEF RunInv, TypeOK, Stages
  <2>4. CommittedInv' /\ CallShape'
    BY <1>1, <1>4 DEF CommittedInv, Store, CallShape
  <2>5. saved = [next |-> "wait_for_approval", stop |-> "NONE"]
    BY <1>1, <1>6 DEF RunInv, CallInv, Fits
  <2>6. saved' \in Position /\ Resumable(saved.next, saved.stop)'
    BY <1>1, <2>5 DEF Position, Nodes, StopReasons, Resumable, Deciding, Fits
  <2>7. RestInv'
    BY <1>1, <1>2, <1>3, <2>6 DEF RestInv
  <2>8. CallInv' /\ StartInv' /\ DecideInv'
    BY <1>1, EmptyStoreIsStore DEF CallInv, StartInv, DecideInv
  <2>9. MemoryInv'
    BY <2>1, <2>2 DEF MemoryInv, CacheTruthful, ClosedJustified
  <2>10. QED
    BY <2>3, <2>4, <2>7, <2>8, <2>9 DEF RunInv
<1>7. CASE graph.next = "END"
  <2>1. /\ graph.stop \in StopReasons \ {"NONE"}
        /\ graph.stop = "CLOSED" => status = "CLOSED"
        /\ call.kind = "decide" => graph.stop # "MODEL_UNAVAILABLE"
    BY <1>1, <1>5, <1>7 DEF RunInv, CallInv, DecideInv, Resumable, Fits
  <2>2. /\ stage' \in Stages \ {"IDLE", "WAITING_APPROVAL"}
        /\ stage' = "CLOSED" => status = "CLOSED"
    BY <1>1, <1>5, <1>7, <2>1 DEF Stages, StopReasons
  <2>3. cache = [q \in ReqIds |-> None]
    BY <1>5 DEF RunInv, StartInv, DecideInv, MemoryInv
  <2>4. \/ cache' = cache
        \/ call.id \in ReqIds /\ cache' = [cache EXCEPT ![call.id] = stage']
    BY <1>1, <1>5
  <2>5. /\ cache' \in [ReqIds -> Stages \cup {None}]
        /\ \A q \in ReqIds : cache'[q] \in {None, stage'}
        /\ \A q, p \in ReqIds : cache'[q] # None /\ cache'[p] # None => q = p
    BY <2>2, <2>3, <2>4
  <2>6. TypeOK'
    BY <1>1, <1>2, <1>3, <2>2, <2>5, EmptyStoreIsStore DEF RunInv, TypeOK
  <2>7. CommittedInv' /\ CallShape'
    BY <1>1, <1>4 DEF CommittedInv, Store, CallShape
  <2>8. RestInv'
    BY <1>1, <1>2, <1>3, <2>2 DEF RestInv
  <2>9. CallInv' /\ StartInv' /\ DecideInv'
    BY <1>1, EmptyStoreIsStore DEF CallInv, StartInv, DecideInv
  <2>10. ClosedJustified'
    <3> SUFFICES ASSUME status = "CLOSED"
                 PROVE  ClosedJustified'
      BY <2>2 DEF ClosedJustified
    <3>1. Whole(db')
      BY <1>1, <1>4
    <3>2. db'.status = "CLOSED"
      BY <1>1 DEF Store
    <3>3. QED
      BY <3>1, <3>2 DEF ClosedJustified, Whole, Endorsed
  <2>11. MemoryInv'
    BY <2>2, <2>5, <2>10 DEF MemoryInv, CacheTruthful
  <2>12. QED
    BY <2>6, <2>7, <2>8, <2>9, <2>11 DEF RunInv
<1>8. QED
  BY <1>1, <1>6, <1>7

\* A failed flush gives the session back what is committed, and breaks it.
LEMMA StoreFailsKeeps ==
    ASSUME RunInv, StoreFails
    PROVE  RunInv'
<1> DEFINE left == [graph EXCEPT !.next = "END", !.stop = "NONE", !.missed = FALSE]
<1>1. /\ Load(db) /\ session' = "broken" /\ call' = NoCall /\ graph' = left
      /\ UNCHANGED <<db, saved, stage, cache>>
  BY DEF StoreFails
<1>2. Store' = db
  BY <1>1, LoadGivesStore DEF RunInv, TypeOK
<1>3. left \in GraphType /\ left.missed = FALSE
  BY LeftGraph DEF RunInv, TypeOK
<1>4. TypeOK'
  BY <1>1, <1>2, <1>3, EmptyStoreIsStore DEF RunInv, TypeOK
<1>5. CallShape' /\ CommittedInv'
  BY <1>1 DEF RunInv, CallShape, CommittedInv
<1>6. RestInv'
  BY <1>1, <1>2, <1>3 DEF RestInv
<1>7. CallInv' /\ StartInv' /\ DecideInv'
  BY <1>1, EmptyStoreIsStore DEF CallInv, StartInv, DecideInv
<1>8. MemoryInv'
  BY <1>1 DEF RunInv, MemoryInv, CacheTruthful, ClosedJustified, Endorsed
<1>9. QED
  BY <1>4, <1>5, <1>6, <1>7, <1>8 DEF RunInv

\* A runtime that starts, over whatever store, remembers nothing.
LEMMA FreshRuntimeKeeps ==
    ASSUME RunInv, db' \in StoreType, CommittedInv', Store' = db',
           session' = "none", stage' = "IDLE", cache' = [q \in ReqIds |-> None],
           call' = NoCall, graph' = IdleGraph, saved' = None
    PROVE  RunInv'
<1>1. IdleGraph \in GraphType /\ ~IdleGraph.missed
  BY DEF IdleGraph, GraphType, StopReasons, S!Modes
<1>2. TypeOK'
  BY <1>1, EmptyStoreIsStore DEF TypeOK, Stages
<1>3. CallShape' /\ RestInv'
  BY <1>1 DEF CallShape, RestInv
<1>4. CallInv' /\ StartInv' /\ DecideInv'
  BY EmptyStoreIsStore DEF CallInv, StartInv, DecideInv
<1>5. MemoryInv'
  BY DEF MemoryInv, CacheTruthful, ClosedJustified
<1>6. QED
  BY <1>2, <1>3, <1>4, <1>5 DEF RunInv

\* A restart finds what was committed.
LEMMA RestartKeeps ==
    ASSUME RunInv, Restart
    PROVE  RunInv'
<1>1. Store' = db /\ db' = db /\ db \in StoreType
  BY LoadGivesStore DEF RunInv, TypeOK, Restart
<1>2. CommittedInv'
  BY <1>1 DEF RunInv, CommittedInv
<1>3. QED
  BY <1>1, <1>2, FreshRuntimeKeeps DEF Restart

\* A reset finds an empty store.
LEMMA ResetKeeps ==
    ASSUME RunInv, Reset
    PROVE  RunInv'
<1>1. Store' = EmptyStore /\ db' = EmptyStore
  BY LoadGivesStore, EmptyStoreIsStore DEF Reset
<1>2. CommittedInv'
  BY <1>1, EmptyStoreIsStore DEF CommittedInv
<1>3. QED
  BY <1>1, <1>2, EmptyStoreIsStore, FreshRuntimeKeeps DEF Reset

\* A reset that fails keeps what the runtime remembers over an empty store.
LEMMA ResetFailsKeeps ==
    ASSUME RunInv, ResetFails
    PROVE  RunInv'
<1>1. /\ call = NoCall /\ saved' = None /\ db' = EmptyStore
      /\ session' \in {"none", "clean"}
      /\ UNCHANGED <<stage, cache, call, graph>>
  BY DEF ResetFails
<1>2. Store' = EmptyStore
  BY LoadGivesStore, EmptyStoreIsStore DEF ResetFails
<1>3. request' = EmptyStore.request
  BY DEF ResetFails, Load
<1>4. TypeOK'
  BY <1>1, <1>2, EmptyStoreIsStore DEF RunInv, TypeOK
<1>5. CallShape' /\ CommittedInv'
  BY <1>1, EmptyStoreIsStore DEF RunInv, CallShape, CommittedInv
<1>6. RestInv'
  BY <1>1, <1>2, <1>3, EmptyStoreIsStore DEF RunInv, RestInv
<1>7. CallInv' /\ StartInv' /\ DecideInv'
  BY <1>1, EmptyStoreIsStore DEF CallInv, StartInv, DecideInv
<1>8. MemoryInv'
  BY <1>1, EmptyStoreIsStore DEF RunInv, MemoryInv, CacheTruthful, ClosedJustified
<1>9. QED
  BY <1>4, <1>5, <1>6, <1>7, <1>8 DEF RunInv

-----------------------------------------------------------------------------
\* No step breaks the invariant.
LEMMA RunStep ==
    ASSUME RunInv, [Next]_vars
    PROVE  RunInv'
<1>1. ASSUME NEW k \in Captures, NEW m \in S!Modes, NEW force \in BOOLEAN,
             NEW ok \in BOOLEAN, Start(k, m, force, ok)
      PROVE  RunInv'
  BY <1>1, StartKeeps
<1>2. ASSUME NEW k \in Captures, StartImportFails(k)
      PROVE  RunInv'
  BY <1>2, StartImportFailsKeeps
<1>3. ASSUME NEW d \in {"APPROVED", "REJECTED"}, NEW q \in ReqIds, Decide(d, q)
      PROVE  RunInv'
  BY <1>3, DecideKeeps
<1>4. CASE Step
  <2>1. CASE CreateIncidentFails \/ CloseIncidentFails
    BY <2>1, AbandonKeeps DEF CreateIncidentFails, CloseIncidentFails, At
  <2>2. QED
    BY <1>4, <2>1, IngestEventKeeps, BookkeepingKeeps, CreateIncidentKeeps,
       PlanInvestigationKeeps, EvaluateFactsKeeps, BuildActionRequestKeeps,
       PolicyCheckKeeps, WaitForApprovalKeeps, AutonomousPreauthorizationKeeps,
       ExecuteActionKeeps, VerifyResultKeeps, GenerateAuditKeeps, CloseIncidentKeeps
       DEF Step
<1>5. CASE FinishFails
  BY <1>5, AbandonKeeps DEF FinishFails, Stopped, At
<1>6. CASE Finish \/ StoreFails \/ Restart \/ Reset \/ ResetFails
  BY <1>6, FinishKeeps, StoreFailsKeeps, RestartKeeps, ResetKeeps, ResetFailsKeeps
<1>7. CASE UNCHANGED vars
  <2>1. /\ UNCHANGED <<imported, db, saved, session, stage, cache, call, graph>>
        /\ UNCHANGED <<status, facts, mock, request, policy, approvals, preauth,
                       execution, verdicts, report, chainIntact>>
    BY <1>7 DEF vars, view, process
  <2>2. Store' = Store
    BY <2>1 DEF Store
  <2>3. TypeOK' /\ CallShape' /\ CommittedInv'
    BY <2>1, <2>2 DEF RunInv, TypeOK, CallShape, CommittedInv
  <2>4. /\ \A node, stop : Resumable(node, stop)' <=> Resumable(node, stop)
        /\ Whole(Store)' <=> Whole(Store)
        /\ AsCommitted' <=> AsCommitted
    BY <2>1 DEF Resumable, Whole, Store, Endorsed, AsCommitted
  <2>5. RestInv' /\ CallInv' /\ StartInv' /\ DecideInv'
    BY <2>1, <2>2, <2>4 DEF RunInv, RestInv, CallInv, StartInv, DecideInv, Resumable
  <2>6. MemoryInv'
    BY <2>1 DEF RunInv, MemoryInv, CacheTruthful, ClosedJustified, Endorsed
  <2>7. QED
    BY <2>3, <2>5, <2>6 DEF RunInv
<1>8. QED
  BY <1>1, <1>2, <1>3, <1>4, <1>5, <1>6, <1>7 DEF Next

\* What a run, its store and its memory have to do with each other, whatever
\* fails and however often a decision is repeated.
THEOREM RunsHoldTogether == Spec => []RunInv
<1>1. Init => RunInv
  <2> SUFFICES ASSUME Init
               PROVE  RunInv
    OBVIOUS
  <2>1. Store = EmptyStore /\ db = EmptyStore
    BY DEF Init, S!Init, Store, EmptyStore
  <2>2. IdleGraph \in GraphType /\ ~IdleGraph.missed
    BY DEF IdleGraph, GraphType, StopReasons, S!Modes
  <2>3. TypeOK /\ CallShape /\ CommittedInv /\ RestInv
    BY <2>1, <2>2, EmptyStoreIsStore DEF Init, TypeOK, CallShape, CommittedInv, RestInv, Stages
  <2>4. CallInv /\ StartInv /\ DecideInv /\ MemoryInv
    BY EmptyStoreIsStore DEF Init, CallInv, StartInv, DecideInv, MemoryInv, CacheTruthful,
                             ClosedJustified
  <2>5. QED
    BY <2>3, <2>4 DEF RunInv
<1>2. RunInv /\ [Next]_vars => RunInv'
  BY RunStep
<1>3. QED
  BY <1>1, <1>2, PTL DEF Spec

\* The state of the runtime always has its type.
THEOREM TypeCorrect == Spec => []TypeOK
BY RunsHoldTogether, PTL DEF RunInv

\* The store is never half contained, whatever fails.
THEOREM CommitsAreWhole == Spec => []CommittedEffects
<1>1. RunInv => CommittedEffects
  BY NoneIsNoRow DEF RunInv, CommittedInv, Whole, CommittedEffects
<1>2. QED
  BY <1>1, RunsHoldTogether, PTL

\* Remembered answers are not stale.
THEOREM AnswersAreTruthful == Spec => []CacheTruthful
BY RunsHoldTogether, PTL DEF RunInv, MemoryInv

\* A run that is reported closed is closed, also on a resumed graph.
THEOREM ClosedIsJustified == Spec => []ClosedJustified
BY RunsHoldTogether, PTL DEF RunInv, MemoryInv

-----------------------------------------------------------------------------
\* A node keeps the exact invariant if it establishes what its successor and
\* its stop reason say.
LEMMA NodeKeepsExact ==
    ASSUME RunInv, ExactInv, "checkpoint" \notin Faults,
           call # NoCall, graph.next \in Nodes,
           NEW stop, stop \in StopReasons, Leave(stop),
           chainIntact', Reached(graph.next)', StoppedFor(graph.stop)',
           call.kind = "start" => stop # "HUMAN_REJECTED"
    PROVE  ExactInv'
<1>1. graph \in GraphType /\ saved \in Position
  BY DEF RunInv, TypeOK, CallInv
<1>2. /\ graph'.stop = stop /\ graph'.mode = graph.mode /\ ~graph'.missed
      /\ UNCHANGED <<imported, db, session, stage, cache, call>>
  BY <1>1, LeavingNode DEF ExactInv
<1>3. StageFits'
  BY <1>2 DEF ExactInv, StageFits, Endorsed
<1>4. QED
  BY <1>2, <1>3 DEF ExactInv

\* Each node establishes what its successor finds, and the stop reason's meaning.
LEMMA IngestEventExact ==
    ASSUME RunInv, ExactInv, "checkpoint" \notin Faults, IngestEvent
    PROVE  ExactInv'
<1>1. /\ call # NoCall /\ graph.next = "ingest_event" /\ Leave("NONE")
      /\ graph.next \in Nodes /\ "NONE" \in StopReasons
  BY DEF IngestEvent, At, Nodes, StopReasons
<1>2. graph'.next = After(graph.next, "NONE", graph.mode) /\ graph'.stop = "NONE"
  BY <1>1, LeavingRun
<1>3. graph'.next = "detect_signal"
  BY <1>1, <1>2, AfterEachNode
<1>4. Reached(graph.next)' /\ StoppedFor(graph.stop)'
  BY <1>2, <1>3 DEF Reached, StoppedFor
<1>5. chainIntact'
  BY DEF IngestEvent, S!Ingest, ExactInv
<1>6. QED
  BY <1>1, <1>4, <1>5, NodeKeepsExact

\* An opened incident is DETECTED, over the initial environment.
LEMMA CreateIncidentExact ==
    ASSUME RunInv, ExactInv, "checkpoint" \notin Faults, CreateIncident
    PROVE  ExactInv'
<1>1. /\ call # NoCall /\ graph.next = "create_incident" /\ Leave("NONE")
      /\ graph.next \in Nodes /\ "NONE" \in StopReasons
  BY DEF CreateIncident, At, Nodes, StopReasons
<1>2. graph'.next = After(graph.next, "NONE", graph.mode) /\ graph'.stop = "NONE"
  BY <1>1, LeavingRun
<1>3. graph'.next = "plan_investigation"
  BY <1>1, <1>2, AfterEachNode
<1>4. call.kind = "start" /\ AsCommitted /\ mock = S!InitialMock
  BY <1>1, WhoRuns DEF Opening, RunInv, StartInv
<1>5. /\ status = "NONE" /\ status' = "DETECTED"
      /\ UNCHANGED <<facts, mock, request, policy, approvals, preauth, execution,
                     verdicts, report, chainIntact>>
  BY DEF CreateIncident, S!OpenIncident, S!CanOpen
<1>6. db = EmptyStore
  BY <1>4, <1>5 DEF AsCommitted, RunInv, CommittedInv
<1>7. Pristine'
  BY <1>4, <1>5, <1>6 DEF AsCommitted, EmptyStore, Pristine
<1>8. Reached(graph.next)' /\ StoppedFor(graph.stop)'
  BY <1>2, <1>3, <1>5, <1>7 DEF Reached, StoppedFor
<1>9. chainIntact'
  BY <1>5 DEF ExactInv
<1>10. QED
  BY <1>1, <1>8, <1>9, NodeKeepsExact

\* What a node found that writes nothing, its successor finds too.
LEMMA BookkeepingExact ==
    ASSUME RunInv, ExactInv, "checkpoint" \notin Faults, Bookkeeping
    PROVE  ExactInv'
<1> DEFINE stop == graph.stop
<1>1. /\ call # NoCall /\ graph.next \in Nodes /\ Leave(stop)
      /\ graph.next \in {"detect_signal", "run_investigation", "run_trace",
                         "build_action_plan", "manual_or_stop", "replan_or_manual"}
      /\ UNCHANGED view
  BY DEF Bookkeeping, At, Nodes
<1>2. /\ stop \in StopReasons
      /\ graph.next \notin {"manual_or_stop", "replan_or_manual"} => stop = "NONE"
  BY <1>1, WhoRuns DEF RunInv, TypeOK, GraphType
<1>3. /\ Reached(graph.next) /\ StoppedFor(stop) /\ chainIntact
      /\ call.kind = "start" => stop # "HUMAN_REJECTED"
  BY <1>1 DEF ExactInv
<1> HIDE DEF stop
<1>4. graph'.next = After(graph.next, stop, graph.mode) /\ graph'.stop = stop
      /\ imported' = imported
  BY <1>1, <1>2, LeavingRun
<1>5. UNCHANGED <<status, facts, mock, request, policy, approvals, preauth, execution,
                  verdicts, report, chainIntact>>
  BY <1>1 DEF view
<1>6. StoppedFor(graph.stop)'
  <2>1. Store' = Store
    BY <1>4, <1>5 DEF Store
  <2>2. QED
    BY <1>3, <1>4, <1>5, <2>1 DEF StoppedFor, Pristine, Endorsed
<1>7. Reached(graph.next)'
  <2>1. CASE graph.next = "detect_signal"
    <3>1. graph'.next = "create_incident"
      BY <1>4, <2>1, AfterEachNode
    <3>2. QED
      BY <3>1 DEF Reached
  <2>2. CASE graph.next = "run_investigation"
    <3>1. graph'.next = "run_trace"
      BY <1>2, <1>4, <2>2, AfterEachNode
    <3>2. QED
      BY <1>3, <1>5, <2>2, <3>1 DEF Reached, Pristine
  <2>3. CASE graph.next = "run_trace"
    <3>1. graph'.next = "evaluate_facts"
      BY <1>4, <2>3, AfterEachNode
    <3>2. QED
      BY <1>3, <1>5, <2>3, <3>1 DEF Reached, Pristine
  <2>4. CASE graph.next = "build_action_plan"
    <3>1. graph'.next = "build_action_request"
      BY <1>4, <2>4, AfterEachNode
    <3>2. QED
      BY <1>3, <1>5, <2>4, <3>1 DEF Reached, Pristine
  <2>5. CASE graph.next \in {"manual_or_stop", "replan_or_manual"}
    <3>1. graph'.next = "END"
      BY <1>4, <2>5, AfterEachNode
    <3>2. QED
      BY <3>1 DEF Reached
  <2>6. QED
    BY <1>1, <2>1, <2>2, <2>3, <2>4, <2>5
<1>8. QED
  BY <1>1, <1>2, <1>3, <1>5, <1>6, <1>7, NodeKeepsExact

\* A planned investigation is INVESTIGATING; an unavailable model leaves DETECTED.
LEMMA PlanInvestigationExact ==
    ASSUME RunInv, ExactInv, "checkpoint" \notin Faults, PlanInvestigation
    PROVE  ExactInv'
<1>1. /\ call # NoCall /\ graph.next = "plan_investigation" /\ graph.next \in Nodes
      /\ "NONE" \in StopReasons /\ "MODEL_UNAVAILABLE" \in StopReasons
  BY DEF PlanInvestigation, At, Nodes, StopReasons
<1>2. status = "DETECTED" /\ Pristine /\ chainIntact
  BY <1>1 DEF ExactInv, Reached
<1>3. CASE graph.modelOk /\ S!PlanInvestigation /\ Leave("NONE")
  <2>1. graph'.next = After(graph.next, "NONE", graph.mode) /\ graph'.stop = "NONE"
    BY <1>1, <1>3, LeavingRun
  <2>2. graph'.next = "run_investigation"
    BY <1>1, <2>1, AfterEachNode
  <2>3. status' = "INVESTIGATING" /\ chainIntact' /\ Pristine'
    BY <1>2, <1>3 DEF S!PlanInvestigation, Pristine
  <2>4. Reached(graph.next)' /\ StoppedFor(graph.stop)'
    BY <2>1, <2>2, <2>3 DEF Reached, StoppedFor
  <2>5. QED
    BY <1>1, <1>3, <2>3, <2>4, NodeKeepsExact
<1>4. CASE ~graph.modelOk /\ UNCHANGED view /\ Leave("MODEL_UNAVAILABLE")
  <2>1. /\ graph'.next = After(graph.next, "MODEL_UNAVAILABLE", graph.mode)
        /\ graph'.stop = "MODEL_UNAVAILABLE"
    BY <1>1, <1>4, LeavingRun
  <2>2. graph'.next = "manual_or_stop"
    BY <1>1, <2>1, AfterStopping DEF Stopping
  <2>3. status' = "DETECTED" /\ chainIntact' /\ Pristine'
    BY <1>2, <1>4 DEF view, Pristine
  <2>4. Reached(graph.next)' /\ StoppedFor(graph.stop)'
    BY <2>1, <2>2, <2>3 DEF Reached, StoppedFor
  <2>5. QED
    BY <1>1, <1>4, <2>3, <2>4, NodeKeepsExact
<1>5. QED
  BY <1>3, <1>4 DEF PlanInvestigation

\* Attribution needs all the facts and sets ATTRIBUTED.
LEMMA EvaluateFactsExact ==
    ASSUME RunInv, ExactInv, "checkpoint" \notin Faults, EvaluateFacts
    PROVE  ExactInv'
<1>1. /\ call # NoCall /\ graph.next = "evaluate_facts" /\ Leave("NONE")
      /\ graph.next \in Nodes /\ "NONE" \in StopReasons
  BY DEF EvaluateFacts, At, Nodes, StopReasons
<1>2. graph'.next = After(graph.next, "NONE", graph.mode) /\ graph'.stop = "NONE"
  BY <1>1, LeavingRun
<1>3. graph'.next = "build_action_plan"
  BY <1>1, <1>2, AfterEachNode
<1>4. Pristine /\ chainIntact
  BY <1>1 DEF ExactInv, Reached
<1>5. status' = "ATTRIBUTED" /\ facts' = S!FactTypes /\ Pristine' /\ chainIntact'
  BY <1>4 DEF EvaluateFacts, S!EvaluateFacts, S!CanAttribute, Pristine
<1>6. Reached(graph.next)' /\ StoppedFor(graph.stop)'
  BY <1>2, <1>3, <1>5 DEF Reached, StoppedFor
<1>7. QED
  BY <1>1, <1>5, <1>6, NodeKeepsExact

\* The first request of the run is stored.
LEMMA BuildActionRequestExact ==
    ASSUME RunInv, ExactInv, "checkpoint" \notin Faults, BuildActionRequest
    PROVE  ExactInv'
<1>1. /\ call # NoCall /\ graph.next = "build_action_request" /\ Leave("NONE")
      /\ graph.next \in Nodes /\ "NONE" \in StopReasons
  BY DEF BuildActionRequest, At, Nodes, StopReasons
<1>2. graph'.next = After(graph.next, "NONE", graph.mode) /\ graph'.stop = "NONE"
  BY <1>1, LeavingRun
<1>3. graph'.next = "policy_check"
  BY <1>1, <1>2, AfterEachNode
<1>4. status = "ATTRIBUTED" /\ facts = S!FactTypes /\ Pristine /\ chainIntact
  BY <1>1 DEF ExactInv, Reached
<1>5. /\ request' = [request EXCEPT ![TheRequest] = "plan"]
      /\ UNCHANGED <<status, facts, mock, policy, approvals, preauth, execution,
                     verdicts, report, chainIntact>>
  BY DEF BuildActionRequest, S!CreateRequest
<1>6. Requested("NONE")' /\ chainIntact'
  BY <1>4, <1>5, ViewOfType DEF RunInv, Pristine, Requested
<1>7. Reached(graph.next)' /\ StoppedFor(graph.stop)'
  BY <1>2, <1>3, <1>6 DEF Reached, StoppedFor
<1>8. QED
  BY <1>1, <1>6, <1>7, NodeKeepsExact

\* The policy engine allows the frozen request, in the way of the run's mode.
LEMMA PolicyCheckExact ==
    ASSUME RunInv, ExactInv, "checkpoint" \notin Faults, PolicyCheck
    PROVE  ExactInv'
<1>1. /\ call # NoCall /\ graph.next = "policy_check"
      /\ graph.next \in Nodes /\ "NONE" \in StopReasons
  BY DEF PolicyCheck, At, Nodes, StopReasons
<1>2. Requested("NONE") /\ chainIntact /\ graph.mode \in S!Modes
  BY <1>1 DEF ExactInv, Reached, RunInv, TypeOK, GraphType
<1>3. S!ChecksPass(TheRequest)
  BY <1>2 DEF Requested, S!ChecksPass
<1>4. /\ policy' = [policy EXCEPT ![TheRequest] =
                       IF graph.mode = "PRODUCTION_GUARDED" THEN "ALLOW_WITH_APPROVAL"
                       ELSE "ALLOW_WITH_PREAUTHORIZATION"]
      /\ UNCHANGED <<status, facts, mock, request, approvals, preauth, execution,
                     verdicts, report, chainIntact>>
  BY <1>3 DEF PolicyCheck, S!EvaluatePolicy
<1>5. policy'[TheRequest] = IF graph.mode = "PRODUCTION_GUARDED"
                            THEN "ALLOW_WITH_APPROVAL" ELSE "ALLOW_WITH_PREAUTHORIZATION"
  BY <1>4, ViewOfType DEF RunInv
<1>6. Leave("NONE") /\ chainIntact'
  BY <1>2, <1>4, <1>5 DEF PolicyCheck
<1>7. /\ graph'.next = After(graph.next, "NONE", graph.mode) /\ graph'.stop = "NONE"
      /\ graph'.mode = graph.mode
  BY <1>1, <1>6, LeavingRun
<1>8. CASE graph.mode = "PRODUCTION_GUARDED"
  <2>1. graph'.next = "wait_for_approval"
    BY <1>1, <1>7, <1>8, AfterEachNode
  <2>2. Requested("ALLOW_WITH_APPROVAL")'
    BY <1>2, <1>4, <1>5, <1>8 DEF Requested
  <2>3. Reached(graph.next)' /\ StoppedFor(graph.stop)'
    BY <1>7, <1>8, <2>1, <2>2 DEF Reached, StoppedFor
  <2>4. QED
    BY <1>1, <1>6, <2>3, NodeKeepsExact
<1>9. CASE graph.mode = "COMPETITION_AUTONOMOUS"
  <2>1. graph'.next = "autonomous_preauthorization"
    BY <1>1, <1>7, <1>9, AfterEachNode
  <2>2. Requested("ALLOW_WITH_PREAUTHORIZATION")'
    BY <1>2, <1>4, <1>5, <1>9 DEF Requested
  <2>3. Reached(graph.next)' /\ StoppedFor(graph.stop)'
    BY <1>7, <1>9, <2>1, <2>2 DEF Reached, StoppedFor
  <2>4. QED
    BY <1>1, <1>6, <2>3, NodeKeepsExact
<1>10. QED
  BY <1>2, <1>8, <1>9 DEF S!Modes

\* A run of the autonomous mode, which has to be enabled, is pre-authorized.
LEMMA AutonomousPreauthorizationExact ==
    ASSUME RunInv, ExactInv, "checkpoint" \notin Faults, AutonomousPreauthorization
    PROVE  ExactInv'
<1>1. /\ call # NoCall /\ graph.next = "autonomous_preauthorization"
      /\ graph.next \in Nodes /\ "NONE" \in StopReasons
  BY DEF AutonomousPreauthorization, At, Nodes, StopReasons
<1>2. /\ Requested("ALLOW_WITH_PREAUTHORIZATION") /\ chainIntact
      /\ graph.mode = "COMPETITION_AUTONOMOUS" /\ AutonomousEnabled
  BY <1>1 DEF ExactInv, Reached
<1>3. S!Preauthorizable(TheRequest, graph.mode)
  BY <1>2, NoneIsNoRow DEF Requested, S!Preauthorizable, S!ChecksPass
<1>4. /\ preauth' = [preauth EXCEPT ![TheRequest] =
                        [decision |-> "AUTO_PREAUTHORIZED", content |-> request[TheRequest]]]
      /\ UNCHANGED <<status, facts, mock, request, policy, approvals, execution,
                     verdicts, report, chainIntact>>
  BY <1>3 DEF AutonomousPreauthorization, S!Preauthorize
<1>5. preauth'[TheRequest].decision = "AUTO_PREAUTHORIZED"
  BY <1>4, ViewOfType DEF RunInv
<1>6. Leave("NONE") /\ chainIntact'
  BY <1>2, <1>4, <1>5 DEF AutonomousPreauthorization
<1>7. graph'.next = After(graph.next, "NONE", graph.mode) /\ graph'.stop = "NONE"
  BY <1>1, <1>6, LeavingRun
<1>8. graph'.next = "execute_action"
  BY <1>1, <1>7, AfterEachNode
<1>9. Reached(graph.next)' /\ StoppedFor(graph.stop)'
  BY <1>2, <1>4, <1>7, <1>8 DEF Requested, Reached, StoppedFor
<1>10. QED
  BY <1>1, <1>6, <1>9, NodeKeepsExact

\* A run pauses with no record of a decision: a rejection is the only one.
LEMMA WaitForApprovalExact ==
    ASSUME RunInv, ExactInv, "checkpoint" \notin Faults, WaitForApproval
    PROVE  ExactInv'
<1> DEFINE record == [decision |-> call.decision, content |-> request[TheRequest]]
<1>1. /\ call # NoCall /\ call.kind = "decide" /\ graph.next = "wait_for_approval"
      /\ graph.next \in Nodes /\ "NONE" \in StopReasons /\ "HUMAN_REJECTED" \in StopReasons
  BY DEF WaitForApproval, At, Nodes, StopReasons
<1>2. Requested("ALLOW_WITH_APPROVAL") /\ chainIntact
  BY <1>1 DEF ExactInv, Reached
<1>3. /\ approvals' = [approvals EXCEPT ![TheRequest] = Append(@, record)]
      /\ UNCHANGED <<status, facts, mock, request, policy, preauth, execution,
                     verdicts, report, chainIntact>>
  BY DEF WaitForApproval, S!DecideApproval
<1>4. approvals'[TheRequest] = Append(<<>>, record)
  BY <1>2, <1>3, ViewOfType DEF RunInv, Requested
<1>5. CASE call.decision = "REJECTED"
  <2>1. Leave("HUMAN_REJECTED")
    BY <1>5 DEF WaitForApproval
  <2>2. /\ graph'.next = After(graph.next, "HUMAN_REJECTED", graph.mode)
        /\ graph'.stop = "HUMAN_REJECTED"
    BY <1>1, <2>1, LeavingRun
  <2>3. graph'.next = "manual_or_stop"
    BY <1>1, <2>2, AfterStopping DEF Stopping
  <2>4. /\ Len(approvals'[TheRequest]) = 1
        /\ \A i \in DOMAIN approvals'[TheRequest] :
               approvals'[TheRequest][i].decision = "REJECTED"
    <3>1. Append(<<>>, record) = <<record>>
      OBVIOUS
    <3>2. record.decision = "REJECTED"
      BY <1>5
    <3>3. QED
      BY <1>4, <3>1, <3>2
  <2>5. ~Endorsed(Store)'
    BY <1>2, <1>3, <2>4 DEF Endorsed, Store, Requested
  <2>6. Reached(graph.next)' /\ StoppedFor(graph.stop)' /\ chainIntact'
    BY <1>2, <1>3, <2>2, <2>3, <2>4, <2>5 DEF Reached, StoppedFor, Requested
  <2>7. QED
    BY <1>1, <2>1, <2>6, NodeKeepsExact
<1>6. CASE call.decision # "REJECTED"
  <2>1. Leave("NONE")
    BY <1>6 DEF WaitForApproval
  <2>2. graph'.next = After(graph.next, "NONE", graph.mode) /\ graph'.stop = "NONE"
    BY <1>1, <2>1, LeavingRun
  <2>3. graph'.next = "execute_action"
    BY <1>1, <2>2, AfterEachNode
  <2>4. Reached(graph.next)' /\ StoppedFor(graph.stop)' /\ chainIntact'
    BY <1>2, <1>3, <2>2, <2>3 DEF Reached, StoppedFor, Requested
  <2>5. QED
    BY <1>1, <2>1, <2>4, NodeKeepsExact
<1>7. QED
  BY <1>5, <1>6

\* The node runs once, and rotates the environment.
LEMMA ExecuteActionExact ==
    ASSUME RunInv, ExactInv, "checkpoint" \notin Faults, ExecuteAction
    PROVE  ExactInv'
<1>1. /\ call # NoCall /\ graph.next = "execute_action" /\ Leave("NONE")
      /\ graph.next \in Nodes /\ "NONE" \in StopReasons
  BY DEF ExecuteAction, At, Nodes, StopReasons
<1>2. graph'.next = After(graph.next, "NONE", graph.mode) /\ graph'.stop = "NONE"
  BY <1>1, LeavingRun
<1>3. graph'.next = "verify_result"
  BY <1>1, <1>2, AfterEachNode
<1>4. execution[TheRequest] = None /\ verdicts = {} /\ chainIntact
  BY <1>1 DEF ExactInv, Reached
<1>5. /\ mock' = S!RotatedMock /\ status' = "ROTATED"
      /\ UNCHANGED <<verdicts, chainIntact>>
  BY <1>4 DEF ExecuteAction, S!Execute
<1>6. Reached(graph.next)' /\ StoppedFor(graph.stop)'
  BY <1>2, <1>3, <1>4, <1>5 DEF Reached, StoppedFor
<1>7. QED
  BY <1>1, <1>4, <1>5, <1>6, NodeKeepsExact

\* Only the forced failure keeps the verification of a rotation from passing.
LEMMA VerifyResultExact ==
    ASSUME RunInv, ExactInv, "checkpoint" \notin Faults, VerifyResult
    PROVE  ExactInv'
<1>1. /\ call # NoCall /\ graph.next = "verify_result" /\ graph.next \in Nodes
      /\ "NONE" \in StopReasons /\ "VERIFICATION_FAILED_REPLAN" \in StopReasons
  BY DEF VerifyResult, At, Nodes, StopReasons
<1>2. status = "ROTATED" /\ mock = S!RotatedMock /\ verdicts = {} /\ chainIntact
  BY <1>1 DEF ExactInv, Reached
<1>3. S!Recovered
  BY <1>2 DEF S!Recovered, S!RotatedMock
<1>4. UNCHANGED <<mock, chainIntact>>
  BY DEF VerifyResult, S!Verify
<1>5. CASE graph.force
  <2>1. Leave("VERIFICATION_FAILED_REPLAN")
    BY <1>5 DEF VerifyResult
  <2>2. /\ graph'.next = After(graph.next, "VERIFICATION_FAILED_REPLAN", graph.mode)
        /\ graph'.stop = "VERIFICATION_FAILED_REPLAN"
    BY <1>1, <2>1, LeavingRun
  <2>3. graph'.next = "replan_or_manual"
    BY <1>1, <2>2, AfterStopping
  <2>4. verdicts' = {[request |-> TheRequest, passed |-> FALSE]} /\ status' = "ROTATED"
    BY <1>2, <1>5 DEF VerifyResult, S!Verify
  <2>5. Passed \notin verdicts'
    BY <2>4 DEF Passed
  <2>6. Reached(graph.next)' /\ StoppedFor(graph.stop)'
    BY <1>2, <1>4, <2>2, <2>3, <2>4, <2>5 DEF Reached, StoppedFor
  <2>7. QED
    BY <1>1, <1>2, <1>4, <2>1, <2>6, NodeKeepsExact
<1>6. CASE ~graph.force
  <2>1. Leave("NONE")
    BY <1>3, <1>6 DEF VerifyResult
  <2>2. graph'.next = After(graph.next, "NONE", graph.mode) /\ graph'.stop = "NONE"
    BY <1>1, <2>1, LeavingRun
  <2>3. graph'.next = "generate_audit"
    BY <1>1, <2>2, AfterEachNode
  <2>4. status' = "VERIFIED"
    BY <1>2, <1>3, <1>6 DEF VerifyResult, S!Verify
  <2>5. Reached(graph.next)' /\ StoppedFor(graph.stop)'
    BY <1>2, <1>4, <2>2, <2>3, <2>4 DEF Reached, StoppedFor
  <2>6. QED
    BY <1>1, <1>2, <1>4, <2>1, <2>5, NodeKeepsExact
<1>7. QED
  BY <1>5, <1>6

\* The report of an intact chain is valid.
LEMMA GenerateAuditExact ==
    ASSUME RunInv, ExactInv, "checkpoint" \notin Faults, GenerateAudit
    PROVE  ExactInv'
<1>1. /\ call # NoCall /\ graph.next = "generate_audit" /\ Leave("NONE")
      /\ graph.next \in Nodes /\ "NONE" \in StopReasons
  BY DEF GenerateAudit, At, Nodes, StopReasons
<1>2. graph'.next = After(graph.next, "NONE", graph.mode) /\ graph'.stop = "NONE"
  BY <1>1, LeavingRun
<1>3. graph'.next = "close_incident"
  BY <1>1, <1>2, AfterEachNode
<1>4. status = "VERIFIED" /\ mock = S!RotatedMock /\ chainIntact
  BY <1>1 DEF ExactInv, Reached
<1>5. report' = "VALID" /\ UNCHANGED <<status, mock, chainIntact>>
  BY <1>4 DEF GenerateAudit, S!GenerateReport
<1>6. Reached(graph.next)' /\ StoppedFor(graph.stop)'
  BY <1>2, <1>3, <1>4, <1>5 DEF Reached, StoppedFor
<1>7. QED
  BY <1>1, <1>4, <1>5, <1>6, NodeKeepsExact

\* The incident can be closed, and is.
LEMMA CloseIncidentExact ==
    ASSUME RunInv, ExactInv, "checkpoint" \notin Faults, CloseIncident
    PROVE  ExactInv'
<1>1. /\ call # NoCall /\ graph.next = "close_incident" /\ Leave("CLOSED")
      /\ graph.next \in Nodes /\ "CLOSED" \in StopReasons
  BY DEF CloseIncident, At, Nodes, StopReasons
<1>2. graph'.next = After(graph.next, "CLOSED", graph.mode) /\ graph'.stop = "CLOSED"
  BY <1>1, LeavingRun
<1>3. graph'.next = "END"
  BY <1>1, <1>2, AfterEachNode
<1>4. mock = S!RotatedMock /\ chainIntact
  BY <1>1 DEF ExactInv, Reached
<1>5. status' = "CLOSED" /\ UNCHANGED <<mock, chainIntact>>
  BY DEF CloseIncident, S!Close
<1>6. Reached(graph.next)' /\ StoppedFor(graph.stop)'
  BY <1>2, <1>3, <1>4, <1>5 DEF Reached, StoppedFor
<1>7. QED
  BY <1>1, <1>4, <1>5, <1>6, NodeKeepsExact

-----------------------------------------------------------------------------
\* A start begins at the first node, which asks for nothing.
LEMMA StartExact ==
    ASSUME RunInv, ExactInv, "checkpoint" \notin Faults, NEW k \in Captures, NEW m \in S!Modes,
           NEW force \in BOOLEAN, NEW ok \in BOOLEAN, Start(k, m, force, ok)
    PROVE  ExactInv'
<1> DEFINE begun == [IdleGraph EXCEPT !.next = "ingest_event", !.mode = m,
                                      !.force = force, !.modelOk = ok]
<1>1. /\ call' = [NoCall EXCEPT !.kind = "start"] /\ graph' = begun /\ stage = "IDLE"
      /\ m = "COMPETITION_AUTONOMOUS" => AutonomousEnabled
      /\ UNCHANGED <<view, db, stage, cache>>
  BY DEF Start
<1>2. /\ begun.next = "ingest_event" /\ begun.stop = "NONE" /\ begun.mode = m
      /\ ~begun.missed
  BY DEF IdleGraph
<1>3. call'.kind = "start" /\ call' # NoCall
  BY <1>1 DEF NoCall
<1>4. Reached(graph.next)' /\ StoppedFor(graph.stop)'
  BY <1>1, <1>2 DEF Reached, StoppedFor
<1>5. StageFits'
  BY <1>1 DEF StageFits
<1>6. chainIntact' = chainIntact
  BY <1>1 DEF view
<1>7. QED
  BY <1>1, <1>2, <1>3, <1>4, <1>5, <1>6 DEF ExactInv

\* A decision finds the run where it paused.
LEMMA DecideExact ==
    ASSUME RunInv, ExactInv, "checkpoint" \notin Faults,
           NEW d \in {"APPROVED", "REJECTED"}, NEW q \in ReqIds, Decide(d, q)
    PROVE  ExactInv'
<1> DEFINE resumed == [graph EXCEPT !.next = saved.next, !.stop = saved.stop]
<1>1. /\ call = NoCall /\ stage = "WAITING_APPROVAL" /\ session # "broken"
      /\ request[TheRequest] # None
      /\ call' = [kind |-> "decide", decision |-> d, id |-> q] /\ graph' = resumed
      /\ UNCHANGED <<view, imported, db, saved, stage, cache>>
  BY DEF Decide
<1>2. UNCHANGED <<status, facts, mock, request, policy, approvals, preauth, execution,
                  verdicts, report, chainIntact>>
  BY <1>1 DEF view
<1>3. saved = [next |-> "wait_for_approval", stop |-> "NONE"]
  BY <1>1 DEF ExactInv
<1>4. /\ resumed.next = "wait_for_approval" /\ resumed.stop = "NONE"
      /\ resumed.mode = graph.mode /\ resumed.missed = graph.missed
  BY <1>3 DEF RunInv, TypeOK, GraphType
<1>5. Store = db
  BY <1>1 DEF RunInv, RestInv, ExactInv
<1>6. db.status # "NONE"
  <2>1. db # EmptyStore
    BY <1>1, <1>5 DEF Store, EmptyStore
  <2>2. QED
    BY <2>1 DEF RunInv, CommittedInv
<1>7. /\ Requested("ALLOW_WITH_APPROVAL") /\ graph.mode = "PRODUCTION_GUARDED"
      /\ db.mock = S!InitialMock
  BY <1>1, <1>5, <1>6 DEF ExactInv, StageFits, Requested, Store
<1>8. Reached(graph.next)' /\ StoppedFor(graph.stop)'
  BY <1>1, <1>2, <1>4, <1>7 DEF Reached, StoppedFor, Requested
<1>9. StageFits'
  BY <1>1, <1>4 DEF ExactInv, StageFits, Endorsed
<1>10. QED
  BY <1>1, <1>2, <1>3, <1>4, <1>7, <1>8, <1>9, NoneIsNoRow DEF ExactInv, NoCall

\* Between calls what is committed is what the run reports.
LEMMA FinishExact ==
    ASSUME RunInv, ExactInv, "checkpoint" \notin Faults, Finish
    PROVE  ExactInv'
<1> DEFINE left == [graph EXCEPT !.next = "END", !.stop = "NONE"]
<1>1. /\ call # NoCall
      /\ \/ graph.next = "END"
         \/ graph.next = "wait_for_approval" /\ call.kind = "start"
      /\ db' = Store /\ session' = "clean" /\ call' = NoCall /\ graph' = left
      /\ stage' = IF graph.next = "wait_for_approval" THEN "WAITING_APPROVAL"
                  ELSE IF graph.stop = "MODEL_UNAVAILABLE" /\ call.kind = "start"
                       THEN "MANUAL_REQUIRED"
                  ELSE graph.stop
      /\ UNCHANGED <<imported, saved>>
      /\ UNCHANGED <<status, facts, mock, request, policy, approvals, preauth, execution,
                     verdicts, report, chainIntact>>
  BY DEF Finish, Stopped, At, view
<1>2. /\ ~graph.missed /\ chainIntact /\ Reached(graph.next) /\ StoppedFor(graph.stop)
      /\ graph.mode = "COMPETITION_AUTONOMOUS" => AutonomousEnabled
  BY <1>1 DEF ExactInv
<1>3. left.mode = graph.mode /\ left.missed = graph.missed
  BY DEF RunInv, TypeOK, GraphType
<1>4. /\ graph.stop \in StopReasons
      /\ graph.next = "END" => graph.stop # "NONE"
      /\ call.kind \in {"start", "decide"}
      /\ call.kind = "decide" => graph.stop # "MODEL_UNAVAILABLE"
  BY <1>1, CallKinds DEF RunInv, TypeOK, GraphType, CallInv, Fits, DecideInv, Resumable
<1>5. CASE graph.next = "wait_for_approval"
  <2>1. Requested("ALLOW_WITH_APPROVAL") /\ graph.mode = "PRODUCTION_GUARDED"
    BY <1>2, <1>5 DEF Reached
  <2>2. stage' = "WAITING_APPROVAL"
    BY <1>1, <1>5
  <2>3. StageFits'
    BY <1>1, <1>3, <2>1, <2>2 DEF StageFits, Requested, Store
  <2>4. saved = [next |-> "wait_for_approval", stop |-> "NONE"]
    BY <1>1, <1>2, <1>5 DEF RunInv, CallInv, Fits
  <2>5. QED
    BY <1>1, <1>2, <1>3, <2>3, <2>4 DEF ExactInv, Store, NoCall
<1>6. CASE graph.next = "END"
  <2>1. /\ graph.stop \in {"MODEL_UNAVAILABLE", "HUMAN_REJECTED",
                           "VERIFICATION_FAILED_REPLAN", "CLOSED"}
        /\ stage' = IF graph.stop = "MODEL_UNAVAILABLE" THEN "MANUAL_REQUIRED" ELSE graph.stop
    BY <1>1, <1>2, <1>4, <1>6 DEF StopReasons, StoppedFor
  <2>2. Endorsed(db)' <=> Endorsed(Store)
    BY <1>1 DEF Endorsed
  <2>3. StageFits'
    BY <1>1, <1>2, <2>1, <2>2 DEF StageFits, StoppedFor, Pristine, Store
  <2>4. QED
    BY <1>1, <1>2, <1>3, <2>1, <2>3 DEF ExactInv, Store, NoCall
<1>7. QED
  BY <1>1, <1>5, <1>6

\* The store alone decides what a runtime shows that has just started, or whose
\* session has just been given back what is committed.
LEMMA LoadedExact ==
    ASSUME RunInv, ExactInv,
           ~graph'.missed, graph'.mode = "COMPETITION_AUTONOMOUS" => AutonomousEnabled,
           call' = NoCall, chainIntact', db'.chainIntact, StageFits',
           session' # "dirty",
           \/ stage' = "IDLE" \/ session' = "broken" \/ request'[TheRequest] = None
    PROVE  ExactInv'
BY DEF ExactInv, NoCall

\* No step breaks the exact invariant where no checkpoint write is lost.
LEMMA ExactStep ==
    ASSUME RunInv, ExactInv, "checkpoint" \notin Faults, [Next]_vars
    PROVE  ExactInv'
<1>1. ASSUME NEW k \in Captures, NEW m \in S!Modes, NEW force \in BOOLEAN,
             NEW ok \in BOOLEAN, Start(k, m, force, ok)
      PROVE  ExactInv'
  BY <1>1, StartExact
<1>2. ASSUME NEW k \in Captures, StartImportFails(k)
      PROVE  ExactInv'
  <2>1. UNCHANGED <<view, imported, db, saved, stage, cache, call, graph>> /\ stage = "IDLE"
        /\ session' = "broken"
    BY <1>2 DEF StartImportFails
  <2>2. StageFits' /\ chainIntact' = chainIntact
    BY <2>1 DEF ExactInv, StageFits, Endorsed, view
  <2>3. call = NoCall
    BY <1>2 DEF StartImportFails
  <2>4. QED
    BY <2>1, <2>2, <2>3, LoadedExact DEF ExactInv
<1>3. ASSUME NEW d \in {"APPROVED", "REJECTED"}, NEW q \in ReqIds, Decide(d, q)
      PROVE  ExactInv'
  BY <1>3, DecideExact
<1>4. CASE Step
  <2>1. CASE CreateIncidentFails
    <3>1. call # NoCall /\ graph.next = "create_incident" /\ Abandon /\ UNCHANGED view
      BY <2>1 DEF CreateIncidentFails, At
    <3>2. stage = "IDLE"
      BY <3>1, WhoRuns DEF Deciding
    <3>3. /\ call' = NoCall
          /\ graph' = [graph EXCEPT !.next = "END", !.stop = "NONE", !.missed = FALSE]
          /\ UNCHANGED <<imported, db, saved, session, stage, cache>>
          /\ chainIntact' = chainIntact
      BY <3>1 DEF Abandon, view
    <3>4. ~graph'.missed /\ graph'.mode = graph.mode
      BY <3>3 DEF RunInv, TypeOK, GraphType
    <3>5. StageFits'
      BY <3>2, <3>3 DEF StageFits
    <3>6. QED
      BY <3>2, <3>3, <3>4, <3>5 DEF ExactInv, NoCall
  <2>2. CASE CloseIncidentFails
    <3>1. call # NoCall /\ graph.next = "close_incident" /\ ~S!CanClose
      BY <2>2 DEF CloseIncidentFails, At
    <3>2. status = "VERIFIED" /\ report = "VALID" /\ chainIntact
      BY <3>1 DEF ExactInv, Reached
    <3>3. QED
      BY <3>1, <3>2 DEF S!CanClose
  <2>3. QED
    BY <1>4, <2>1, <2>2, IngestEventExact, BookkeepingExact, CreateIncidentExact,
       PlanInvestigationExact, EvaluateFactsExact, BuildActionRequestExact,
       PolicyCheckExact, WaitForApprovalExact, AutonomousPreauthorizationExact,
       ExecuteActionExact, VerifyResultExact, GenerateAuditExact, CloseIncidentExact
       DEF Step
<1>5. CASE Finish
  BY <1>5, FinishExact
<1>6. CASE FinishFails
  BY <1>6 DEF FinishFails, ExactInv
<1>7. CASE StoreFails
  <2>1. /\ Load(db) /\ session' = "broken" /\ call' = NoCall
        /\ graph' = [graph EXCEPT !.next = "END", !.stop = "NONE", !.missed = FALSE]
        /\ UNCHANGED <<db, saved, stage, cache>>
    BY <1>7 DEF StoreFails
  <2>2. ~graph'.missed /\ graph'.mode = graph.mode
    BY <2>1 DEF RunInv, TypeOK, GraphType
  <2>3. chainIntact' /\ db'.chainIntact
    BY <2>1 DEF Load, ExactInv
  <2>4. StageFits'
    BY <2>1, <2>2 DEF ExactInv, StageFits, Endorsed
  <2>5. QED
    BY <2>1, <2>2, <2>3, <2>4, LoadedExact DEF ExactInv
<1>8. CASE Restart
  <2>1. /\ Load(db) /\ session' = "none" /\ call' = NoCall /\ graph' = IdleGraph
        /\ stage' = "IDLE" /\ db' = db
    BY <1>8 DEF Restart
  <2>2. chainIntact' /\ db'.chainIntact
    BY <2>1 DEF Load, ExactInv
  <2>3. StageFits'
    BY <2>1 DEF StageFits
  <2>4. ~IdleGraph.missed /\ IdleGraph.mode = "PRODUCTION_GUARDED"
    BY DEF IdleGraph
  <2>5. QED
    BY <2>1, <2>2, <2>3, <2>4, LoadedExact
<1>9. CASE Reset
  <2>1. /\ Load(EmptyStore) /\ session' = "none" /\ call' = NoCall /\ graph' = IdleGraph
        /\ stage' = "IDLE" /\ db' = EmptyStore
    BY <1>9 DEF Reset
  <2>2. chainIntact' /\ db'.chainIntact
    BY <2>1 DEF Load, EmptyStore
  <2>3. StageFits'
    BY <2>1 DEF StageFits
  <2>4. ~IdleGraph.missed /\ IdleGraph.mode = "PRODUCTION_GUARDED"
    BY DEF IdleGraph
  <2>5. QED
    BY <2>1, <2>2, <2>3, <2>4, LoadedExact
<1>10. CASE ResetFails
  <2>1. /\ Load(EmptyStore) /\ session' # "dirty" /\ call = NoCall /\ db' = EmptyStore
        /\ UNCHANGED <<stage, cache, call, graph>>
    BY <1>10 DEF ResetFails
  <2>2. chainIntact' /\ db'.chainIntact /\ request'[TheRequest] = None /\ db'.status = "NONE"
    BY <2>1 DEF Load, EmptyStore
  <2>3. StageFits'
    BY <2>2 DEF StageFits
  <2>4. QED
    BY <2>1, <2>2, <2>3, LoadedExact DEF ExactInv
<1>11. CASE UNCHANGED vars
  <2>1. /\ UNCHANGED <<imported, db, saved, session, stage, cache, call, graph>>
        /\ UNCHANGED <<status, facts, mock, request, policy, approvals, preauth,
                       execution, verdicts, report, chainIntact>>
    BY <1>11 DEF vars, view, process
  <2>2. /\ Reached(graph.next)' <=> Reached(graph.next)
        /\ StoppedFor(graph.stop)' <=> StoppedFor(graph.stop)
        /\ StageFits' <=> StageFits
    BY <2>1 DEF Reached, Pristine, Requested, StoppedFor, Endorsed, Store, StageFits
  <2>3. QED
    BY <2>1, <2>2 DEF ExactInv
<1>12. QED
  BY <1>1, <1>2, <1>3, <1>4, <1>5, <1>6, <1>7, <1>8, <1>9, <1>10, <1>11 DEF Next

\* Where no checkpoint write is lost, stage, position and store fit together
\* exactly.
THEOREM RunsAreExact ==
    ASSUME "checkpoint" \notin Faults
    PROVE  Spec => []ExactInv
<1>1. Init => ExactInv
  <2> SUFFICES ASSUME Init
               PROVE  ExactInv
    OBVIOUS
  <2>1. /\ chainIntact /\ db = EmptyStore /\ call = NoCall /\ graph = IdleGraph
        /\ stage = "IDLE" /\ session = "none"
    BY DEF Init, S!Init
  <2>2. db.chainIntact /\ db.status = "NONE"
    BY <2>1 DEF EmptyStore
  <2>3. ~graph.missed /\ graph.mode = "PRODUCTION_GUARDED"
    BY <2>1 DEF IdleGraph
  <2>4. call.kind = "none"
    BY <2>1 DEF NoCall
  <2>5. QED
    BY <2>1, <2>2, <2>3, <2>4 DEF ExactInv, StageFits
<1>2. RunInv /\ ExactInv /\ [Next]_vars => ExactInv'
  BY ExactStep
<1>3. QED
  BY <1>1, <1>2, RunsHoldTogether, PTL DEF Spec

\* Between calls the reported stage describes the committed store, where no
\* checkpoint write is lost (the stage table of docs/13 section 4.4).
THEOREM StagesAreTruthful ==
    ASSUME "checkpoint" \notin Faults
    PROVE  Spec => []StageTruthful
<1>1. ExactInv => StageTruthful
  BY DEF ExactInv, StageFits, StageTruthful
<1>2. QED
  BY <1>1, RunsAreExact, PTL

-----------------------------------------------------------------------------
\* What the runtime reports at each of the stages that a run ends in.
LEMMA WhatIsReported ==
    /\ stage = "IDLE" => Reported = "idle"
    /\ stage = "WAITING_APPROVAL" => Reported = "waiting"
    /\ stage = "HUMAN_REJECTED" => Reported = "rejected"
    /\ stage = "CLOSED" => Reported = "closed"
    /\ stage = "VERIFICATION_FAILED_REPLAN" => Reported = "replan"
    /\ stage = "MANUAL_REQUIRED" => Reported = "manual"
BY DEF Reported

\* A returning call is a step of the operator's view: a start pauses or
\* contains, a decision rejects or contains, and neither does so twice.
LEMMA FinishPromises ==
    ASSUME RunInv, ExactInv, Finish
    PROVE  Outcome!Next
<1>1. /\ call # NoCall
      /\ \/ graph.next = "END"
         \/ graph.next = "wait_for_approval" /\ call.kind = "start"
      /\ db' = Store
      /\ stage' = IF graph.next = "wait_for_approval" THEN "WAITING_APPROVAL"
                  ELSE IF graph.stop = "MODEL_UNAVAILABLE" /\ call.kind = "start"
                       THEN "MANUAL_REQUIRED"
                  ELSE graph.stop
  BY DEF Finish, Stopped, At
<1>2. Reached(graph.next) /\ StoppedFor(graph.stop)
  BY <1>1 DEF ExactInv
<1>3. db'.mock = mock
  BY <1>1 DEF Store
<1>4. /\ graph.stop \in StopReasons
      /\ graph.next = "END" => graph.stop # "NONE"
      /\ call.kind \in {"start", "decide"}
      /\ call.kind = "decide" => stage = "WAITING_APPROVAL" /\ graph.stop # "MODEL_UNAVAILABLE"
      /\ call.kind = "start" => stage = "IDLE" /\ graph.stop # "HUMAN_REJECTED"
  BY <1>1, CallKinds
  DEF RunInv, ExactInv, TypeOK, GraphType, CallInv, Fits, StartInv, DecideInv, Resumable
<1>5. db.mock # S!RotatedMock
  <2>1. CASE call.kind = "start"
    <3>1. db = EmptyStore
      BY <1>1, <2>1 DEF RunInv, StartInv, Opening
    <3>2. QED
      BY <3>1, NoneIsNoRow DEF EmptyStore
  <2>2. CASE call.kind = "decide"
    BY <2>2 DEF ExactInv
  <2>3. QED
    BY <1>4, <2>1, <2>2
<1>6. /\ call.kind = "start" => Reported = "idle"
      /\ call.kind = "decide" => Reported = "waiting"
  BY <1>4, WhatIsReported
<1>7. /\ stage' = "WAITING_APPROVAL" => Reported' = "waiting"
      /\ stage' = "HUMAN_REJECTED" => Reported' = "rejected"
      /\ stage' = "CLOSED" => Reported' = "closed"
      /\ stage' = "VERIFICATION_FAILED_REPLAN" => Reported' = "replan"
      /\ stage' = "MANUAL_REQUIRED" => Reported' = "manual"
  BY DEF Reported
<1>8. CASE graph.next = "wait_for_approval"
  <2>1. mock = S!InitialMock /\ call.kind = "start" /\ stage' = "WAITING_APPROVAL"
    BY <1>1, <1>2, <1>8 DEF Reached, Requested
  <2>2. Outcome!Pause
    BY <1>3, <1>5, <1>6, <1>7, <2>1, NoneIsNoRow DEF Outcome!Pause
  <2>3. QED
    BY <2>2 DEF Outcome!Next
<1>9. CASE graph.next = "END" /\ graph.stop = "MODEL_UNAVAILABLE"
  <2>1. mock = S!InitialMock /\ call.kind = "start" /\ stage' = "MANUAL_REQUIRED"
    BY <1>1, <1>2, <1>4, <1>9 DEF StoppedFor, Pristine
  <2>2. Outcome!Pause
    BY <1>3, <1>5, <1>6, <1>7, <2>1, NoneIsNoRow DEF Outcome!Pause
  <2>3. QED
    BY <2>2 DEF Outcome!Next
<1>10. CASE graph.next = "END" /\ graph.stop = "HUMAN_REJECTED"
  <2>1. mock = S!InitialMock /\ call.kind = "decide" /\ stage' = "HUMAN_REJECTED"
    BY <1>1, <1>2, <1>4, <1>10 DEF StoppedFor
  <2>2. Outcome!Reject
    BY <1>3, <1>5, <1>6, <1>7, <2>1, NoneIsNoRow DEF Outcome!Reject
  <2>3. QED
    BY <2>2 DEF Outcome!Next
<1>11. CASE graph.next = "END" /\ graph.stop \in {"VERIFICATION_FAILED_REPLAN", "CLOSED"}
  <2>1. mock = S!RotatedMock /\ stage' = graph.stop
    BY <1>1, <1>2, <1>11 DEF StoppedFor
  <2>2. Outcome!Contain
    BY <1>3, <1>4, <1>5, <1>6, <1>7, <1>11, <2>1 DEF Outcome!Contain
  <2>3. QED
    BY <2>2 DEF Outcome!Next
<1>12. QED
  BY <1>1, <1>2, <1>4, <1>8, <1>9, <1>10, <1>11 DEF StopReasons, StoppedFor

\* Every step of a run is a step of the operator's view or leaves it alone.
LEMMA PromisesStep ==
    ASSUME RunInv, ExactInv, [Next]_vars
    PROVE  [Outcome!Next]_(Outcome!vars)
<1>1. ASSUME UNCHANGED <<stage, db>>
      PROVE  UNCHANGED Outcome!vars
  BY <1>1 DEF Outcome!vars, Reported
<1>2. ASSUME NEW k \in Captures, NEW m \in S!Modes, NEW force \in BOOLEAN,
             NEW ok \in BOOLEAN, Start(k, m, force, ok)
      PROVE  UNCHANGED Outcome!vars
  BY <1>1, <1>2 DEF Start
<1>3. ASSUME NEW k \in Captures, StartImportFails(k)
      PROVE  UNCHANGED Outcome!vars
  BY <1>1, <1>3 DEF StartImportFails
<1>4. ASSUME NEW d \in {"APPROVED", "REJECTED"}, NEW q \in ReqIds, Decide(d, q)
      PROVE  UNCHANGED Outcome!vars
  BY <1>1, <1>4 DEF Decide
<1>5. CASE Step
  <2>1. UNCHANGED <<stage, db>>
    BY <1>5 DEF Step, IngestEvent, Bookkeeping, CreateIncident, CreateIncidentFails,
                PlanInvestigation, EvaluateFacts, BuildActionRequest, PolicyCheck,
                WaitForApproval, AutonomousPreauthorization, ExecuteAction, VerifyResult,
                GenerateAudit, CloseIncident, CloseIncidentFails, Leave, Abandon
  <2>2. QED
    BY <1>1, <2>1
<1>6. CASE FinishFails \/ StoreFails
  BY <1>1, <1>6 DEF FinishFails, StoreFails, Abandon
<1>7. CASE Finish
  BY <1>7, FinishPromises
<1>8. CASE Restart
  <2>1. stage' = "IDLE" /\ db' = db
    BY <1>8 DEF Restart
  <2>2. Outcome!Lose
    BY <2>1 DEF Outcome!Lose, Reported
  <2>3. QED
    BY <2>2 DEF Outcome!Next
<1>9. CASE Reset \/ ResetFails
  <2>1. db' = EmptyStore /\ stage' \in {stage, "IDLE"}
    BY <1>9 DEF Reset, ResetFails
  <2>2. db'.mock # S!RotatedMock
    BY <2>1, NoneIsNoRow DEF EmptyStore
  <2>3. Reported' \in {Reported, "idle"}
    BY <2>1 DEF Reported
  <2>4. Outcome!Wipe
    BY <2>2, <2>3 DEF Outcome!Wipe
  <2>5. QED
    BY <2>4 DEF Outcome!Next
<1>10. CASE UNCHANGED vars
  BY <1>1, <1>10 DEF vars, process
<1>11. QED
  BY <1>2, <1>3, <1>4, <1>5, <1>6, <1>7, <1>8, <1>9, <1>10 DEF Next

\* A run keeps the operator's promises, where no checkpoint write is lost.
THEOREM ImplementsRunOutcome ==
    ASSUME "checkpoint" \notin Faults
    PROVE  Spec => KeepsPromises
<1>1. Init => Outcome!Init
  BY NoneIsNoRow, WhatIsReported DEF Init, EmptyStore, Outcome!Init
<1>2. RunInv /\ ExactInv /\ [Next]_vars => [Outcome!Next]_(Outcome!vars)
  BY PromisesStep
<1>3. QED
  BY <1>1, <1>2, RunsHoldTogether, RunsAreExact, PTL DEF Spec, KeepsPromises, Outcome!Spec

=============================================================================
