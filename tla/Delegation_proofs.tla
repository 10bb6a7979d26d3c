--------------------------- MODULE Delegation_proofs ---------------------------
(***************************************************************************)
(* Theorems about Delegation, for any evidence, any plans and answers of   *)
(* the models, and any bounds: type correctness, its safety invariants,    *)
(* and that delegation implements NeedToKnow.                              *)
(***************************************************************************)
EXTENDS Delegation, SequenceTheorems, TLAPS

\* A record added to a table: the table is longer by it and otherwise the same.
LEMMA Appended ==
    ASSUME NEW S, NEW s \in Seq(S), NEW x \in S
    PROVE  /\ Append(s, x) \in Seq(S)
           /\ DOMAIN Append(s, x) = DOMAIN s \cup {Len(s) + 1}
           /\ Len(s) + 1 \notin DOMAIN s /\ Len(s) \in Nat
           /\ DOMAIN s = 1..Len(s)
           /\ Append(s, x)[Len(s) + 1] = x
           /\ \A i \in DOMAIN s: Append(s, x)[i] = s[i]
           /\ Range(Append(s, x)) = Range(s) \cup {x}
<1>1. /\ Append(s, x) \in Seq(S) /\ Len(Append(s, x)) = Len(s) + 1
      /\ Append(s, x)[Len(s) + 1] = x /\ \A i \in 1..Len(s): Append(s, x)[i] = s[i]
  BY AppendProperties
<1>2. DOMAIN s = 1..Len(s) /\ DOMAIN Append(s, x) = 1..Len(Append(s, x)) /\ Len(s) \in Nat
  BY <1>1, LenProperties
<1>3. DOMAIN Append(s, x) = DOMAIN s \cup {Len(s) + 1} /\ Len(s) + 1 \notin DOMAIN s
  BY <1>1, <1>2
<1>4. Range(Append(s, x)) = Range(s) \cup {x}
  BY <1>1, <1>2, <1>3 DEF Range
<1>5. QED
  BY <1>1, <1>2, <1>3, <1>4

\* The evidence table with a new record (EvidenceRepository.add).
LEMMA Added ==
    ASSUME NEW record, record.id \notin DOMAIN evidence, Add(record)
    PROVE  /\ DOMAIN evidence' = DOMAIN evidence \cup {record.id}
           /\ evidence'[record.id] = record
           /\ \A e \in DOMAIN evidence: evidence'[e] = evidence[e]
BY DEF Add

-----------------------------------------------------------------------------
(* Type correctness *)

\* A sequence that is not empty has elements.
LEMMA RangeOfNonEmpty ==
    ASSUME NEW S, NEW s \in Seq(S), s # <<>>
    PROVE  Range(s) # {}
<1>1. 1 \in DOMAIN s
  BY EmptySeq, LenProperties
<1>2. QED
  BY <1>1 DEF Range

\* A task of the right type whose parent is in the table, or is the system.
LEMMA TypeOfNewTask ==
    ASSUME TypeOK, NEW task \in Task, task.parent <= Len(tasks), tasks' = Append(tasks, task),
           UNCHANGED <<evidence, findings, results, facts, read, signals>>
    PROVE  TypeOK'
<1>1. /\ tasks' \in Seq(Task) /\ DOMAIN tasks' = DOMAIN tasks \cup {Len(tasks) + 1}
      /\ tasks'[Len(tasks) + 1] = task /\ \A i \in DOMAIN tasks: tasks'[i] = tasks[i]
      /\ Len(tasks) \in Nat /\ task.parent \in Nat
  <2>1. tasks \in Seq(Task)
    BY DEF TypeOK
  <2>2. /\ tasks' \in Seq(Task) /\ DOMAIN tasks' = DOMAIN tasks \cup {Len(tasks) + 1}
        /\ tasks'[Len(tasks) + 1] = task /\ \A i \in DOMAIN tasks: tasks'[i] = tasks[i]
    BY <2>1, Appended
  <2>3. Len(tasks) \in Nat
    BY <2>1, LenProperties
  <2>4. task.parent \in Nat
    BY DEF Task
  <2>5. QED
    BY <2>2, <2>3, <2>4
<1>2. \A t \in DOMAIN tasks': tasks'[t].parent < t
  BY <1>1 DEF TypeOK
<1>3. FindingType \subseteq FindingType' /\ ResultType \subseteq ResultType'
  BY <1>1 DEF FindingType, ResultType
<1>4. findings' \in Seq(FindingType') /\ results' \in Seq(ResultType')
  <2>1. findings' \in Seq(FindingType) /\ results' \in Seq(ResultType)
    BY DEF TypeOK
  <2>2. QED
    BY <1>3, <2>1, SeqMonotonic
<1>5. \A f \in Range(findings'): f.incident = tasks'[f.task].incident
  <2>1. \A f \in Range(findings): f.task \in DOMAIN tasks
    <3>1. \A f \in Range(findings): f \in FindingType
      BY DEF TypeOK, Range
    <3>2. QED
      BY <3>1 DEF FindingType
  <2>2. QED
    BY <1>1, <2>1 DEF TypeOK
<1>6. read' \subseteq (DOMAIN tasks') \X (DOMAIN evidence')
  BY <1>1 DEF TypeOK
<1>7. QED
  BY <1>1, <1>2, <1>4, <1>5, <1>6 DEF TypeOK, FindingType, ResultType

\* A result with the finding it cites, or without one.
LEMMA TypeOfConclusion ==
    ASSUME TypeOK, NEW t \in DOMAIN tasks, NEW kind \in FindingKinds,
           NEW status \in {"COMPLETED", "MANUAL_REQUIRED"},
           NEW refs \in (SUBSET Evidence) \ {{}}, Concludes(t, kind, status, refs),
           UNCHANGED <<evidence, tasks, facts, signals>>,
           read' \subseteq (DOMAIN tasks) \X (DOMAIN evidence)
    PROVE  TypeOK'
<1>1. tasks[t] \in Task
  BY DEF TypeOK
<1>2. Finding(t, kind, refs) \in FindingType
  BY <1>1 DEF Finding, FindingType, Task
<1>3. /\ findings' \in Seq(FindingType) /\ DOMAIN findings' = DOMAIN findings \cup {Len(findings) + 1}
      /\ Range(findings') = Range(findings) \cup {Finding(t, kind, refs)}
  <2>1. findings \in Seq(FindingType) /\ findings' = Append(findings, Finding(t, kind, refs))
    BY DEF TypeOK, Concludes
  <2>2. QED
    BY <1>2, <2>1, Appended
<1>4. ResultType \subseteq ResultType' /\ FindingType' = FindingType
  BY <1>3 DEF ResultType, FindingType
<1>5. Result(t, status, {Len(findings) + 1}, refs) \in ResultType'
  BY <1>1, <1>3 DEF Result, ResultType, Task
<1>6. results' \in Seq(ResultType')
  <2>1. results \in Seq(ResultType)
    BY DEF TypeOK
  <2>2. results \in Seq(ResultType')
    BY <1>4, <2>1, SeqMonotonic
  <2>3. QED
    BY <1>5, <2>2, Appended DEF Concludes
<1>7. \A f \in Range(findings'): f.incident = tasks'[f.task].incident
  BY <1>3 DEF TypeOK, Finding
<1>8. QED
  BY <1>3, <1>4, <1>6, <1>7 DEF TypeOK, FindingType, ResultType

\* A result without findings keeps the types.
LEMMA TypeOfResult ==
    ASSUME TypeOK, NEW t \in DOMAIN tasks, NEW status \in {"COMPLETED", "MANUAL_REQUIRED"},
           NEW refs \in SUBSET Evidence, results' = Append(results, Result(t, status, {}, refs)),
           UNCHANGED <<evidence, tasks, findings, facts>>, DOMAIN signals' \subseteq DOMAIN evidence,
           read' \subseteq (DOMAIN tasks) \X (DOMAIN evidence)
    PROVE  TypeOK'
<1>1. tasks[t] \in Task
  BY DEF TypeOK
<1>2. Result(t, status, {}, refs) \in ResultType
  BY <1>1 DEF Result, ResultType, Task
<1>3. results' \in Seq(ResultType)
  BY <1>2, Appended DEF TypeOK
<1>4. FindingType' = FindingType /\ ResultType' = ResultType
  BY DEF FindingType, ResultType
<1>5. QED
  BY <1>3, <1>4 DEF TypeOK

\* What a task reads is evidence of the table.
LEMMA LearntIsStored ==
    ASSUME TypeOK, NEW t \in DOMAIN tasks
    PROVE  Learnt(t) \subseteq (DOMAIN tasks) \X (DOMAIN evidence)
<1>1. \A n \in ReadIndexes(t): n \in DOMAIN tasks[t].refs /\ n \in 1..n
  <2>1. tasks[t].refs \in Seq(Evidence)
    <3>1. tasks[t] \in Task
      BY DEF TypeOK
    <3>2. QED
      BY <3>1 DEF Task
  <2>2. DOMAIN tasks[t].refs \subseteq Nat \ {0}
    BY <2>1
  <2>3. QED
    BY <2>2 DEF ReadIndexes
<1>2. \A n \in ReadIndexes(t): MayRead(tasks[t].refs[n], tasks[t].agent, tasks[t].incident)
  BY <1>1 DEF ReadIndexes
<1>3. QED
  BY <1>1, <1>2 DEF Learnt, MayRead

\* A step that leaves the tables and adds no reads.
LEMMA TypeUnchanged ==
    ASSUME TypeOK, UNCHANGED <<evidence, tasks, findings, results, facts, signals>>, read' \subseteq (DOMAIN tasks) \X (DOMAIN evidence)
    PROVE  TypeOK'
<1>1. FindingType' = FindingType /\ ResultType' = ResultType
  BY DEF FindingType, ResultType
<1>2. QED
  BY <1>1 DEF TypeOK

\* A task that plans make: of the right type, with sanctioned tools, and
\* granted no more than the task that made it.
LEMMA TypeOfChild ==
    ASSUME TypeOK, NEW t \in DOMAIN tasks, NEW plan \in Plans, plan.action \in DOMAIN ChildAgent
    PROVE  Child(t, plan) \in Task
<1>1. tasks[t] \in Task
  BY DEF TypeOK
<1>2. ChildAgent[plan.action] \in AgentTypes
  BY DEF ChildAgent, AgentTypes
<1>3. /\ plan.refs \in Seq(Evidence) /\ plan.facts \in SUBSET FactTypes
      /\ plan.tools \in Seq(Tools)
  BY DataAssumption
<1>4. Range(plan.tools) \in SUBSET Tools
  BY <1>3 DEF Range
<1>5. t \in Nat
  BY DEF TypeOK
<1>6. QED
  BY <1>1, <1>2, <1>3, <1>4, <1>5 DEF Child, Task

\* A task that the workflow makes of an investigated one.
LEMMA TypeOfTraceTask ==
    ASSUME TypeOK, NEW t \in DOMAIN tasks
    PROVE  TraceTask(t) \in Task
<1>1. tasks[t] \in Task /\ t \in Nat
  BY DEF TypeOK
<1>2. {"get_evidence", "build_timeline"} \in SUBSET Tools /\ {} \in SUBSET FactTypes
  <2>1. {"get_evidence", "build_timeline"} \subseteq DOMAIN Registry
    BY DEF Registry
  <2>2. QED
    BY <2>1, DataAssumption
<1>3. "TRACE_AGENT" \in AgentTypes
  BY DEF AgentTypes
<1>4. QED
  BY <1>1, <1>2, <1>3 DEF TraceTask, Task

\* A step keeps every table in its type.
LEMMA TypeStep ==
    ASSUME TypeOK, [Next]_vars
    PROVE  TypeOK'
<1>1. \A t \in DOMAIN tasks:
         /\ tasks[t] \in Task /\ t \in Nat /\ t <= Len(tasks)
         /\ Range(tasks[t].refs) \subseteq Evidence
         /\ tasks[t].refs # <<>> => Range(tasks[t].refs) # {}
  <2>1. \A t \in DOMAIN tasks: tasks[t] \in Task /\ t \in Nat /\ t <= Len(tasks)
    BY DEF TypeOK
  <2>2. \A t \in DOMAIN tasks: tasks[t].refs \in Seq(Evidence)
    BY <2>1 DEF Task
  <2>3. ASSUME NEW t \in DOMAIN tasks
        PROVE  /\ Range(tasks[t].refs) \subseteq Evidence
               /\ tasks[t].refs # <<>> => Range(tasks[t].refs) # {}
    <3>1. tasks[t].refs \in Seq(Evidence)
      BY <2>2, <2>3
    <3>2. Range(tasks[t].refs) \subseteq Evidence
      BY <3>1, RangeOfSeq
    <3>3. tasks[t].refs # <<>> => Range(tasks[t].refs) # {}
      BY <3>1, RangeOfNonEmpty
    <3>4. QED
      BY <3>2, <3>3
  <2>4. QED
    BY <2>1, <2>3
<1>2. ASSUME NEW record \in Records, record.id \notin DOMAIN evidence, Add(record), UNCHANGED <<tables, read>>
      PROVE  TypeOK'
  <2>1. FindingType' = FindingType /\ ResultType' = ResultType
    BY <1>2 DEF FindingType, ResultType, tables
  <2>2. QED
    <3>1. /\ DOMAIN evidence' = DOMAIN evidence \cup {record.id} /\ evidence'[record.id] = record
          /\ \A e \in DOMAIN evidence: evidence'[e] = evidence[e]
      BY <1>2, Added
    <3>2. \A e \in DOMAIN evidence': evidence'[e] \in Records /\ evidence'[e].id = e
      BY <3>1 DEF TypeOK
    <3>3. read' \subseteq (DOMAIN tasks') \X (DOMAIN evidence')
      BY <1>2, <3>1 DEF TypeOK, tables
    <3>4. QED
      BY <1>2, <2>1, <3>1, <3>2, <3>3 DEF TypeOK, tables
<1>3. ASSUME NEW t \in DOMAIN tasks, read' = read \cup Learnt(t)
      PROVE  read' \subseteq (DOMAIN tasks) \X (DOMAIN evidence)
  BY <1>3, LearntIsStored DEF TypeOK
<1>4. ASSUME UNCHANGED <<evidence, tables>>, read' \subseteq (DOMAIN tasks) \X (DOMAIN evidence)
      PROVE  TypeOK'
  BY <1>4, TypeUnchanged DEF tables
<1>5. ASSUME UNCHANGED <<evidence, tables, read>>
      PROVE  TypeOK'
  BY <1>4, <1>5 DEF TypeOK
<1>6. CASE EvidenceSteps
  <2>1. ASSUME NEW record \in Records, CreateEvidence(record)
        PROVE  TypeOK'
    BY <1>2, <2>1 DEF CreateEvidence
  <2>2. ASSUME NEW record \in Records, NEW original \in DOMAIN evidence, NEW context \in Contexts,
               AppendCorrection(original, record, context.agent, context.incident)
        PROVE  TypeOK'
    BY <1>2, <1>5, <2>2 DEF AppendCorrection
  <2>3. QED
    BY <1>6, <2>1, <2>2 DEF EvidenceSteps, Originals
<1>7. ASSUME NEW task \in IssuedTasks, IssueTask(task)
      PROVE  TypeOK'
  <2>1. task \in Task /\ task.parent = 0 /\ Len(tasks) \in Nat
    BY DataAssumption DEF TypeOK
  <2>2. QED
    BY <1>7, <2>1, TypeOfNewTask DEF IssueTask
<1>8. ASSUME NEW t \in DOMAIN tasks, PlanUnavailable(t) \/ ReadRefused(t)
      PROVE  TypeOK'
  BY <1>3, <1>4, <1>5, <1>8 DEF PlanUnavailable, ReadRefused
<1>9. ASSUME NEW t \in DOMAIN tasks, NEW plan \in Plans, PlanTask(t, plan)
      PROVE  TypeOK'
  <2>1. CASE UNCHANGED tasks
    BY <1>5, <1>9, <2>1 DEF PlanTask, tables
  <2>2. CASE plan.action \in DOMAIN ChildAgent /\ tasks' = Append(tasks, Child(t, plan))
    <3>1. Child(t, plan) \in Task /\ Child(t, plan).parent = t
      BY <2>2, TypeOfChild DEF Child
    <3>2. QED
      BY <1>1, <1>9, <2>2, <3>1, TypeOfNewTask DEF PlanTask
  <2>3. QED
    BY <1>9, <2>1, <2>2 DEF PlanTask
<1>10. ASSUME NEW t \in DOMAIN tasks, InvestigateManually(t)
       PROVE  TypeOK'
  <2>1. read' \subseteq (DOMAIN tasks) \X (DOMAIN evidence) /\ DOMAIN signals' \subseteq DOMAIN evidence
    BY <1>3, <1>10 DEF InvestigateManually, Investigates, TypeOK
  <2>2. /\ results' = Append(results, Result(t, "MANUAL_REQUIRED", {}, {}))
        /\ UNCHANGED <<evidence, tasks, findings, facts>>
    BY <1>10 DEF InvestigateManually
  <2>3. QED
    BY <2>1, <2>2, TypeOfResult
<1>11. ASSUME NEW t \in DOMAIN tasks, NEW refs \in Answers, NEW attempt \in 1..2,
              Investigate(t, refs, attempt)
       PROVE  TypeOK'
  <2>1. refs \in (SUBSET Evidence) \ {{}}
    BY DataAssumption
  <2>2. CASE UNCHANGED <<findings, results>>
    BY <1>3, <1>4, <1>11, <2>2 DEF Investigate, Investigates, tables
  <2>3. CASE Concludes(t, "INVESTIGATION_FINDING", "COMPLETED", refs)
    <3>1. /\ read' \subseteq (DOMAIN tasks) \X (DOMAIN evidence)
          /\ UNCHANGED <<evidence, tasks, facts, signals>>
      BY <1>3, <1>11 DEF Investigate, Investigates
    <3>2. QED
      BY <2>1, <2>3, <3>1, TypeOfConclusion DEF FindingKinds
  <2>4. QED
    BY <1>11, <2>2, <2>3 DEF Investigate
<1>12. ASSUME NEW t \in DOMAIN tasks, FollowWithTrace(t)
       PROVE  TypeOK'
  <2>1. TraceTask(t) \in Task /\ TraceTask(t).parent = t
    BY TypeOfTraceTask DEF TraceTask
  <2>2. QED
    BY <1>1, <1>12, <2>1, TypeOfNewTask DEF FollowWithTrace
<1>13. ASSUME NEW t \in DOMAIN tasks, Trace(t)
       PROVE  TypeOK'
  <2>1. CASE tasks[t].refs = <<>>
    <3>1. UNCHANGED <<evidence, tables>>
      BY <1>13, <2>1 DEF Trace, tables
    <3>2. QED
      BY <1>3, <1>4, <1>13, <3>1 DEF Trace
  <2>2. CASE tasks[t].refs # <<>>
    <3>1. /\ read' \subseteq (DOMAIN tasks) \X (DOMAIN evidence)
          /\ UNCHANGED <<evidence, tasks, facts, signals>>
          /\ Concludes(t, "ATTACK_TIMELINE", "COMPLETED", Range(tasks[t].refs))
      BY <1>3, <1>13, <2>2 DEF Trace
    <3>2. Range(tasks[t].refs) \in (SUBSET Evidence) \ {{}}
      BY <1>1, <2>2
    <3>3. QED
      BY <3>1, <3>2, TypeOfConclusion DEF FindingKinds
  <2>3. QED
    BY <2>1, <2>2
<1>14. ASSUME NEW t \in DOMAIN tasks,
              NEW matched \in SUBSET {e \in DOMAIN evidence: evidence[e].source = "OFFICIAL"},
              Monitor(t, matched)
       PROVE  TypeOK'
  <2>1. matched \subseteq DOMAIN evidence /\ DOMAIN evidence \subseteq Evidence
    <3>1. \A e \in DOMAIN evidence: evidence[e] \in EvidenceRecord /\ evidence[e].id = e
      BY DataAssumption DEF TypeOK
    <3>2. QED
      BY <3>1 DEF EvidenceRecord
  <2>2. DOMAIN signals' \subseteq DOMAIN evidence
    BY <1>14, <2>1 DEF Monitor, TypeOK
  <2>3. QED
    BY <1>14, <2>1, <2>2, TypeOfResult DEF Monitor, TypeOK
<1>15. ASSUME NEW t \in DOMAIN tasks, NEW chainValid \in BOOLEAN, Generate(t, chainValid)
       PROVE  TypeOK'
  <2>1. CASE UNCHANGED <<findings, results>>
    BY <1>5, <1>15, <2>1 DEF Generate, tables
  <2>2. CASE Reports(t)
    <3> DEFINE status == IF chainValid THEN "COMPLETED" ELSE "MANUAL_REQUIRED"
    <3>1. /\ UNCHANGED <<evidence, tasks, facts, signals, read>>
          /\ Concludes(t, "AUDIT_REPORT", status, Range(tasks[t].refs))
      BY <1>15, <2>2 DEF Generate
    <3>2. Range(tasks[t].refs) \in (SUBSET Evidence) \ {{}}
      BY <1>1, <2>2 DEF Reports
    <3>3. read' \subseteq (DOMAIN tasks) \X (DOMAIN evidence)
      BY <3>1 DEF TypeOK
    <3>4. status \in {"COMPLETED", "MANUAL_REQUIRED"}
      OBVIOUS
    <3> HIDE DEF status
    <3>5. QED
      BY <3>1, <3>2, <3>3, <3>4, TypeOfConclusion DEF FindingKinds
  <2>3. QED
    BY <1>15, <2>1, <2>2 DEF Generate
<1>16. ASSUME NEW candidate \in Candidates, Promote(candidate)
       PROVE  TypeOK'
  <2>1. FindingType' = FindingType /\ ResultType' = ResultType
    BY <1>16 DEF FindingType, ResultType, Promote
  <2>2. QED
    BY <1>16, <2>1 DEF Promote, TypeOK
<1>17. CASE UNCHANGED vars
  BY <1>5, <1>17 DEF vars
<1>18. QED
  BY <1>6, <1>7, <1>8, <1>9, <1>10, <1>11, <1>12, <1>13, <1>14, <1>15, <1>16, <1>17
     DEF Next, AgentSteps

\* Every table, finding, result and fact of the agents is of its type, in every
\* reachable state and for any evidence, plans and answers.
THEOREM TypeCorrect == Spec => []TypeOK
<1>1. Init => TypeOK
  <2>1. ASSUME Init PROVE TypeOK
    BY <2>1, EmptySeq DEF Init, TypeOK, Range
  <2>2. QED
    BY <2>1
<1>2. TypeOK /\ [Next]_vars => TypeOK'
  BY TypeStep
<1>3. QED
  BY <1>1, <1>2, PTL DEF Spec

-----------------------------------------------------------------------------
(* Corrections *)

\* What one step can do to the evidence: nothing, or add a record under a new id
\* that corrects none, or one that agrees with the record it corrects.
LEMMA EvidenceGrows ==
    ASSUME TypeOK, [Next]_vars
    PROVE  \/ UNCHANGED evidence
           \/ \E record \in Records:
                /\ record.id \notin DOMAIN evidence /\ Add(record)
                /\ \/ record.supersedes = None
                   \/ /\ record.supersedes \in DOMAIN evidence
                      /\ Corrects(record, evidence[record.supersedes])
<1>1. CASE EvidenceSteps
  <2>1. ASSUME NEW record \in Records, NEW original \in DOMAIN evidence, NEW context \in Contexts,
               AppendCorrection(original, record, context.agent, context.incident),
               evidence' # evidence
        PROVE  /\ record.id \notin DOMAIN evidence /\ Add(record)
               /\ record.supersedes = original /\ Corrects(record, evidence[original])
    <3>1. /\ record.id \notin DOMAIN evidence /\ Add(record) /\ Corrects(record, evidence[original])
          /\ MayRead(original, context.agent, context.incident)
      BY <2>1 DEF AppendCorrection
    <3>2. evidence[original].id = original
      BY DEF TypeOK
    <3>3. QED
      BY <3>1, <3>2 DEF Corrects
  <2>2. QED
    BY <1>1, <2>1 DEF EvidenceSteps, Originals, CreateEvidence
<1>2. CASE ~EvidenceSteps
  BY <1>2 DEF Next, vars, AgentSteps, IssueTask, PlanUnavailable, PlanTask, ReadRefused,
     InvestigateManually, Investigate, FollowWithTrace, Trace, Monitor, Generate, Promote
<1>3. QED
  BY <1>1, <1>2

\* f gives every evidence record its first version: the equation of Origin.
FirstVersions(f) ==
    f = [e \in DOMAIN evidence |->
           IF evidence[e].supersedes = None THEN e ELSE f[evidence[e].supersedes]]

\* What corrections supersede is there, first versions exist, and however they are
\* assigned they agree with what descends from them.
OriginInv ==
    /\ \A e \in DOMAIN evidence: evidence[e].supersedes \in DOMAIN evidence \cup {None}
    /\ \E f: FirstVersions(f)
    /\ \A f: FirstVersions(f) =>
         \A e \in DOMAIN evidence:
            /\ f[e] \in DOMAIN evidence
            /\ evidence[e].source = evidence[f[e]].source
            /\ evidence[e].dataset = evidence[f[e]].dataset

\* An added record has the origin of the record that it corrects.
LEMMA OriginStep ==
    ASSUME TypeOK, OriginInv, [Next]_vars
    PROVE  OriginInv'
<1>1. CASE UNCHANGED evidence
  BY <1>1 DEF OriginInv, FirstVersions
<1>2. ASSUME NEW record \in Records, record.id \notin DOMAIN evidence, Add(record),
             \/ record.supersedes = None
             \/ /\ record.supersedes \in DOMAIN evidence
                /\ Corrects(record, evidence[record.supersedes])
      PROVE  OriginInv'
  <2> DEFINE
        new == record.id
        D == DOMAIN evidence
        Next1(f, e) == IF evidence[e].supersedes = None THEN e ELSE f[evidence[e].supersedes]
        Next2(f, e) == IF evidence'[e].supersedes = None THEN e ELSE f[evidence'[e].supersedes]
  <2>1. /\ DOMAIN evidence' = D \cup {new} /\ evidence'[new] = record /\ new \notin D
        /\ \A e \in D: evidence'[e] = evidence[e]
    BY <1>2, Added
  <2>2. None \notin D
    <3>1. \A e \in D: evidence[e] \in EvidenceRecord /\ evidence[e].id = e
      BY DataAssumption DEF TypeOK
    <3>2. QED
      BY <3>1, DataAssumption DEF EvidenceRecord
  <2>3. \A e \in D: evidence[e].supersedes \in D \cup {None}
    BY DEF OriginInv
  <2>4. \A e \in DOMAIN evidence': evidence'[e].supersedes \in (DOMAIN evidence') \cup {None}
    BY <1>2, <2>1, <2>3
  <2>5. \E g: FirstVersions(g)'
    <3>1. PICK f: FirstVersions(f)
      BY DEF OriginInv
    <3>2. f = [e \in D |-> Next1(f, e)]
      BY <3>1 DEF FirstVersions
    <3> DEFINE g == [e \in D \cup {new} |->
                       IF e \in D THEN f[e]
                       ELSE IF record.supersedes = None THEN e ELSE f[record.supersedes]]
    <3>3. \A e \in D: g[e] = Next2(g, e)
      <4>1. TAKE e \in D
      <4>2. f[e] = Next1(f, e)
        BY <3>2
      <4>3. evidence'[e] = evidence[e] /\ (evidence[e].supersedes # None => evidence[e].supersedes \in D)
        BY <2>1, <2>3
      <4>4. QED
        BY <4>2, <4>3
    <3>4. g[new] = Next2(g, new)
      BY <1>2, <2>1
    <3>5. g = [e \in D \cup {new} |-> Next2(g, e)]
      BY <3>3, <3>4
    <3> HIDE DEF g
    <3>6. PICK h: h = [e \in D \cup {new} |-> Next2(h, e)]
      BY <3>5
    <3>7. FirstVersions(h)'
      BY <2>1, <3>6 DEF FirstVersions
    <3>8. QED
      BY <3>7
  <2>6. ASSUME NEW g, FirstVersions(g)', NEW e \in DOMAIN evidence'
        PROVE  /\ g[e] \in DOMAIN evidence'
               /\ evidence'[e].source = evidence'[g[e]].source
               /\ evidence'[e].dataset = evidence'[g[e]].dataset
    <3> DEFINE f == [d \in D |-> g[d]]
    <3>1. g = [d \in D \cup {new} |-> Next2(g, d)]
      BY <2>1, <2>6 DEF FirstVersions
    <3>2. \A d \in D: f[d] = Next1(f, d)
      <4>1. TAKE d \in D
      <4>2. g[d] = Next2(g, d) /\ f[d] = g[d]
        BY <3>1
      <4>3. evidence'[d] = evidence[d] /\ (evidence[d].supersedes # None => evidence[d].supersedes \in D)
        BY <2>1, <2>3
      <4>4. QED
        BY <4>2, <4>3
    <3>3. FirstVersions(f)
      <4>1. f = [d \in D |-> Next1(f, d)]
        BY <3>2
      <4> HIDE DEF f
      <4>2. QED
        BY <4>1 DEF FirstVersions
    <3>4. \A d \in D: /\ f[d] \in D
                      /\ evidence[d].source = evidence[f[d]].source
                      /\ evidence[d].dataset = evidence[f[d]].dataset
      BY <3>3 DEF OriginInv
    <3>5. \A d \in D: /\ g[d] \in D
                      /\ evidence'[d].source = evidence'[g[d]].source
                      /\ evidence'[d].dataset = evidence'[g[d]].dataset
      BY <2>1, <3>4
    <3>6. CASE e \in D
      BY <2>1, <3>5, <3>6
    <3>7. CASE e = new
      <4>1. g[new] = Next2(g, new)
        BY <3>1
      <4>2. CASE record.supersedes = None
        BY <2>1, <3>7, <4>1, <4>2
      <4>3. CASE record.supersedes \in D /\ Corrects(record, evidence[record.supersedes])
        <5>1. /\ g[new] = g[record.supersedes] /\ evidence'[record.supersedes] = evidence[record.supersedes]
              /\ record.source = evidence[record.supersedes].source
              /\ record.dataset = evidence[record.supersedes].dataset
          BY <2>1, <2>2, <4>1, <4>3 DEF Corrects
        <5>2. QED
          BY <2>1, <3>5, <3>7, <4>3, <5>1
      <4>4. QED
        BY <1>2, <4>2, <4>3
    <3>8. QED
      BY <2>1, <3>6, <3>7
  <2>7. QED
    BY <2>4, <2>5, <2>6 DEF OriginInv
<1>3. QED
  BY <1>1, <1>2, EvidenceGrows

\* Origin satisfies its equation, so what OriginInv says holds of it.
LEMMA OriginIsFirst ==
    ASSUME OriginInv
    PROVE  CorrectionsKeepOrigin
<1>1. FirstVersions(Origin)
  BY DEF OriginInv, FirstVersions, Origin
<1>2. QED
  BY <1>1 DEF OriginInv, CorrectionsKeepOrigin

\* A record keeps the source and the dataset of its first version through any
\* number of corrections, by whichever agents (append_correction).
THEOREM OriginsAreKept == Spec => []CorrectionsKeepOrigin
<1>1. Init => OriginInv
  <2>1. ASSUME Init PROVE OriginInv
    <3>1. DOMAIN evidence = {}
      BY <2>1 DEF Init
    <3>2. FirstVersions([e \in {} |-> None])
      BY <3>1 DEF FirstVersions
    <3>3. QED
      BY <3>1, <3>2 DEF OriginInv
  <2>2. QED
    BY <2>1
<1>2. TypeOK /\ OriginInv /\ [Next]_vars => OriginInv'
  BY OriginStep
<1>3. OriginInv => CorrectionsKeepOrigin
  BY OriginIsFirst
<1>4. QED
  BY <1>1, <1>2, <1>3, TypeCorrect, PTL DEF Spec

-----------------------------------------------------------------------------
(* What the tables keep *)

\* Evidence, tasks and audit records are never changed or removed.
LEMMA TablesGrow ==
    ASSUME TypeOK, [Next]_vars
    PROVE  /\ \A e \in DOMAIN evidence: e \in DOMAIN evidence' /\ evidence'[e] = evidence[e]
           /\ \A t \in DOMAIN tasks: t \in DOMAIN tasks' /\ tasks'[t] = tasks[t]
           /\ trail \subseteq trail' /\ facts \subseteq facts'
<1>1. \A e \in DOMAIN evidence: e \in DOMAIN evidence' /\ evidence'[e] = evidence[e]
  BY EvidenceGrows, Added
<1>2. \A t \in DOMAIN tasks: t \in DOMAIN tasks' /\ tasks'[t] = tasks[t]
  <2>1. tasks' = tasks \/ \E task \in Task: tasks' = Append(tasks, task)
    <3>1. ASSUME NEW task \in IssuedTasks, IssueTask(task)
          PROVE  \E new \in Task: tasks' = Append(tasks, new)
      BY <3>1, DataAssumption DEF IssueTask
    <3>2. ASSUME NEW t \in DOMAIN tasks, NEW plan \in Plans, PlanTask(t, plan), tasks' # tasks
          PROVE  \E new \in Task: tasks' = Append(tasks, new)
      <4>1. plan.action \in DOMAIN ChildAgent /\ tasks' = Append(tasks, Child(t, plan))
        BY <3>2 DEF PlanTask
      <4>2. QED
        BY <4>1, TypeOfChild
    <3>3. ASSUME NEW t \in DOMAIN tasks, FollowWithTrace(t)
          PROVE  \E new \in Task: tasks' = Append(tasks, new)
      BY <3>3, TypeOfTraceTask DEF FollowWithTrace, TraceTask
    <3>4. QED
      BY <3>1, <3>2, <3>3 DEF Next, vars, tables, EvidenceSteps, Originals, CreateEvidence, AppendCorrection,
         AgentSteps, PlanUnavailable, ReadRefused, InvestigateManually, Investigate, Trace,
         Monitor, Generate, Promote
  <2>2. QED
    BY <2>1, Appended DEF TypeOK
<1>3. trail \subseteq trail' /\ facts \subseteq facts'
  <2>1. trail \subseteq trail'
    BY ZenonT(60) DEF Next, vars, tables, EvidenceSteps, Originals, CreateEvidence, AppendCorrection,
       IssueTask, AgentSteps, PlanUnavailable, PlanTask, ReadRefused, InvestigateManually,
       Investigate, FollowWithTrace, Trace, Monitor, Generate, Promote
  <2>2. facts \subseteq facts'
    BY ZenonT(60) DEF Next, vars, tables, EvidenceSteps, Originals, CreateEvidence, AppendCorrection,
       IssueTask, AgentSteps, PlanUnavailable, PlanTask, ReadRefused, InvestigateManually,
       Investigate, FollowWithTrace, Trace, Monitor, Generate, Promote
  <2>3. QED
    BY <2>1, <2>2
<1>4. QED
  BY <1>1, <1>2, <1>3

-----------------------------------------------------------------------------
(* Evidence that reaches conclusions *)

\* The agent is cleared for the evidence, and the trail shows that it has read it.
Cleared(e, agent, incident) ==
    /\ e \in DOMAIN evidence
    /\ <<"EVIDENCE_ACCESSED", agent, e>> \in trail
    /\ evidence[e].sensitivity # "SECRET"
    /\ evidence[e].incident \in {None, incident}
    /\ agent \in evidence[e].agents

\* FindingsCleared, with what the trace agent has associated so far.
ClearedInv ==
    /\ \A f \in Concluded: \A e \in f.refs: Cleared(e, tasks[f.task].agent, f.incident)
    /\ \A link \in associations:
         /\ \A n \in 2..3: Cleared(link[n], "TRACE_AGENT", link[1])
         /\ evidence[link[2]].source = evidence[link[3]].source

\* A task that could read all its evidence was cleared for it, and its reads are
\* on the trail (get_for_agent).
LEMMA ReadsAreCleared ==
    ASSUME TypeOK, NEW t \in DOMAIN tasks, ReadsAll(t), NEW n \in DOMAIN tasks[t].refs,
           ReadTrail(t) \subseteq trail', UNCHANGED <<evidence, tasks>>
    PROVE  Cleared(tasks[t].refs[n], tasks[t].agent, tasks[t].incident)'
           /\ tasks[t].refs[n] \in DOMAIN evidence
<1>1. tasks[t].refs \in Seq(Evidence)
  <2>1. tasks[t] \in Task
    BY DEF TypeOK
  <2>2. QED
    BY <2>1 DEF Task
<1>2. DOMAIN tasks[t].refs = 1..Len(tasks[t].refs) /\ Len(tasks[t].refs) \in Nat
  BY <1>1, LenProperties
<1>3. n \in ReadIndexes(t) /\ n \in 1..n /\ (n = 1 \/ n - 1 \in ReadIndexes(t))
  BY <1>2 DEF ReadsAll
<1>4. MayRead(tasks[t].refs[n], tasks[t].agent, tasks[t].incident)
  BY <1>3 DEF ReadIndexes
<1>5. AccessRecord(tasks[t].refs[n], tasks[t].agent, tasks[t].incident) \in ReadTrail(t)
  BY <1>3 DEF ReadTrail
<1>6. <<"EVIDENCE_ACCESSED", tasks[t].agent, tasks[t].refs[n]>> \in trail'
  BY <1>4, <1>5 DEF AccessRecord
<1>7. QED
  BY <1>4, <1>6 DEF MayRead, Cleared

\* A task that concludes was cleared for all the evidence that it cites.
LEMMA ConclusionsCleared ==
    ASSUME TypeOK, ClearedInv, NEW t \in DOMAIN tasks, ReadsAll(t), ReadTrail(t) \subseteq trail',
           UNCHANGED <<evidence, tasks>>, trail \subseteq trail',
           NEW kind, NEW status, NEW refs \in SUBSET Range(tasks[t].refs),
           Concludes(t, kind, status, refs)
    PROVE  \A f \in Concluded': \A e \in f.refs: Cleared(e, tasks[f.task].agent, f.incident)'
<1>1. Range(findings') = Range(findings) \cup {Finding(t, kind, refs)}
  <2>1. findings \in Seq(FindingType \cup {Finding(t, kind, refs)})
    BY SeqMonotonic DEF TypeOK
  <2>2. QED
    BY <2>1, Appended DEF Concludes
<1>2. ASSUME NEW f \in Concluded, NEW e \in f.refs
      PROVE  Cleared(e, tasks[f.task].agent, f.incident)'
  BY <1>2 DEF ClearedInv, Cleared
<1>3. ASSUME NEW e \in refs
      PROVE  Cleared(e, tasks[t].agent, tasks[t].incident)'
  <2>1. PICK n \in DOMAIN tasks[t].refs: e = tasks[t].refs[n]
    BY DEF Range
  <2>2. QED
    BY <2>1, ReadsAreCleared
<1>4. QED
  BY <1>1, <1>2, <1>3 DEF Concluded, Finding

\* The audit agent's reports are not among the findings of the other agents.
LEMMA ReportsStandApart ==
    ASSUME TypeOK, NEW t \in DOMAIN tasks, NEW chainValid \in BOOLEAN, Generate(t, chainValid)
    PROVE  Concluded' = Concluded
<1>1. CASE UNCHANGED findings
  BY <1>1 DEF Concluded
<1>2. CASE findings' = Append(findings, Finding(t, "AUDIT_REPORT", Range(tasks[t].refs)))
  <2>1. findings \in Seq(FindingType \cup {Finding(t, "AUDIT_REPORT", Range(tasks[t].refs))})
    BY SeqMonotonic DEF TypeOK
  <2>2. Range(findings') = Range(findings) \cup {Finding(t, "AUDIT_REPORT", Range(tasks[t].refs))}
    BY <1>2, <2>1, Appended
  <2>3. QED
    BY <2>2 DEF Concluded, Finding
<1>3. QED
  BY <1>1, <1>2 DEF Generate, Concludes

\* A conclusion rests on evidence that its agent was cleared to read.
LEMMA ClearedStep ==
    ASSUME TypeOK, ClearedInv, [Next]_vars
    PROVE  ClearedInv'
<1>1. ASSUME NEW e, NEW agent, NEW incident, Cleared(e, agent, incident)
      PROVE  Cleared(e, agent, incident)'
  BY <1>1, TablesGrow DEF Cleared
<1>2. \A f \in Concluded: f.task \in DOMAIN tasks
  <2>1. \A f \in Range(findings): f \in FindingType
    BY DEF TypeOK, Range
  <2>2. QED
    BY <2>1 DEF FindingType, Concluded
<1>3. ASSUME Concluded' \subseteq Concluded
      PROVE  \A f \in Concluded': \A e \in f.refs: Cleared(e, tasks[f.task].agent, f.incident)'
  <2>1. TAKE f \in Concluded'
  <2>2. f \in Concluded /\ tasks'[f.task] = tasks[f.task]
    BY <1>2, <1>3, TablesGrow
  <2>3. \A e \in f.refs: Cleared(e, tasks[f.task].agent, f.incident)
    BY <2>2 DEF ClearedInv
  <2>4. PICK agent: agent = tasks[f.task].agent
    OBVIOUS
  <2>5. \A e \in f.refs: Cleared(e, agent, f.incident)'
    BY <1>1, <2>3, <2>4
  <2>6. QED
    BY <2>2, <2>4, <2>5
<1>4. ASSUME NEW link \in associations
      PROVE  /\ \A n \in 2..3: Cleared(link[n], "TRACE_AGENT", link[1])'
             /\ evidence'[link[2]].source = evidence'[link[3]].source
  <2>1. /\ \A n \in 2..3: Cleared(link[n], "TRACE_AGENT", link[1])
        /\ evidence[link[2]].source = evidence[link[3]].source
    BY DEF ClearedInv
  <2>2. link[2] \in DOMAIN evidence /\ link[3] \in DOMAIN evidence
    BY <2>1 DEF Cleared
  <2>3. QED
    BY <1>1, <2>1, <2>2, TablesGrow
<1>5. ASSUME UNCHANGED <<findings, associations>>
      PROVE  ClearedInv'
  <2>1. Concluded' \subseteq Concluded
    BY <1>5 DEF Concluded
  <2>2. QED
    BY <1>3, <1>4, <1>5, <2>1 DEF ClearedInv
<1>6. ASSUME NEW t \in DOMAIN tasks, NEW refs \in Answers, NEW attempt \in 1..2,
             Investigate(t, refs, attempt)
      PROVE  ClearedInv'
  <2>1. CASE UNCHANGED findings
    BY <1>5, <1>6, <2>1 DEF Investigate
  <2>2. CASE Cites(t, refs) /\ Concludes(t, "INVESTIGATION_FINDING", "COMPLETED", refs)
    <3>1. /\ ReadsAll(t) /\ ReadTrail(t) \subseteq trail' /\ UNCHANGED <<evidence, tasks, associations>>
          /\ refs \subseteq Range(tasks[t].refs)
      BY <1>6, <2>2 DEF Investigate, Investigates, InvestigationTrail, Cites
    <3>2. \A f \in Concluded': \A e \in f.refs: Cleared(e, tasks[f.task].agent, f.incident)'
      BY <2>2, <3>1, TablesGrow, ConclusionsCleared
    <3>3. QED
      BY <1>4, <3>1, <3>2 DEF ClearedInv
  <2>3. QED
    BY <1>6, <2>1, <2>2 DEF Investigate
<1>7. ASSUME NEW t \in DOMAIN tasks, Trace(t)
      PROVE  ClearedInv'
  <2>1. CASE tasks[t].refs = <<>>
    BY <1>5, <1>7, <2>1 DEF Trace
  <2>2. CASE tasks[t].refs # <<>>
    <3>1. /\ ReadsAll(t) /\ ReadTrail(t) \subseteq trail' /\ UNCHANGED <<evidence, tasks>>
          /\ associations' = associations \cup Links(t)
          /\ Concludes(t, "ATTACK_TIMELINE", "COMPLETED", Range(tasks[t].refs))
          /\ tasks[t].agent = "TRACE_AGENT"
      BY <1>7, <2>2 DEF Trace, Assigned
    <3>2. \A f \in Concluded': \A e \in f.refs: Cleared(e, tasks[f.task].agent, f.incident)'
      BY <3>1, TablesGrow, ConclusionsCleared
    <3>3. ASSUME NEW link \in Links(t)
          PROVE  /\ \A n \in 2..3: Cleared(link[n], "TRACE_AGENT", link[1])'
                 /\ evidence'[link[2]].source = evidence'[link[3]].source
      <4>1. PICK i \in DOMAIN tasks[t].refs, j \in DOMAIN tasks[t].refs:
              /\ link = <<tasks[t].incident, tasks[t].refs[i], tasks[t].refs[j]>>
              /\ evidence[tasks[t].refs[i]].source = evidence[tasks[t].refs[j]].source
        BY DEF Links
      <4>2. /\ Cleared(tasks[t].refs[i], tasks[t].agent, tasks[t].incident)'
            /\ Cleared(tasks[t].refs[j], tasks[t].agent, tasks[t].incident)'
        BY <3>1, ReadsAreCleared
      <4>3. /\ Cleared(link[2], "TRACE_AGENT", link[1])'
            /\ Cleared(link[3], "TRACE_AGENT", link[1])'
        BY <3>1, <4>1, <4>2
      <4>4. \A n \in 2..3: n = 2 \/ n = 3
        OBVIOUS
      <4>5. QED
        BY <3>1, <4>1, <4>3, <4>4
    <3>4. QED
      BY <1>4, <3>1, <3>2, <3>3 DEF ClearedInv
  <2>3. QED
    BY <2>1, <2>2
<1>8. ASSUME NEW t \in DOMAIN tasks, NEW chainValid \in BOOLEAN, Generate(t, chainValid)
      PROVE  ClearedInv'
  <2>1. Concluded' = Concluded
    BY <1>8, ReportsStandApart
  <2>2. QED
    BY <1>3, <1>4, <1>8, <2>1 DEF Generate, ClearedInv
<1>9. CASE UNCHANGED <<findings, associations>>
  BY <1>5, <1>9
<1>10. QED
  BY <1>6, <1>7, <1>8, <1>9 DEF Next, vars, tables, EvidenceSteps, Originals, CreateEvidence,
     AppendCorrection, IssueTask, AgentSteps, PlanUnavailable, PlanTask, ReadRefused,
     InvestigateManually, FollowWithTrace, Monitor, Promote

\* Whatever the models plan and answer, nothing secret, of another incident or
\* withheld from an agent's type reaches its findings or the trace agent's links.
THEOREM ConclusionsAreCleared == Spec => []FindingsCleared
<1>1. Init => ClearedInv
  BY DEF Init, ClearedInv, Concluded, Range
<1>2. TypeOK /\ ClearedInv /\ [Next]_vars => ClearedInv'
  BY ClearedStep
<1>3. ClearedInv => FindingsCleared
  BY DEF ClearedInv, FindingsCleared, Cleared
<1>4. QED
  BY <1>1, <1>2, <1>3, TypeCorrect, PTL DEF Spec

-----------------------------------------------------------------------------
(* Facts *)

\* What FactValidator checked of a fact when it promoted it still holds.
FactInv ==
    \A f \in facts:
        /\ \A e \in Range(f.refs): Supports(e, f)
        /\ \E e \in Range(f.refs): evidence[e].proves = f.type /\ evidence[e].holds
        /\ HasPrerequisite(f)

\* A fact is stored only with evidence that supports it, after its prerequisite.
LEMMA FactStep ==
    ASSUME TypeOK, FactInv, [Next]_vars
    PROVE  FactInv'
<1>1. ASSUME NEW f \in facts
      PROVE  /\ \A e \in Range(f.refs): Supports(e, f)'
             /\ \E e \in Range(f.refs): evidence'[e].proves = f.type /\ evidence'[e].holds
             /\ HasPrerequisite(f)'
  <2>1. \A e \in Range(f.refs): Supports(e, f) /\ e \in DOMAIN evidence' /\ evidence'[e] = evidence[e]
    BY TablesGrow DEF FactInv, Supports
  <2>2. \A e \in Range(f.refs): Supports(e, f)'
    BY <2>1 DEF Supports
  <2>3. \E e \in Range(f.refs): evidence'[e].proves = f.type /\ evidence'[e].holds
    BY <2>1 DEF FactInv
  <2>4. HasPrerequisite(f)'
    BY TablesGrow DEF FactInv, HasPrerequisite
  <2>5. QED
    BY <2>2, <2>3, <2>4
<1>2. ASSUME NEW candidate \in Candidates, Promote(candidate)
      PROVE  FactInv'
  <2>1. facts' = facts \cup {candidate} /\ evidence' = evidence
    BY <1>2 DEF Promote
  <2>2. \A e \in Range(candidate.refs): Supports(e, candidate)'
    BY <1>2, <2>1 DEF Promote, Supports
  <2>3. \E e \in Range(candidate.refs): evidence'[e].proves = candidate.type /\ evidence'[e].holds
    BY <1>2, <2>1 DEF Promote, Proves, Range
  <2>4. HasPrerequisite(candidate)'
    BY <1>2, <2>1 DEF Promote, HasPrerequisite
  <2>5. QED
    BY <1>1, <2>1, <2>2, <2>3, <2>4 DEF FactInv
<1>3. CASE UNCHANGED facts
  BY <1>1, <1>3 DEF FactInv
<1>4. UNCHANGED facts \/ \E candidate \in Candidates: Promote(candidate)
  BY ZenonT(60) DEF Next, vars, tables, EvidenceSteps, Originals, CreateEvidence, AppendCorrection,
     IssueTask, AgentSteps, PlanUnavailable, PlanTask, ReadRefused, InvestigateManually,
     Investigate, FollowWithTrace, Trace, Monitor, Generate
<1>5. QED
  BY <1>2, <1>3, <1>4

\* A confirmed fact stands on evidence of its incident that satisfies its rule and
\* descends from no official capture, and on its prerequisites (FactValidator):
\* what it was promoted on is never changed, and corrections keep their source.
THEOREM FactsAreGrounded == Spec => []FactsGrounded
<1>1. Init => FactInv
  BY DEF Init, FactInv
<1>2. TypeOK /\ FactInv /\ [Next]_vars => FactInv'
  BY FactStep
<1>3. FactInv /\ CorrectionsKeepOrigin => FactsGrounded
  <2>1. ASSUME FactInv, CorrectionsKeepOrigin, NEW f \in facts, NEW e \in Range(f.refs)
        PROVE  evidence[e].incident \in {None, f.incident} /\ evidence[Origin[e]].source # "OFFICIAL"
    BY <2>1 DEF FactInv, CorrectionsKeepOrigin, Supports
  <2>2. QED
    BY <2>1 DEF FactInv, FactsGrounded, HasPrerequisite
<1>4. QED
  BY <1>1, <1>2, <1>3, TypeCorrect, OriginsAreKept, PTL DEF Spec

-----------------------------------------------------------------------------
(* Tools *)

\* A tool that a plan may ask for changes nothing.
LEMMA PlannedToolsReadOnly ==
    ASSUME NEW tool \in DOMAIN Registry, Registry[tool].permission \in PlannedPermissions
    PROVE  ~Registry[tool].side_effect
BY DEF Registry, Tool, PlannedPermissions

\* The kinds of audit records that tools and reads leave.
LEMMA RecordKinds ==
    ASSUME NEW t
    PROVE  /\ \A agent, tools, declared, permissions:
                \A entry \in ToolTrail(agent, tools, declared, permissions):
                   entry[1] \in {"TOOL_ACCESS_GRANTED", "TOOL_ACCESS_DENIED"}
           /\ \A entry \in ReadTrail(t): entry[1] \in {"EVIDENCE_ACCESSED", "EVIDENCE_ACCESS_DENIED"}
           /\ \A tools: \A entry \in ToolCalls(t, tools):
                \/ entry[1] = "TOOL_ACCESS_GRANTED"
                \/ entry[1] = "TOOL_CALL_SUCCEEDED" /\ entry[2] = tasks[t].agent /\ entry[3] \in tools
           /\ \A outcome, attempt: ModelRecord(t, outcome, attempt)[1] = outcome
           /\ tasks[t].agent \in DOMAIN CompletedEvent =>
                /\ CompletionRecord(t)[1] \in
                     {"MONITOR_AGENT_COMPLETED", "TRACE_AGENT_COMPLETED",
                      "INVESTIGATION_AGENT_COMPLETED", "AUDIT_REPORT_GENERATED"}
                /\ CompletionRecord(t)[1] \in Range(CompletedEvent)
                /\ CompletionRecord(t)[3] = t
<1>1. \A agent, tools, declared, permissions:
        \A entry \in ToolTrail(agent, tools, declared, permissions):
           entry[1] \in {"TOOL_ACCESS_GRANTED", "TOOL_ACCESS_DENIED"}
  BY DEF ToolTrail, Verdict
<1>2. \A entry \in ReadTrail(t): entry[1] \in {"EVIDENCE_ACCESSED", "EVIDENCE_ACCESS_DENIED"}
  BY DEF ReadTrail, AccessRecord
<1>3. \A tools: \A entry \in ToolCalls(t, tools):
        \/ entry[1] = "TOOL_ACCESS_GRANTED"
        \/ entry[1] = "TOOL_CALL_SUCCEEDED" /\ entry[2] = tasks[t].agent /\ entry[3] \in tools
  BY DEF ToolCalls, Verdict
<1>4. \A outcome, attempt: ModelRecord(t, outcome, attempt)[1] = outcome
  BY DEF ModelRecord
<1>5. ASSUME tasks[t].agent \in DOMAIN CompletedEvent
      PROVE  /\ CompletionRecord(t)[1] \in
                  {"MONITOR_AGENT_COMPLETED", "TRACE_AGENT_COMPLETED",
                   "INVESTIGATION_AGENT_COMPLETED", "AUDIT_REPORT_GENERATED"}
             /\ CompletionRecord(t)[1] \in Range(CompletedEvent)
             /\ CompletionRecord(t)[3] = t
  BY <1>5 DEF CompletionRecord, CompletedEvent, Range
<1>6. QED
  BY <1>1, <1>2, <1>3, <1>4, <1>5

\* No tool is used that the plan, the registry and the permissions do not allow.
LEMMA ToolsStep ==
    ASSUME TypeOK, ToolsSanctioned, [Next]_vars
    PROVE  ToolsSanctioned'
<1> DEFINE
      Sanctioned(task) == task.planned => \A tool \in task.tools:
          /\ tool \in DOMAIN Registry /\ ~Registry[tool].side_effect
          /\ task.agent \in Registry[tool].agents
      Used(entry) == entry[1] = "TOOL_CALL_SUCCEEDED" =>
          \E t \in DOMAIN tasks: tasks[t].agent = entry[2] /\ entry[3] \in tasks[t].tools
<1>1. \A t \in DOMAIN tasks': Sanctioned(tasks'[t])
  <2>1. ASSUME NEW task \in Task, Sanctioned(task), tasks' = Append(tasks, task)
        PROVE  \A t \in DOMAIN tasks': Sanctioned(tasks'[t])
    BY <2>1, Appended DEF TypeOK, ToolsSanctioned
  <2>2. CASE UNCHANGED tasks
    BY <2>2 DEF ToolsSanctioned
  <2>3. ASSUME NEW task \in IssuedTasks, IssueTask(task)
        PROVE  \A t \in DOMAIN tasks': Sanctioned(tasks'[t])
    <3>1. task \in Task /\ ~task.planned
      BY DataAssumption
    <3>2. QED
      BY <2>1, <2>3, <3>1 DEF IssueTask
  <2>4. ASSUME NEW t \in DOMAIN tasks, NEW plan \in Plans, PlanTask(t, plan), tasks' # tasks
        PROVE  \A i \in DOMAIN tasks': Sanctioned(tasks'[i])
    <3>1. /\ plan.action \in DOMAIN ChildAgent /\ tasks' = Append(tasks, Child(t, plan))
          /\ ToolsAccepted(plan)
      BY <2>4 DEF PlanTask
    <3>2. Child(t, plan) \in Task
      BY <3>1, TypeOfChild
    <3>3. Sanctioned(Child(t, plan))
      BY <3>1, PlannedToolsReadOnly DEF Child, ToolsAccepted, AllAllowed, Allowed
    <3>4. QED
      BY <2>1, <3>1, <3>2, <3>3
  <2>5. ASSUME NEW t \in DOMAIN tasks, FollowWithTrace(t)
        PROVE  \A i \in DOMAIN tasks': Sanctioned(tasks'[i])
    <3>1. TraceTask(t) \in Task /\ ~TraceTask(t).planned
      BY TypeOfTraceTask DEF TraceTask
    <3>2. QED
      BY <2>1, <2>5, <3>1 DEF FollowWithTrace
  <2>6. QED
    BY <2>2, <2>3, <2>4, <2>5 DEF Next, vars, tables, EvidenceSteps, Originals, CreateEvidence,
       AppendCorrection, AgentSteps, PlanUnavailable, ReadRefused, InvestigateManually,
       Investigate, Trace, Monitor, Generate, Promote
<1>2. \A entry \in trail': Used(entry)
  <2>1. \A entry \in trail: Used(entry)
    BY DEF ToolsSanctioned
  <2>2. ASSUME NEW t \in DOMAIN tasks
        PROVE  /\ \A entry \in ReadTrail(t): Used(entry)
               /\ \A agent, tools, declared, permissions:
                    \A entry \in ToolTrail(agent, tools, declared, permissions): Used(entry)
               /\ \A tools \in SUBSET tasks[t].tools: \A entry \in ToolCalls(t, tools): Used(entry)
               /\ \A attempt: /\ Used(ModelRecord(t, "MODEL_CALL_FAILED", attempt))
                              /\ Used(ModelRecord(t, "MODEL_CALL_COMPLETED", attempt))
               /\ \A concludes: tasks[t].agent \in DOMAIN CompletedEvent =>
                    \A entry \in CompletionIf(concludes, t): Used(entry)
    BY <2>2, RecordKinds DEF CompletionIf
  <2>3. ASSUME NEW t \in DOMAIN tasks, Investigates(t), NEW modelRecords,
               \A entry \in modelRecords: Used(entry)
        PROVE  \A entry \in InvestigationTrail(t, modelRecords): Used(entry)
    <3>1. {"get_evidence"} \cup (tasks[t].tools \cap {"search_knowledge"}) \subseteq tasks[t].tools
      BY <2>3 DEF Investigates, Assigned
    <3>2. QED
      BY <2>2, <2>3, <3>1 DEF InvestigationTrail
  <2>4. CASE EvidenceSteps
    BY <2>1, <2>4 DEF EvidenceSteps, Originals, CreateEvidence, AppendCorrection, AccessRecord
  <2>5. ASSUME NEW t \in DOMAIN tasks, PlanUnavailable(t) \/ \E plan \in Plans: PlanTask(t, plan)
        PROVE  \A entry \in trail': Used(entry)
    <3>1. \A plan: /\ Used(Verdict("MAIN_AGENT", "create_agent_task", MayCreate(t)))
                   /\ Used(<<"MAIN_AGENT_TASK_CREATED", "MAIN_AGENT", t>>)
      BY DEF Verdict
    <3>2. QED
      BY <2>1, <2>2, <2>5, <3>1 DEF PlanUnavailable, PlanTask
  <2>6. ASSUME NEW t \in DOMAIN tasks, ReadRefused(t)
        PROVE  \A entry \in trail': Used(entry)
    <3>1. (IF tasks[t].agent = "TRACE_AGENT" THEN {"build_timeline"} ELSE {"get_evidence"})
            \subseteq tasks[t].tools
      BY <2>6 DEF ReadRefused, Assigned
    <3>2. QED
      BY <2>1, <2>2, <2>6, <3>1 DEF ReadRefused
  <2>7. ASSUME NEW t \in DOMAIN tasks, InvestigateManually(t)
        PROVE  \A entry \in trail': Used(entry)
    BY <2>1, <2>2, <2>3, <2>7 DEF InvestigateManually
  <2>8. ASSUME NEW t \in DOMAIN tasks, NEW refs \in Answers, NEW attempt \in 1..2,
               Investigate(t, refs, attempt)
        PROVE  \A entry \in trail': Used(entry)
    <3> DEFINE
          failures == {ModelRecord(t, "MODEL_CALL_FAILED", a): a \in 1..attempt - 1}
          completion == CompletionIf(Cites(t, refs), t)
          model == {ModelRecord(t, "MODEL_CALL_COMPLETED", 1)} \cup failures \cup completion
    <3>1. Investigates(t) /\ trail' = trail \cup InvestigationTrail(t, model)
      BY <2>8 DEF Investigate
    <3>2. \A entry \in failures: Used(entry)
      BY <2>2
    <3>3. \A entry \in completion: Used(entry)
      BY <2>2, <3>1 DEF Investigates, Assigned, CompletedEvent
    <3>4. \A entry \in model: Used(entry)
      BY <2>2, <3>2, <3>3
    <3>5. QED
      BY <2>1, <2>3, <3>1, <3>4
  <2>9. ASSUME NEW t \in DOMAIN tasks, Trace(t)
        PROVE  \A entry \in trail': Used(entry)
    <3>1. {"build_timeline"} \subseteq tasks[t].tools /\ tasks[t].agent \in DOMAIN CompletedEvent
      BY <2>9 DEF Trace, Assigned, CompletedEvent
    <3>2. QED
      BY <2>1, <2>2, <2>9, <3>1 DEF Trace
  <2>10. ASSUME NEW t \in DOMAIN tasks, NEW matched, Monitor(t, matched)
         PROVE  \A entry \in trail': Used(entry)
    <3>1. {"run_detection_rules"} \subseteq tasks[t].tools /\ tasks[t].agent \in DOMAIN CompletedEvent
      BY <2>10 DEF Monitor, Assigned, CompletedEvent
    <3>2. Used(CompletionRecord(t))
      BY <2>2, <3>1 DEF CompletionIf
    <3>3. QED
      BY <2>1, <2>2, <2>10, <3>1, <3>2 DEF Monitor
  <2>11. ASSUME NEW t \in DOMAIN tasks, NEW chainValid, Generate(t, chainValid)
         PROVE  \A entry \in trail': Used(entry)
    <3>1. tasks[t].agent \in DOMAIN CompletedEvent
      BY <2>11 DEF Generate, Assigned, CompletedEvent
    <3>2. QED
      BY <2>1, <2>2, <2>11, <3>1 DEF Generate
  <2>12. ASSUME NEW candidate, Promote(candidate)
         PROVE  \A entry \in trail': Used(entry)
    BY <2>1, <2>12 DEF Promote
  <2>13. QED
    BY <2>1, <2>4, <2>5, <2>6, <2>7, <2>8, <2>9, <2>10, <2>11, <2>12
       DEF Next, vars, AgentSteps, IssueTask, FollowWithTrace
<1>3. \A entry \in trail': Used(entry)'
  <2>1. \A t \in DOMAIN tasks: t \in DOMAIN tasks' /\ tasks'[t] = tasks[t]
    BY TablesGrow
  <2>2. QED
    BY <1>2, <2>1
<1>4. QED
  BY <1>1, <1>3 DEF ToolsSanctioned

\* No plan hands an agent a tool that creates tasks, proposes actions or executes
\* them, and only tools of a task are called for it (ToolRegistry.authorize,
\* create_planned_task, _validate_task).
THEOREM ToolsAreSanctioned == Spec => []ToolsSanctioned
<1>1. Init => ToolsSanctioned
  BY DEF Init, ToolsSanctioned
<1>2. TypeOK /\ ToolsSanctioned /\ [Next]_vars => ToolsSanctioned'
  BY ToolsStep
<1>3. QED
  BY <1>1, <1>2, TypeCorrect, PTL DEF Spec

-----------------------------------------------------------------------------
(* Failures *)

\* A result of an investigation that ended in manual review.
Manual(r) == tasks[r.task].agent = "INVESTIGATION_AGENT" /\ r.status = "MANUAL_REQUIRED"

\* The two directions of FailuresConcludeNothing: from results to the trail, and back.
Shown(r) ==
    IF Manual(r)
      THEN /\ r.findings = {} /\ r.refs = {}
           /\ \A a \in 1..2: ModelRecord(r.task, "MODEL_CALL_FAILED", a) \in trail
      ELSE /\ CompletionRecord(r.task) \in trail
           /\ \A n \in r.findings: findings[n].task = r.task /\ findings[n].refs = r.refs

\* A completion on the trail has its result.
Accounted(entry) ==
    entry[1] \in Range(CompletedEvent) =>
        \E r \in Range(results): r.task = entry[3] /\ ~Manual(r)

\* Findings and results are only ever appended.
LEMMA ConclusionsGrow ==
    ASSUME TypeOK, [Next]_vars
    PROVE  /\ \A n \in DOMAIN findings: findings'[n] = findings[n]
           /\ Range(results) \subseteq Range(results')
           /\ \A r: results' = Append(results, r) => Range(results') = Range(results) \cup {r}
           /\ \A f: findings' = Append(findings, f) => findings'[Len(findings) + 1] = f
<1>1. (findings' = findings \/ \E f: findings' = Append(findings, f))
      /\ (results' = results \/ \E r: results' = Append(results, r))
  <2>1. ASSUME NEW t, NEW kind, NEW status, NEW refs, Concludes(t, kind, status, refs)
        PROVE  (\E f: findings' = Append(findings, f)) /\ \E r: results' = Append(results, r)
    BY <2>1 DEF Concludes
  <2>2. ASSUME NEW t, \/ InvestigateManually(t) \/ Trace(t)
                      \/ \E refs, attempt: Investigate(t, refs, attempt)
                      \/ \E matched: Monitor(t, matched)
                      \/ \E chainValid: Generate(t, chainValid)
        PROVE  /\ findings' = findings \/ \E f: findings' = Append(findings, f)
               /\ results' = results \/ \E r: results' = Append(results, r)
    BY <2>1, <2>2 DEF InvestigateManually, Trace, Investigate, Monitor, Generate
  <2>3. CASE UNCHANGED <<findings, results>>
    BY <2>3
  <2>4. QED
    BY <2>2, <2>3 DEF Next, vars, tables, EvidenceSteps, Originals, CreateEvidence, AppendCorrection,
       IssueTask, AgentSteps, PlanUnavailable, PlanTask, ReadRefused, FollowWithTrace, Promote
<1>2. ASSUME NEW f, findings' = Append(findings, f)
      PROVE  /\ \A n \in DOMAIN findings: findings'[n] = findings[n]
             /\ findings'[Len(findings) + 1] = f
  <2>1. findings \in Seq(FindingType \cup {f})
    BY SeqMonotonic DEF TypeOK
  <2>2. QED
    BY <1>2, <2>1, Appended
<1>3. ASSUME NEW r, results' = Append(results, r)
      PROVE  Range(results') = Range(results) \cup {r}
  <2>1. results \in Seq(ResultType \cup {r})
    BY SeqMonotonic DEF TypeOK
  <2>2. QED
    BY <1>3, <2>1, Appended
<1>4. QED
  BY <1>1, <1>2, <1>3

\* What a result or a completion shows, it shows from then on.
LEMMA ShownKept ==
    ASSUME TypeOK, FailuresConcludeNothing, [Next]_vars
    PROVE  /\ \A r \in Range(results): Shown(r)'
           /\ \A entry \in trail: Accounted(entry)'
<1>1. \A r \in Range(results): r.task \in DOMAIN tasks /\ r.findings \subseteq DOMAIN findings
  <2>1. \A r \in Range(results): r \in ResultType
    BY DEF TypeOK, Range
  <2>2. QED
    BY <2>1 DEF ResultType
<1>2. ASSUME NEW r \in Range(results)
      PROVE  Shown(r)' /\ Manual(r)' = Manual(r)
  <2>1. tasks'[r.task] = tasks[r.task] /\ trail \subseteq trail'
        /\ \A n \in r.findings: findings'[n] = findings[n]
    BY <1>1, TablesGrow, ConclusionsGrow
  <2>2. Manual(r)' = Manual(r)
    BY <2>1 DEF Manual
  <2>3. Shown(r)
    BY DEF FailuresConcludeNothing, Shown, Manual
  <2>4. QED
    BY <2>1, <2>2, <2>3 DEF Shown, ModelRecord, CompletionRecord
<1>3. ASSUME NEW entry \in trail
      PROVE  Accounted(entry)'
  <2>1. Accounted(entry)
    BY DEF FailuresConcludeNothing, Accounted, Manual
  <2>2. QED
    BY <1>2, <2>1, ConclusionsGrow DEF Accounted
<1>4. QED
  BY <1>2, <1>3

\* A result and the completion of its run appear together.
LEMMA CompletionShown ==
    ASSUME TypeOK, FailuresConcludeNothing, [Next]_vars, UNCHANGED tasks,
           NEW t \in DOMAIN tasks, NEW status \in {"COMPLETED", "MANUAL_REQUIRED"},
           NEW found, NEW refs,
           tasks[t].agent = "INVESTIGATION_AGENT" => status = "COMPLETED",
           results' = Append(results, Result(t, status, found, refs)),
           CompletionRecord(t) \in trail',
           \A n \in found: findings'[n].task = t /\ findings'[n].refs = refs,
           \A entry \in trail' \ trail: entry[1] \in Range(CompletedEvent) => entry[3] = t
    PROVE  FailuresConcludeNothing'
<1> PICK new: new = Result(t, status, found, refs)
  OBVIOUS
<1>1. Range(results') = Range(results) \cup {new}
  BY ConclusionsGrow
<1>2. Shown(new)' /\ ~Manual(new)' /\ new.task = t
  BY DEF Result, Manual, Shown, CompletionRecord
<1>3. \A entry \in trail': Accounted(entry)'
  BY <1>1, <1>2, ShownKept DEF Accounted
<1>4. \A r \in Range(results'): Shown(r)'
  BY <1>1, <1>2, ShownKept
<1>5. QED
  BY <1>3, <1>4 DEF FailuresConcludeNothing, Shown, Accounted, Manual

\* A step without a result adds no record of a completed run.
LEMMA NothingShown ==
    ASSUME TypeOK, FailuresConcludeNothing, [Next]_vars, UNCHANGED results,
           \A entry \in trail' \ trail: entry[1] \notin Range(CompletedEvent)
    PROVE  FailuresConcludeNothing'
<1>1. \A r \in Range(results'): Shown(r)'
  BY ShownKept
<1>2. \A entry \in trail': Accounted(entry)'
  BY ShownKept DEF Accounted
<1>3. QED
  BY <1>1, <1>2 DEF FailuresConcludeNothing, Shown, Accounted, Manual

\* A result says completed exactly when its completion is on the trail.
LEMMA FailuresStep ==
    ASSUME TypeOK, FailuresConcludeNothing, [Next]_vars
    PROVE  FailuresConcludeNothing'
<1> DEFINE Completes(entry) == entry[1] \in Range(CompletedEvent)
<1>1. Range(CompletedEvent) = {"MONITOR_AGENT_COMPLETED", "TRACE_AGENT_COMPLETED",
                               "INVESTIGATION_AGENT_COMPLETED", "AUDIT_REPORT_GENERATED"}
  BY DEF Range, CompletedEvent
<1>2. ASSUME NEW t \in DOMAIN tasks
      PROVE  /\ \A entry \in ReadTrail(t): ~Completes(entry)
             /\ \A agent, tools, declared, permissions:
                  \A entry \in ToolTrail(agent, tools, declared, permissions): ~Completes(entry)
             /\ \A tools: \A entry \in ToolCalls(t, tools): ~Completes(entry)
             /\ \A attempt: /\ ~Completes(ModelRecord(t, "MODEL_CALL_FAILED", attempt))
                            /\ ~Completes(ModelRecord(t, "MODEL_CALL_COMPLETED", attempt))
             /\ CompletionIf(FALSE, t) = {} /\ CompletionIf(TRUE, t) = {CompletionRecord(t)}
             /\ tasks[t].agent \in DOMAIN CompletedEvent => CompletionRecord(t)[3] = t
  BY <1>1, RecordKinds DEF CompletionIf
<1>3. CASE EvidenceSteps
  <2>1. ASSUME NEW e, NEW agent, NEW incident
        PROVE  ~Completes(AccessRecord(e, agent, incident))
    BY <1>1 DEF AccessRecord
  <2>2. UNCHANGED results /\ \A entry \in trail' \ trail: ~Completes(entry)
    BY <1>1, <1>3, <2>1 DEF EvidenceSteps, Originals, CreateEvidence, AppendCorrection, tables
  <2>3. QED
    BY <2>2, NothingShown
<1>4. ASSUME NEW t \in DOMAIN tasks, PlanUnavailable(t) \/ \E plan \in Plans: PlanTask(t, plan)
      PROVE  FailuresConcludeNothing'
  <2>1. /\ ~Completes(Verdict("MAIN_AGENT", "create_agent_task", MayCreate(t)))
        /\ ~Completes(<<"MAIN_AGENT_TASK_CREATED", "MAIN_AGENT", t>>)
    BY <1>1 DEF Verdict
  <2>2. UNCHANGED results /\ \A entry \in trail' \ trail: ~Completes(entry)
    BY <1>2, <1>4, <2>1 DEF PlanUnavailable, PlanTask, tables
  <2>3. QED
    BY <2>2, NothingShown
<1>5. ASSUME NEW t \in DOMAIN tasks, ReadRefused(t)
      PROVE  FailuresConcludeNothing'
  <2>1. UNCHANGED results /\ \A entry \in trail' \ trail: ~Completes(entry)
    BY <1>2, <1>5 DEF ReadRefused, tables
  <2>2. QED
    BY <2>1, NothingShown
<1>6. ASSUME NEW t \in DOMAIN tasks, InvestigateManually(t)
      PROVE  FailuresConcludeNothing'
  <2> PICK new: new = Result(t, "MANUAL_REQUIRED", {}, {})
    OBVIOUS
  <2> DEFINE failures == {ModelRecord(t, "MODEL_CALL_FAILED", 1), ModelRecord(t, "MODEL_CALL_FAILED", 2)}
  <2>1. /\ Range(results') = Range(results) \cup {new} /\ UNCHANGED tasks
        /\ trail' = trail \cup InvestigationTrail(t, failures)
        /\ tasks[t].agent = "INVESTIGATION_AGENT"
    BY <1>6, ConclusionsGrow DEF InvestigateManually, Investigates, Assigned
  <2>2. \A a \in 1..2: a = 1 \/ a = 2
    OBVIOUS
  <2>3. \A a \in 1..2: ModelRecord(t, "MODEL_CALL_FAILED", a) \in trail'
    BY <2>1, <2>2 DEF InvestigationTrail
  <2>4. Shown(new)'
    BY <2>1, <2>3 DEF Shown, Manual, Result, ModelRecord
  <2>5. \A r \in Range(results'): Shown(r)'
    BY <2>1, <2>4, ShownKept
  <2>6. \A entry \in trail' \ trail: ~Completes(entry)
    BY <1>2, <2>1 DEF InvestigationTrail
  <2>7. \A entry \in trail': Accounted(entry)'
    BY <2>6, ShownKept DEF Accounted
  <2>8. QED
    BY <2>5, <2>7 DEF FailuresConcludeNothing, Shown, Accounted, Manual
<1>7. ASSUME NEW t \in DOMAIN tasks, NEW refs \in Answers, NEW attempt \in 1..2,
             Investigate(t, refs, attempt)
      PROVE  FailuresConcludeNothing'
  <2> DEFINE
        failures == {ModelRecord(t, "MODEL_CALL_FAILED", a): a \in 1..attempt - 1}
        model == {ModelRecord(t, "MODEL_CALL_COMPLETED", 1)} \cup failures
                   \cup CompletionIf(Cites(t, refs), t)
  <2>1. /\ Investigates(t) /\ trail' = trail \cup InvestigationTrail(t, model) /\ UNCHANGED tasks
        /\ tasks[t].agent = "INVESTIGATION_AGENT" /\ tasks[t].agent \in DOMAIN CompletedEvent
    BY <1>7 DEF Investigate, Investigates, Assigned, CompletedEvent
  <2>2. \A entry \in failures: ~Completes(entry)
    BY <1>2
  <2>3. CASE ~Cites(t, refs)
    <3>1. CompletionIf(Cites(t, refs), t) = {}
      BY <2>3 DEF CompletionIf
    <3>2. UNCHANGED results /\ \A entry \in trail' \ trail: ~Completes(entry)
      BY <1>2, <1>7, <2>1, <2>2, <2>3, <3>1 DEF InvestigationTrail, Investigate
    <3>3. QED
      BY <3>2, NothingShown
  <2>4. CASE Cites(t, refs)
    <3>1. \A entry \in trail' \ trail: Completes(entry) => entry[3] = t
      BY <1>2, <2>1, <2>2, <2>4 DEF InvestigationTrail
    <3>2. CompletionRecord(t) \in trail'
      BY <1>2, <2>1, <2>4 DEF InvestigationTrail
    <3>3. /\ results' = Append(results, Result(t, "COMPLETED", {Len(findings) + 1}, refs))
          /\ findings' = Append(findings, Finding(t, "INVESTIGATION_FINDING", refs))
      BY <1>7, <2>4 DEF Investigate, Concludes
    <3>4. findings'[Len(findings) + 1].task = t /\ findings'[Len(findings) + 1].refs = refs
      BY <3>3, ConclusionsGrow DEF Finding
    <3>5. \A n \in {Len(findings) + 1}: findings'[n].task = t /\ findings'[n].refs = refs
      BY <3>4
    <3> HIDE DEF model, failures
    <3>6. QED
      BY <2>1, <3>1, <3>2, <3>3, <3>5, CompletionShown
  <2>5. QED
    BY <2>3, <2>4
<1>8. ASSUME NEW t \in DOMAIN tasks, Trace(t)
      PROVE  FailuresConcludeNothing'
  <2>1. tasks[t].agent = "TRACE_AGENT" /\ tasks[t].agent \in DOMAIN CompletedEvent
    BY <1>8 DEF Trace, Assigned, CompletedEvent
  <2>2. CASE tasks[t].refs = <<>>
    <3>1. UNCHANGED results /\ \A entry \in trail' \ trail: ~Completes(entry)
      BY <1>2, <1>8, <2>2 DEF Trace
    <3>2. QED
      BY <3>1, NothingShown
  <2>3. CASE tasks[t].refs # <<>>
    <3>1. /\ results' = Append(results, Result(t, "COMPLETED", {Len(findings) + 1}, Range(tasks[t].refs)))
          /\ findings' = Append(findings, Finding(t, "ATTACK_TIMELINE", Range(tasks[t].refs)))
          /\ UNCHANGED tasks
      BY <1>8, <2>3 DEF Trace, Concludes
    <3>2. \A entry \in trail' \ trail: Completes(entry) => entry[3] = t
      BY <1>2, <1>8, <2>1, <2>3 DEF Trace
    <3>3. CompletionRecord(t) \in trail'
      BY <1>2, <1>8, <2>3 DEF Trace
    <3>4. /\ findings'[Len(findings) + 1].task = t
          /\ findings'[Len(findings) + 1].refs = Range(tasks[t].refs)
      BY <3>1, ConclusionsGrow DEF Finding
    <3>5. QED
      BY <2>1, <3>1, <3>2, <3>3, <3>4, CompletionShown
  <2>4. QED
    BY <2>2, <2>3
<1>9. ASSUME NEW t \in DOMAIN tasks, NEW matched, Monitor(t, matched)
      PROVE  FailuresConcludeNothing'
  <2>1. tasks[t].agent = "SILENT_MONITOR_AGENT" /\ tasks[t].agent \in DOMAIN CompletedEvent
    BY <1>9 DEF Monitor, Assigned, CompletedEvent
  <2>2. /\ results' = Append(results, Result(t, "COMPLETED", {}, matched)) /\ UNCHANGED tasks
        /\ CompletionRecord(t) \in trail'
    BY <1>9 DEF Monitor
  <2>3. \A entry \in trail' \ trail: Completes(entry) => entry[3] = t
    BY <1>2, <1>9, <2>1 DEF Monitor
  <2>4. QED
    BY <2>1, <2>2, <2>3, CompletionShown
<1>10. ASSUME NEW t \in DOMAIN tasks, NEW chainValid \in BOOLEAN, Generate(t, chainValid)
       PROVE  FailuresConcludeNothing'
  <2>1. tasks[t].agent = "AUDIT_AGENT" /\ tasks[t].agent \in DOMAIN CompletedEvent
    BY <1>10 DEF Generate, Assigned, CompletedEvent
  <2>2. CASE ~Reports(t)
    <3>1. CompletionIf(Reports(t), t) = {}
      BY <2>2 DEF CompletionIf
    <3>2. UNCHANGED results /\ \A entry \in trail' \ trail: ~Completes(entry)
      BY <1>2, <1>10, <2>2, <3>1 DEF Generate
    <3>3. QED
      BY <3>2, NothingShown
  <2>3. CASE Reports(t)
    <3> PICK status \in {"COMPLETED", "MANUAL_REQUIRED"}:
          status = IF chainValid THEN "COMPLETED" ELSE "MANUAL_REQUIRED"
      OBVIOUS
    <3>1. /\ results' = Append(results, Result(t, status, {Len(findings) + 1}, Range(tasks[t].refs)))
          /\ findings' = Append(findings, Finding(t, "AUDIT_REPORT", Range(tasks[t].refs)))
          /\ UNCHANGED tasks
      BY <1>10, <2>3 DEF Generate, Concludes
    <3>2. \A entry \in trail' \ trail: Completes(entry) => entry[3] = t
      <4>a. PICK tools: tools = ToolTrail("AUDIT_AGENT", ReportTools, tasks[t].tools, {"audit:read"})
        OBVIOUS
      <4>1. trail' = trail \cup tools \cup {CompletionRecord(t)}
        BY <1>2, <1>10, <2>3, <4>a DEF Generate
      <4>2. \A entry \in tools: ~Completes(entry)
        BY <1>2, <4>a
      <4>3. CompletionRecord(t)[3] = t
        BY DEF CompletionRecord
      <4>4. QED
        BY <4>1, <4>2, <4>3
    <3>3. CompletionRecord(t) \in trail'
      BY <1>2, <1>10, <2>3 DEF Generate
    <3>4. /\ findings'[Len(findings) + 1].task = t
          /\ findings'[Len(findings) + 1].refs = Range(tasks[t].refs)
      BY <3>1, ConclusionsGrow DEF Finding
    <3>5. QED
      BY <2>1, <3>1, <3>2, <3>3, <3>4, CompletionShown
  <2>4. QED
    BY <2>2, <2>3
<1>11. ASSUME NEW candidate, Promote(candidate)
       PROVE  FailuresConcludeNothing'
  <2>1. UNCHANGED results /\ \A entry \in trail' \ trail: ~Completes(entry)
    BY <1>1, <1>11 DEF Promote
  <2>2. QED
    BY <2>1, NothingShown
<1>12. CASE UNCHANGED <<results, trail>>
  BY <1>12, NothingShown
<1>13. QED
  BY <1>3, <1>4, <1>5, <1>6, <1>7, <1>8, <1>9, <1>10, <1>11, <1>12
     DEF Next, vars, tables, AgentSteps, IssueTask, FollowWithTrace

\* A model that fails leaves no conclusion, results and findings name the same task
\* and evidence, and a run is shown as completed exactly when it left a result.
THEOREM FailuresLeaveNoConclusion == Spec => []FailuresConcludeNothing
<1>1. Init => FailuresConcludeNothing
  <2>1. ASSUME Init PROVE FailuresConcludeNothing
    BY <2>1, EmptySeq DEF Init, FailuresConcludeNothing, Range
  <2>2. QED
    BY <2>1
<1>2. TypeOK /\ FailuresConcludeNothing /\ [Next]_vars => FailuresConcludeNothing'
  BY FailuresStep
<1>3. QED
  BY <1>1, <1>2, TypeCorrect, PTL DEF Spec

-----------------------------------------------------------------------------
(* Delegation implements NeedToKnow *)

\* The tasks as the abstraction sees them: a sequence, which grows as tasks does.
seen == [t \in DOMAIN tasks |-> [parent |-> tasks[t].parent, granted |-> Range(tasks[t].refs)]]

\* A new task is a new task of the abstraction.
LEMMA SeenGrows ==
    ASSUME TypeOK, NEW task \in Task, tasks' = Append(tasks, task)
    PROVE  seen' = Append(seen, [parent |-> task.parent, granted |-> Range(task.refs)])
<1>1. /\ DOMAIN tasks' = DOMAIN tasks \cup {Len(tasks) + 1} /\ DOMAIN tasks = 1..Len(tasks)
      /\ tasks'[Len(tasks) + 1] = task /\ \A i \in DOMAIN tasks: tasks'[i] = tasks[i]
      /\ Len(tasks) \in Nat /\ Len(tasks) + 1 \notin DOMAIN tasks
  BY Appended DEF TypeOK
<1> PICK S: S = {seen[t]: t \in DOMAIN tasks} \cup {[parent |-> task.parent, granted |-> Range(task.refs)]}
  OBVIOUS
<1>2. seen \in [1..Len(tasks) -> S]
  BY <1>1 DEF seen
<1>3. seen \in Seq(S) /\ Len(seen) = Len(tasks)
  BY <1>1, <1>2
<1> DEFINE new == Append(seen, [parent |-> task.parent, granted |-> Range(task.refs)])
<1>4. /\ new \in Seq(S) /\ DOMAIN new = DOMAIN seen \cup {Len(tasks) + 1}
      /\ new[Len(tasks) + 1] = [parent |-> task.parent, granted |-> Range(task.refs)]
      /\ \A i \in DOMAIN seen: new[i] = seen[i]
  BY <1>3, Appended
<1>5. new = [t \in DOMAIN tasks \cup {Len(tasks) + 1} |-> new[t]]
  BY <1>2, <1>4
<1>6. \A t \in DOMAIN tasks \cup {Len(tasks) + 1}:
        new[t] = [parent |-> tasks'[t].parent, granted |-> Range(tasks'[t].refs)]
  BY <1>1, <1>4 DEF seen
<1>7. QED
  BY <1>1, <1>5, <1>6 DEF seen

\* What a task reads is what it was granted, all of it when no read is refused.
LEMMA LearntIsGranted ==
    ASSUME TypeOK, NEW t \in DOMAIN tasks
    PROVE  \E learnt \in SUBSET Range(tasks[t].refs):
             /\ Learnt(t) = {t} \X learnt
             /\ ReadsAll(t) => learnt = Range(tasks[t].refs)
<1> DEFINE learnt == {tasks[t].refs[n]: n \in ReadIndexes(t)}
<1>1. learnt \subseteq Range(tasks[t].refs)
  BY DEF ReadIndexes, Range
<1>2. Learnt(t) = {t} \X learnt
  BY DEF Learnt
<1>3. ReadsAll(t) => learnt = Range(tasks[t].refs)
  BY DEF ReadsAll, Range
<1>4. QED
  BY <1>1, <1>2, <1>3

\* A run that concludes nothing is a study without a conclusion.
LEMMA StudyOnly ==
    ASSUME TypeOK, NEW t \in DOMAIN tasks, read' = read \cup Learnt(t),
           UNCHANGED <<tasks, findings>>
    PROVE  Need!Study
<1>1. PICK learnt \in SUBSET Range(tasks[t].refs): Learnt(t) = {t} \X learnt
  BY LearntIsGranted
<1>2. seen' = seen /\ seen[t].granted = Range(tasks[t].refs) /\ DOMAIN seen = DOMAIN tasks
  BY DEF seen
<1>3. {<<f.task, f.refs>>: f \in Concluded}' = {<<f.task, f.refs>>: f \in Concluded}
  BY DEF Concluded
<1>4. QED
  BY <1>1, <1>2, <1>3 DEF Need!Study, seen

\* One that concludes cites evidence that the task has learnt.
LEMMA StudyConcludes ==
    ASSUME TypeOK, NEW t \in DOMAIN tasks, read' = read \cup Learnt(t), ReadsAll(t),
           UNCHANGED tasks, NEW kind, kind # "AUDIT_REPORT", NEW status,
           NEW refs \in (SUBSET Range(tasks[t].refs)) \ {{}}, Concludes(t, kind, status, refs)
    PROVE  Need!Study
<1>1. Learnt(t) = {t} \X Range(tasks[t].refs)
  BY LearntIsGranted
<1>2. seen' = seen /\ seen[t].granted = Range(tasks[t].refs) /\ DOMAIN seen = DOMAIN tasks
  BY DEF seen
<1>3. Range(findings') = Range(findings) \cup {Finding(t, kind, refs)}
  <2>1. findings \in Seq(FindingType \cup {Finding(t, kind, refs)})
    BY SeqMonotonic DEF TypeOK
  <2>2. QED
    BY <2>1, Appended DEF Concludes
<1>4. {<<f.task, f.refs>>: f \in Concluded}' = {<<f.task, f.refs>>: f \in Concluded} \cup {<<t, refs>>}
  <2> PICK new: new = Finding(t, kind, refs)
    OBVIOUS
  <2>1. new = Finding(t, kind, refs) /\ new.task = t /\ new.refs = refs
    BY DEF Finding
  <2>2. Concluded' = Concluded \cup {new}
    BY <1>3, <2>1 DEF Concluded, Finding
  <2>3. {<<f.task, f.refs>>: f \in Concluded}' = {<<f.task, f.refs>>: f \in Concluded'}
    OBVIOUS
  <2>4. {<<f.task, f.refs>>: f \in Concluded'} = {<<f.task, f.refs>>: f \in Concluded} \cup {<<t, refs>>}
    BY <2>1, <2>2
  <2>5. QED
    BY <2>3, <2>4
<1>5. refs \in (SUBSET {e \in Evidence: <<t, e>> \in read'}) \ {{}}
  <2>1. tasks[t].refs \in Seq(Evidence)
    <3>1. tasks[t] \in Task
      BY DEF TypeOK
    <3>2. QED
      BY <3>1 DEF Task
  <2>2. Range(tasks[t].refs) \subseteq Evidence
    BY <2>1, RangeOfSeq
  <2>3. QED
    BY <1>1, <2>2
<1>6. QED
  BY <1>1, <1>2, <1>4, <1>5 DEF Need!Study, seen

\* A task made by the system, or by a task that was granted all that it grants.
LEMMA NewTaskSeen ==
    ASSUME TypeOK, NEW task \in Task, tasks' = Append(tasks, task), UNCHANGED <<findings, read>>,
           \/ task.parent = 0
           \/ /\ task.parent \in DOMAIN tasks
              /\ Range(task.refs) \subseteq Range(tasks[task.parent].refs)
    PROVE  Need!Next
<1>1. seen' = Append(seen, [parent |-> task.parent, granted |-> Range(task.refs)])
  BY SeenGrows
<1>2. {<<f.task, f.refs>>: f \in Concluded}' = {<<f.task, f.refs>>: f \in Concluded}
  BY DEF Concluded
<1>3. Range(task.refs) \subseteq Evidence
  <2>1. task.refs \in Seq(Evidence)
    BY DEF Task
  <2>2. QED
    BY <2>1, RangeOfSeq
<1>4. Need!New(task.parent, Range(task.refs))
  BY <1>1 DEF Need!New, seen
<1>5. CASE task.parent = 0
  <2>1. Need!Issue
    BY <1>2, <1>3, <1>4, <1>5 DEF Need!Issue
  <2>2. QED
    BY <2>1 DEF Need!Next
<1>6. CASE /\ task.parent \in DOMAIN tasks
           /\ Range(task.refs) \subseteq Range(tasks[task.parent].refs)
  <2>1. task.parent \in DOMAIN seen /\ seen[task.parent].granted = Range(tasks[task.parent].refs)
    BY <1>6 DEF seen
  <2>2. Need!Delegate
    BY <1>2, <1>4, <1>6, <2>1 DEF Need!Delegate, seen
  <2>3. QED
    BY <2>2 DEF Need!Next
<1>7. QED
  BY <1>5, <1>6

\* Every step is a step of NeedToKnow, or leaves it alone.
LEMMA NeedStep ==
    ASSUME TypeOK, [Next]_vars
    PROVE  [Need!Next]_(Need!vars)
<1>1. ASSUME UNCHANGED <<tasks, findings, read>>
      PROVE  UNCHANGED Need!vars
  BY <1>1 DEF Need!vars, Concluded
<1>2. ASSUME NEW task \in IssuedTasks, IssueTask(task)
      PROVE  Need!Next
  <2>1. task \in Task /\ task.parent = 0
    BY DataAssumption
  <2>2. QED
    BY <1>2, <2>1, NewTaskSeen DEF IssueTask
<1>3. ASSUME NEW t \in DOMAIN tasks, NEW plan \in Plans, PlanTask(t, plan), tasks' # tasks
      PROVE  Need!Next
  <2>1. /\ plan.action \in DOMAIN ChildAgent /\ Within(t, plan)
        /\ tasks' = Append(tasks, Child(t, plan)) /\ UNCHANGED <<findings, read>>
    BY <1>3 DEF PlanTask
  <2>2. /\ Child(t, plan) \in Task /\ Child(t, plan).parent = t
        /\ Range(Child(t, plan).refs) \subseteq Range(tasks[t].refs)
    BY <2>1, TypeOfChild DEF Child, Within
  <2>3. QED
    BY <2>1, <2>2, NewTaskSeen
<1>4. ASSUME NEW t \in DOMAIN tasks, FollowWithTrace(t)
      PROVE  Need!Next
  <2>1. /\ TraceTask(t) \in Task /\ TraceTask(t).parent = t
        /\ Range(TraceTask(t).refs) \subseteq Range(tasks[t].refs)
    BY TypeOfTraceTask DEF TraceTask
  <2>2. QED
    BY <1>4, <2>1, NewTaskSeen DEF FollowWithTrace
<1>5. ASSUME NEW t \in DOMAIN tasks, ReadRefused(t) \/ InvestigateManually(t)
      PROVE  Need!Next
  <2>1. read' = read \cup Learnt(t) /\ UNCHANGED <<tasks, findings>>
    BY <1>5 DEF ReadRefused, InvestigateManually, Investigates, tables
  <2>2. QED
    BY <2>1, StudyOnly DEF Need!Next
<1>6. ASSUME NEW t \in DOMAIN tasks, NEW refs \in Answers, NEW attempt \in 1..2,
             Investigate(t, refs, attempt)
      PROVE  Need!Next
  <2>1. read' = read \cup Learnt(t) /\ ReadsAll(t) /\ UNCHANGED tasks
    BY <1>6 DEF Investigate, Investigates
  <2>2. CASE UNCHANGED findings
    BY <2>1, <2>2, StudyOnly DEF Need!Next
  <2>3. CASE Cites(t, refs) /\ Concludes(t, "INVESTIGATION_FINDING", "COMPLETED", refs)
    <3>1. refs \in (SUBSET Range(tasks[t].refs)) \ {{}}
      BY <2>3, DataAssumption DEF Cites
    <3>2. Need!Study
      BY <2>1, <2>3, <3>1, StudyConcludes
    <3>3. QED
      BY <3>2 DEF Need!Next
  <2>4. QED
    BY <1>6, <2>2, <2>3 DEF Investigate
<1>7. ASSUME NEW t \in DOMAIN tasks, Trace(t)
      PROVE  Need!Next
  <2>1. read' = read \cup Learnt(t) /\ ReadsAll(t) /\ UNCHANGED tasks
    BY <1>7 DEF Trace
  <2>2. CASE tasks[t].refs = <<>>
    <3>1. UNCHANGED findings
      BY <1>7, <2>2 DEF Trace
    <3>2. QED
      BY <2>1, <3>1, StudyOnly DEF Need!Next
  <2>3. CASE tasks[t].refs # <<>>
    <3>1. tasks[t].refs \in Seq(Evidence)
      <4>1. tasks[t] \in Task
        BY DEF TypeOK
      <4>2. QED
        BY <4>1 DEF Task
    <3>2. Range(tasks[t].refs) \in (SUBSET Range(tasks[t].refs)) \ {{}}
      BY <2>3, <3>1, RangeOfNonEmpty
    <3>3. Concludes(t, "ATTACK_TIMELINE", "COMPLETED", Range(tasks[t].refs))
      BY <1>7, <2>3 DEF Trace
    <3>4. Need!Study
      BY <2>1, <3>2, <3>3, StudyConcludes
    <3>5. QED
      BY <3>4 DEF Need!Next
  <2>4. QED
    BY <2>2, <2>3
<1>8. ASSUME NEW t \in DOMAIN tasks, NEW chainValid \in BOOLEAN, Generate(t, chainValid)
      PROVE  UNCHANGED Need!vars
  <2>1. Concluded' = Concluded
    BY <1>8, ReportsStandApart
  <2>2. QED
    BY <1>8, <2>1 DEF Generate, Need!vars
<1>9. QED
  BY <1>1, <1>2, <1>3, <1>4, <1>5, <1>6, <1>7, <1>8
     DEF Next, vars, tables, EvidenceSteps, Originals, CreateEvidence, AppendCorrection, AgentSteps,
     PlanUnavailable, PlanTask, Monitor, Promote

\* Delegation implements NeedToKnow: whatever the main agent's model plans, a task
\* is granted no more than its parent, reads only what it was granted, and its
\* findings cite only what it has read.
THEOREM ImplementsNeedToKnow == Spec => NeedsToKnow
<1>1. Init => Need!Init
  <2>1. ASSUME Init PROVE Need!Init
    <3>1. DOMAIN tasks = {} /\ Concluded = {} /\ read = {}
      BY <2>1, EmptySeq DEF Init, Concluded, Range
    <3>2. seen = <<>>
      BY <3>1 DEF seen
    <3>3. QED
      BY <3>1, <3>2 DEF Need!Init, seen
  <2>2. QED
    BY <2>1
<1>2. TypeOK /\ [Next]_vars => [Need!Next]_(Need!vars)
  BY NeedStep
<1>3. QED
  BY <1>1, <1>2, TypeCorrect, PTL DEF Spec, NeedsToKnow, Need!Spec

=============================================================================
