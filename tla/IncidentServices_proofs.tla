----------------------- MODULE IncidentServices_proofs -----------------------
(***************************************************************************)
(* Theorems about IncidentServices, for every set of requests and contents *)
(* and every bound: type correctness, the safety invariants that the       *)
(* services run checks on two requests, its two action properties, and     *)
(* that the services implement IncidentLifecycle.                          *)
(***************************************************************************)
EXTENDS IncidentServices, SequenceTheorems, TLAPS

\* Appending a record adds its content to the approved ones if it approves,
\* and nothing otherwise (ActionRepository.add_approval).
LEMMA ApprovedInAppend ==
    ASSUME NEW s \in Seq(Approval), NEW a \in Approval
    PROVE  ApprovedIn(Append(s, a)) =
               ApprovedIn(s) \cup (IF a.decision = "APPROVED" THEN {a.content} ELSE {})
<1> DEFINE t == Append(s, a)
<1>1. /\ t \in Seq(Approval) /\ Len(t) = Len(s) + 1 /\ t[Len(s) + 1] = a
      /\ \A i \in 1..Len(s) : t[i] = s[i]
  BY AppendProperties
<1>2. DOMAIN s = 1..Len(s) /\ DOMAIN t = 1..Len(t) /\ Len(s) \in Nat
  BY <1>1, LenProperties
<1>3. a = [decision |-> a.decision, content |-> a.content] /\ a.content \in Contents
  BY DEF Approval
<1>4. ASSUME NEW c \in Contents
      PROVE  (\E i \in DOMAIN t : t[i] = [decision |-> "APPROVED", content |-> c])
               <=> \/ \E i \in DOMAIN s : s[i] = [decision |-> "APPROVED", content |-> c]
                   \/ a = [decision |-> "APPROVED", content |-> c]
  <2>1. DOMAIN t = DOMAIN s \cup {Len(s) + 1}
    BY <1>1, <1>2
  <2>2. QED
    BY <1>1, <1>2, <2>1
<1>5. QED
  BY <1>3, <1>4 DEF ApprovedIn

-----------------------------------------------------------------------------
\* A step keeps every variable in its type.
LEMMA TypeStep ==
    ASSUME TypeOK, [Next]_vars
    PROVE  TypeOK'
<1> USE ContentsAssumption, NoneAssumption
<1>1. CASE Ingest
  BY <1>1 DEF TypeOK, Ingest, InitialMock, MockState
<1>2. CASE OpenIncident
  BY <1>2 DEF TypeOK, OpenIncident, Statuses
<1>3. CASE PlanInvestigation
  BY <1>3 DEF TypeOK, PlanInvestigation, Statuses
<1>4. CASE EvaluateFacts
  BY <1>4 DEF TypeOK, EvaluateFacts, Statuses
<1>5. ASSUME NEW f \in FactTypes, PromoteFact(f)
      PROVE  TypeOK'
  BY <1>5 DEF TypeOK, PromoteFact
<1>6. ASSUME NEW r \in Requests, NEW c \in Contents, CreateRequest(r, c)
      PROVE  TypeOK'
  BY <1>6 DEF TypeOK, CreateRequest
<1>7. ASSUME NEW r \in Requests, NEW c \in Contents, AmendRequest(r, c)
      PROVE  TypeOK'
  BY <1>7 DEF TypeOK, AmendRequest
<1>8. ASSUME NEW r \in Requests, NEW m \in Modes, EvaluatePolicy(r, m)
      PROVE  TypeOK'
  BY <1>8 DEF TypeOK, EvaluatePolicy, Outcomes
<1>9. ASSUME NEW r \in Requests, NEW d \in {"APPROVED", "REJECTED"}, DecideApproval(r, d)
      PROVE  TypeOK'
  <2>1. [decision |-> d, content |-> request[r]] \in Approval
    BY <1>9 DEF TypeOK, DecideApproval, Approval
  <2>2. Append(approvals[r], [decision |-> d, content |-> request[r]]) \in Seq(Approval)
    BY <2>1, AppendProperties DEF TypeOK
  <2>3. approvals' \in [Requests -> Seq(Approval)]
    BY <1>9, <2>2 DEF TypeOK, DecideApproval
  <2>4. QED
    BY <1>9, <2>3 DEF TypeOK, DecideApproval
<1>10. ASSUME NEW r \in Requests, NEW m \in Modes, Preauthorize(r, m)
       PROVE  TypeOK'
  BY <1>10 DEF TypeOK, Preauthorize, Preauthorization
<1>11. ASSUME NEW r \in Requests, NEW m \in Modes, Execute(r, m)
       PROVE  TypeOK'
  BY <1>11 DEF TypeOK, Execute, CanExecute, Statuses, RotatedMock, MockState
<1>12. ASSUME NEW r \in Requests, NEW m \in Modes, ExecuteHalts(r, m)
       PROVE  TypeOK'
  BY <1>12 DEF TypeOK, ExecuteHalts, CanExecute, MockState
<1>13. ASSUME NEW r \in Requests, NEW forced \in BOOLEAN, Verify(r, forced)
       PROVE  TypeOK'
  <2>1. (Recovered /\ ~forced) \in BOOLEAN
    BY DEF Recovered
  <2>2. [request |-> r, passed |-> Recovered /\ ~forced] \in Verdict
    BY <2>1 DEF Verdict
  <2>3. QED
    BY <1>13, <2>2 DEF TypeOK, Verify, Statuses
<1>14. CASE GenerateReport
  BY <1>14 DEF TypeOK, GenerateReport
<1>15. CASE Close
  BY <1>15 DEF TypeOK, Close, Statuses
<1>16. CASE CorruptAudit
  BY <1>16 DEF TypeOK, CorruptAudit
<1>17. CASE UNCHANGED vars
  BY <1>17 DEF TypeOK, vars
<1>18. QED
  BY <1>1, <1>2, <1>3, <1>4, <1>5, <1>6, <1>7, <1>8, <1>9, <1>10, <1>11, <1>12,
     <1>13, <1>14, <1>15, <1>16, <1>17 DEF Next

\* The state of the services always has its type.
THEOREM TypeCorrect == Spec => []TypeOK
<1>1. Init => TypeOK
  <2>1. <<>> \in Seq(Approval)
    OBVIOUS
  <2>2. QED
    BY <2>1 DEF Init, TypeOK, Statuses, Outcomes
<1>2. TypeOK /\ [Next]_vars => TypeOK'
  BY TypeStep
<1>3. QED
  BY <1>1, <1>2, PTL DEF Spec

-----------------------------------------------------------------------------
\* Records are only added: what a request was decided, approved, pre-authorized
\* or executed as stays, and its target stays what it is.
LEMMA RecordsStay ==
    ASSUME TypeOK, [Next]_vars, NEW q \in Requests
    PROVE  /\ policy[q] # "NONE" => policy'[q] = policy[q]
           /\ preauth[q] # None => preauth'[q] = preauth[q]
           /\ execution[q] # None => execution'[q] = execution[q]
           /\ request[q] \in OnTarget => request'[q] \in OnTarget
           /\ Endorsements(q) \subseteq Endorsements(q)'
<1> USE ContentsAssumption, NoneAssumption
<1> DEFINE Stay == /\ policy[q] # "NONE" => policy'[q] = policy[q]
                   /\ preauth[q] # None => preauth'[q] = preauth[q]
                   /\ execution[q] # None => execution'[q] = execution[q]
                   /\ request[q] \in OnTarget => request'[q] \in OnTarget
                   /\ Endorsements(q) \subseteq Endorsements(q)'
<1>1. CASE UNCHANGED <<policy, preauth, execution, request, approvals>>
  BY <1>1 DEF Endorsements
<1>2. CASE Ingest \/ OpenIncident \/ PlanInvestigation \/ EvaluateFacts
              \/ GenerateReport \/ Close \/ CorruptAudit \/ UNCHANGED vars
  BY <1>1, <1>2 DEF Ingest, OpenIncident, PlanInvestigation, EvaluateFacts,
                    GenerateReport, Close, CorruptAudit, vars
<1>3. ASSUME NEW f \in FactTypes, PromoteFact(f)
      PROVE  Stay
  BY <1>1, <1>3 DEF PromoteFact
<1>4. ASSUME NEW r \in Requests, NEW c \in Contents, CreateRequest(r, c) \/ AmendRequest(r, c)
      PROVE  Stay
  BY <1>4 DEF CreateRequest, AmendRequest, SameTarget, TypeOK, Endorsements
<1>5. ASSUME NEW r \in Requests, NEW m \in Modes,
             EvaluatePolicy(r, m) \/ Preauthorize(r, m)
      PROVE  Stay
  BY <1>5 DEF EvaluatePolicy, Preauthorize, TypeOK, Endorsements
<1>6. ASSUME NEW r \in Requests, NEW m \in Modes, Execute(r, m) \/ ExecuteHalts(r, m)
      PROVE  Stay
  BY <1>6 DEF Execute, ExecuteHalts, CanExecute, TypeOK, Endorsements
<1>7. ASSUME NEW r \in Requests, NEW d \in {"APPROVED", "REJECTED"}, DecideApproval(r, d)
      PROVE  Stay
  <2> DEFINE a == [decision |-> d, content |-> request[r]]
  <2>1. a \in Approval /\ approvals[r] \in Seq(Approval)
    BY <1>7 DEF TypeOK, DecideApproval, Approval
  <2>2. approvals'[q] = IF q = r THEN Append(approvals[r], a) ELSE approvals[q]
    BY <1>7 DEF TypeOK, DecideApproval
  <2>3. Endorsements(q) \subseteq Endorsements(q)'
    BY <2>1, <2>2, ApprovedInAppend DEF Endorsements
  <2>4. QED
    BY <1>7, <2>3 DEF DecideApproval
<1>8. ASSUME NEW r \in Requests, NEW forced \in BOOLEAN, Verify(r, forced)
      PROVE  Stay
  BY <1>1, <1>8 DEF Verify
<1>9. QED
  BY <1>2, <1>3, <1>4, <1>5, <1>6, <1>7, <1>8 DEF Next

\* A gate that lets an execution pass shows the authority for that content.
LEMMA AuthorityOfGate ==
    ASSUME TypeOK, NEW r \in Requests, NEW m \in Modes, CanExecute(r, m)
    PROVE  /\ request[r] \in Contents
           /\ \/ /\ policy[r] = "ALLOW_WITH_APPROVAL" /\ request[r] \in Endorsements(r)
                 /\ approvals[r] # <<>> /\ LatestApproval(r).decision = "APPROVED"
              \/ /\ policy[r] = "ALLOW_WITH_PREAUTHORIZATION"
                 /\ AutoPreauthorized(r) /\ preauth[r].content = request[r]
<1> USE ContentsAssumption, NoneAssumption
<1>1. request[r] \in Contents
  BY DEF CanExecute, TypeOK
<1>2. CASE m = "PRODUCTION_GUARDED"
  <2>1. /\ policy[r] = "ALLOW_WITH_APPROVAL" /\ approvals[r] # <<>>
        /\ LatestApproval(r) = [decision |-> "APPROVED", content |-> request[r]]
    BY <1>2 DEF CanExecute, Authorised
  <2>2. approvals[r] \in Seq(Approval)
    BY DEF TypeOK
  <2>3. Len(approvals[r]) \in DOMAIN approvals[r]
    BY <2>1, <2>2, LenProperties, EmptySeq
  <2>4. request[r] \in Endorsements(r)
    BY <1>1, <2>1, <2>3 DEF LatestApproval, Endorsements, ApprovedIn
  <2>5. QED
    BY <1>1, <2>1, <2>4
<1>3. CASE m # "PRODUCTION_GUARDED"
  BY <1>1, <1>3 DEF CanExecute, Authorised, AutoPreauthorized, Preauthorization
<1>4. QED
  BY <1>2, <1>3

-----------------------------------------------------------------------------
\* Approvals come under a guarded policy only, automatic pre-authorizations
\* under an autonomous one and for compliant contents.
LEMMA AuthorityFitsPolicyStep ==
    ASSUME TypeOK, AuthorityFitsPolicy, [Next]_vars
    PROVE  AuthorityFitsPolicy'
<1> SUFFICES ASSUME NEW q \in Requests
             PROVE  /\ approvals'[q] # <<>> => policy'[q] = "ALLOW_WITH_APPROVAL"
                    /\ AutoPreauthorized(q)' =>
                           /\ policy'[q] = "ALLOW_WITH_PREAUTHORIZATION"
                           /\ preauth'[q].content \in Compliant
  BY DEF AuthorityFitsPolicy
<1>1. /\ policy[q] # "NONE" => policy'[q] = policy[q]
      /\ preauth[q] # None => preauth'[q] = preauth[q]
  BY RecordsStay
<1>2. approvals'[q] # <<>> => policy'[q] = "ALLOW_WITH_APPROVAL"
  <2>1. CASE approvals' = approvals
    BY <1>1, <2>1 DEF AuthorityFitsPolicy
  <2>2. ASSUME NEW r \in Requests, NEW d \in {"APPROVED", "REJECTED"}, DecideApproval(r, d)
        PROVE  approvals'[q] # <<>> => policy'[q] = "ALLOW_WITH_APPROVAL"
    BY <1>1, <2>2 DEF DecideApproval, AuthorityFitsPolicy, TypeOK
  <2>3. QED
    BY <2>1, <2>2 DEF Next, vars, Ingest, OpenIncident, PlanInvestigation,
       EvaluateFacts, PromoteFact, CreateRequest, AmendRequest, EvaluatePolicy,
       Preauthorize, Execute, ExecuteHalts, Verify, GenerateReport, Close, CorruptAudit
<1>3. AutoPreauthorized(q)' => /\ policy'[q] = "ALLOW_WITH_PREAUTHORIZATION"
                               /\ preauth'[q].content \in Compliant
  <2>1. CASE preauth' = preauth
    BY <1>1, <2>1 DEF AuthorityFitsPolicy, AutoPreauthorized
  <2>2. ASSUME NEW r \in Requests, NEW m \in Modes, Preauthorize(r, m)
        PROVE  AutoPreauthorized(q)' => /\ policy'[q] = "ALLOW_WITH_PREAUTHORIZATION"
                                        /\ preauth'[q].content \in Compliant
    BY <1>1, <2>2 DEF Preauthorize, Preauthorizable, ChecksPass, AutoPreauthorized,
                      AuthorityFitsPolicy, TypeOK
  <2>3. QED
    BY <2>1, <2>2 DEF Next, vars, Ingest, OpenIncident, PlanInvestigation,
       EvaluateFacts, PromoteFact, CreateRequest, AmendRequest, EvaluatePolicy,
       DecideApproval, Execute, ExecuteHalts, Verify, GenerateReport, Close, CorruptAudit
<1>4. QED
  BY <1>2, <1>3

\* What is executed was authorised for that very content.
LEMMA ExecutedAsAuthorisedStep ==
    ASSUME TypeOK, AuthorityFitsPolicy, ExecutedAsAuthorised, [Next]_vars
    PROVE  ExecutedAsAuthorised'
<1> USE NoneAssumption
<1> SUFFICES ASSUME NEW q \in Requests, execution'[q] # None
             PROVE  \/ /\ policy'[q] = "ALLOW_WITH_APPROVAL"
                       /\ execution'[q] \in Endorsements(q)'
                       /\ ~AutoPreauthorized(q)'
                    \/ /\ policy'[q] = "ALLOW_WITH_PREAUTHORIZATION"
                       /\ AutoPreauthorized(q)' /\ preauth'[q].content = execution'[q]
                       /\ execution'[q] \in Compliant
                       /\ approvals'[q] = <<>>
  BY DEF ExecutedAsAuthorised
<1>1. /\ policy[q] # "NONE" => policy'[q] = policy[q]
      /\ preauth[q] # None => preauth'[q] = preauth[q]
      /\ execution[q] # None => execution'[q] = execution[q]
      /\ Endorsements(q) \subseteq Endorsements(q)'
  BY RecordsStay
<1>2. AuthorityFitsPolicy'
  BY AuthorityFitsPolicyStep
<1>3. CASE execution[q] # None
  BY <1>1, <1>2, <1>3 DEF ExecutedAsAuthorised, AutoPreauthorized, AuthorityFitsPolicy
<1>4. CASE execution[q] = None
  <2>1. PICK r \in Requests, m \in Modes : Execute(r, m)
    BY <1>4 DEF Next, vars, Ingest, OpenIncident, PlanInvestigation,
       EvaluateFacts, PromoteFact, CreateRequest, AmendRequest, EvaluatePolicy,
       DecideApproval, Preauthorize, ExecuteHalts, Verify, GenerateReport, Close,
       CorruptAudit
  <2>2. r = q /\ execution'[q] = request[q] /\ CanExecute(q, m)
    BY <1>4, <2>1 DEF Execute, TypeOK
  <2>3. /\ UNCHANGED <<policy, approvals, preauth>>
        /\ \/ /\ policy[q] = "ALLOW_WITH_APPROVAL" /\ request[q] \in Endorsements(q)
           \/ /\ policy[q] = "ALLOW_WITH_PREAUTHORIZATION"
              /\ AutoPreauthorized(q) /\ preauth[q].content = request[q]
    BY <2>1, <2>2, AuthorityOfGate DEF Execute
  <2>4. QED
    BY <1>1, <1>2, <2>2, <2>3 DEF AuthorityFitsPolicy, AutoPreauthorized
<1>5. QED
  BY <1>3, <1>4

\* There is one execution at most, exactly past ATTRIBUTED.
LEMMA SingleRotationStep ==
    ASSUME TypeOK, SingleRotation, [Next]_vars
    PROVE  SingleRotation'
<1> USE NoneAssumption
<1>1. CASE UNCHANGED <<status, execution, facts>>
  BY <1>1 DEF SingleRotation
<1>2. CASE Ingest \/ GenerateReport \/ CorruptAudit \/ UNCHANGED vars
  BY <1>1, <1>2 DEF Ingest, GenerateReport, CorruptAudit, vars
<1>3. CASE OpenIncident \/ PlanInvestigation \/ EvaluateFacts \/ Close
  BY <1>3 DEF OpenIncident, CanOpen, PlanInvestigation, CanPlan, EvaluateFacts,
              CanAttribute, Close, CanClose, SingleRotation
<1>4. ASSUME NEW f \in FactTypes, PromoteFact(f)
      PROVE  SingleRotation'
  BY <1>4 DEF PromoteFact, SingleRotation, TypeOK
<1>5. ASSUME NEW r \in Requests, NEW c \in Contents, CreateRequest(r, c) \/ AmendRequest(r, c)
      PROVE  SingleRotation'
  BY <1>1, <1>5 DEF CreateRequest, AmendRequest
<1>6. ASSUME NEW r \in Requests, NEW m \in Modes,
             EvaluatePolicy(r, m) \/ Preauthorize(r, m) \/ ExecuteHalts(r, m)
      PROVE  SingleRotation'
  BY <1>1, <1>6 DEF EvaluatePolicy, Preauthorize, ExecuteHalts
<1>7. ASSUME NEW r \in Requests, NEW m \in Modes, Execute(r, m)
      PROVE  SingleRotation'
  <2>1. \A q \in Requests : execution[q] = None
    BY <1>7 DEF Execute, SingleRotation
  <2>2. /\ execution' = [execution EXCEPT ![r] = request[r]] /\ request[r] # None
        /\ status' = "ROTATED" /\ facts' = facts /\ facts = FactTypes
    BY <1>7 DEF Execute, CanExecute, SingleRotation
  <2>3. \A q \in Requests : execution'[q] # None <=> q = r
    BY <2>1, <2>2 DEF TypeOK
  <2>4. QED
    BY <2>2, <2>3 DEF SingleRotation
<1>8. ASSUME NEW r \in Requests, NEW d \in {"APPROVED", "REJECTED"}, DecideApproval(r, d)
      PROVE  SingleRotation'
  BY <1>1, <1>8 DEF DecideApproval
<1>9. ASSUME NEW r \in Requests, NEW forced \in BOOLEAN, Verify(r, forced)
      PROVE  SingleRotation'
  BY <1>9 DEF Verify, SingleRotation
<1>10. QED
  BY <1>2, <1>3, <1>4, <1>5, <1>6, <1>7, <1>8, <1>9 DEF Next

\* An environment that has left its initial state has an accountable request.
LEMMA ContainmentAccountableStep ==
    ASSUME TypeOK, ContainmentAccountable, [Next]_vars
    PROVE  ContainmentAccountable'
<1> USE NoneAssumption
<1> DEFINE Accountable(q) == /\ request[q] \in OnTarget
                             /\ Endorsements(q) # {} \/ AutoPreauthorized(q)
<1>1. ASSUME NEW q \in Requests, Accountable(q)
      PROVE  Accountable(q)'
  BY <1>1, RecordsStay DEF AutoPreauthorized
<1>2. CASE mock' = mock
  BY <1>1, <1>2 DEF ContainmentAccountable
<1>3. CASE Ingest
  BY <1>3 DEF Ingest, InitialMock, ContainmentAccountable
<1>4. ASSUME NEW r \in Requests, NEW m \in Modes, Execute(r, m) \/ ExecuteHalts(r, m)
      PROVE  ContainmentAccountable'
  <2>1. CanExecute(r, m)
    BY <1>4 DEF Execute, ExecuteHalts
  <2>2. Accountable(r)
    BY <2>1, AuthorityOfGate DEF CanExecute
  <2>3. mock \in MockState
    BY <2>1 DEF CanExecute, TypeOK
  <2>4. mock'.newKey = "ACTIVE" => mock'.oldKey = "FROZEN" /\ mock'.ci = "NEW"
    BY <1>4, <2>1, <2>3 DEF Execute, ExecuteHalts, CanExecute, RotatedMock, MockState,
                            ContainmentAccountable
  <2>5. QED
    BY <1>1, <2>2, <2>4 DEF ContainmentAccountable
<1>5. QED
  BY <1>2, <1>3, <1>4 DEF Next, vars, OpenIncident, PlanInvestigation,
     EvaluateFacts, PromoteFact, CreateRequest, AmendRequest, EvaluatePolicy,
     Preauthorize, DecideApproval, Verify, GenerateReport, Close, CorruptAudit

\* Verdicts are about executions, and an incident past VERIFIED has a passed one.
LEMMA VerdictsHaveExecutionsStep ==
    ASSUME TypeOK, VerdictsHaveExecutions, [Next]_vars
    PROVE  VerdictsHaveExecutions'
<1>1. ASSUME NEW v \in verdicts
      PROVE  execution'[v.request] # None
  <2>1. v.request \in Requests
    BY DEF TypeOK, Verdict
  <2>2. QED
    BY <2>1, RecordsStay DEF VerdictsHaveExecutions
<1>2. CASE /\ verdicts' = verdicts
           /\ status' \in {"VERIFIED", "CLOSED"} => status \in {"VERIFIED", "CLOSED"}
  BY <1>1, <1>2 DEF VerdictsHaveExecutions, Proven
<1>3. CASE OpenIncident \/ PlanInvestigation \/ EvaluateFacts \/ Close
  BY <1>2, <1>3 DEF OpenIncident, PlanInvestigation, EvaluateFacts, Close, CanClose
<1>4. ASSUME NEW r \in Requests, NEW m \in Modes, Execute(r, m)
      PROVE  VerdictsHaveExecutions'
  BY <1>2, <1>4 DEF Execute
<1>5. ASSUME NEW r \in Requests, NEW forced \in BOOLEAN, Verify(r, forced)
      PROVE  VerdictsHaveExecutions'
  <2> DEFINE passed == Recovered /\ ~forced
  <2>1. /\ execution[r] # None /\ execution' = execution
        /\ verdicts' = verdicts \cup {[request |-> r, passed |-> passed]}
        /\ status' = IF passed /\ status = "ROTATED" THEN "VERIFIED" ELSE status
    BY <1>5 DEF Verify
  <2>2. \A v \in verdicts' : execution'[v.request] # None
    BY <1>1, <2>1
  <2>3. status' \in {"VERIFIED", "CLOSED"} => Proven'
    <3>1. CASE passed /\ status = "ROTATED"
      BY <2>1, <3>1 DEF Proven
    <3>2. CASE ~(passed /\ status = "ROTATED")
      BY <2>1, <3>2 DEF Proven, VerdictsHaveExecutions
    <3>3. QED
      BY <3>1, <3>2
  <2>4. QED
    BY <2>2, <2>3 DEF VerdictsHaveExecutions
<1>6. QED
  BY <1>2, <1>3, <1>4, <1>5 DEF Next, vars, Ingest, PromoteFact, CreateRequest,
     AmendRequest, EvaluatePolicy, Preauthorize, ExecuteHalts, DecideApproval,
     GenerateReport, CorruptAudit

-----------------------------------------------------------------------------
\* The inductive invariant holds in every reachable state.
THEOREM Inductive == Spec => []IInv
<1>1. Init => IInv
  <2>1. <<>> \in Seq(Approval)
    OBVIOUS
  <2>2. Init => TypeOK
    BY <2>1 DEF Init, TypeOK, Statuses, Outcomes
  <2>3. QED
    BY <2>2 DEF Init, IInv, AuthorityFitsPolicy, ExecutedAsAuthorised, SingleRotation,
                ContainmentAccountable, VerdictsHaveExecutions, AutoPreauthorized
<1>2. IInv /\ [Next]_vars => IInv'
  BY TypeStep, AuthorityFitsPolicyStep, ExecutedAsAuthorisedStep, SingleRotationStep,
     ContainmentAccountableStep, VerdictsHaveExecutionsStep DEF IInv
<1>3. QED
  BY <1>1, <1>2, PTL DEF Spec

\* Nothing is executed but what was approved or pre-authorized, word for word.
THEOREM AuthorityHolds == Spec => []ExecutedAsAuthorised
<1>1. IInv => ExecutedAsAuthorised
  BY DEF IInv
<1>2. QED
  BY <1>1, Inductive, PTL

\* An incident is rotated at most once, on six confirmed facts.
THEOREM RotationIsSingle == Spec => []SingleRotation
<1>1. IInv => SingleRotation
  BY DEF IInv
<1>2. QED
  BY <1>1, Inductive, PTL

\* The environment is never touched without an accountable request.
THEOREM ContainmentIsAccountable == Spec => []ContainmentAccountable
<1>1. IInv => ContainmentAccountable
  BY DEF IInv
<1>2. QED
  BY <1>1, Inductive, PTL

-----------------------------------------------------------------------------
\* A rejection stands: nothing is executed, and the environment is not touched
\* but by an ingest, while every last word is a rejection.
THEOREM RejectionIsRespected == Spec => RejectionHolds
<1> DEFINE Rejected == \A r \in Requests :
                          /\ approvals[r] # <<>> => LatestApproval(r).decision = "REJECTED"
                          /\ ~AutoPreauthorized(r)
<1>1. ASSUME TypeOK, Next, Rejected
      PROVE  execution' = execution /\ mock' \in {mock, InitialMock}
  <2>1. ASSUME NEW r \in Requests, NEW m \in Modes, Execute(r, m) \/ ExecuteHalts(r, m)
        PROVE  FALSE
    <3>1. CanExecute(r, m)
      BY <2>1 DEF Execute, ExecuteHalts
    <3>2. QED
      BY <1>1, <3>1, AuthorityOfGate
  <2>2. QED
    BY <1>1, <2>1 DEF Next, Ingest, OpenIncident, PlanInvestigation, EvaluateFacts,
       PromoteFact, CreateRequest, AmendRequest, EvaluatePolicy, Preauthorize,
       DecideApproval, Verify, GenerateReport, Close, CorruptAudit
<1>2. TypeOK /\ [Next]_vars =>
         [Rejected => execution' = execution /\ mock' \in {mock, InitialMock}]_vars
  BY <1>1
<1>3. QED
  BY <1>2, TypeCorrect, PTL DEF Spec, RejectionHolds

\* Verification is on a recovered environment, closure on a passed
\* verification and an intact audit chain.
THEOREM ClosureIsJustified == Spec => ClosureEvidence
<1> DEFINE Evidence ==
        /\ status # "VERIFIED" /\ status' = "VERIFIED" =>
               Recovered /\ \E r \in Requests : [request |-> r, passed |-> TRUE] \in verdicts'
        /\ status # "CLOSED" /\ status' = "CLOSED" =>
               /\ \E r \in Requests : /\ execution[r] # None
                                      /\ [request |-> r, passed |-> TRUE] \in verdicts
               /\ chainIntact /\ report = "VALID"
<1>1. ASSUME IInv, Next
      PROVE  Evidence
  <2>1. CASE status' = status
    BY <2>1
  <2>2. CASE OpenIncident \/ PlanInvestigation \/ EvaluateFacts
    BY <2>2 DEF OpenIncident, PlanInvestigation, EvaluateFacts
  <2>3. CASE Close
    <3>1. PICK r \in Requests : [request |-> r, passed |-> TRUE] \in verdicts
      BY <1>1, <2>3 DEF Close, CanClose, IInv, VerdictsHaveExecutions, Proven
    <3>2. execution[r] # None
      BY <1>1, <3>1 DEF IInv, VerdictsHaveExecutions
    <3>3. QED
      BY <2>3, <3>1, <3>2 DEF Close, CanClose
  <2>4. ASSUME NEW r \in Requests, NEW m \in Modes, Execute(r, m)
        PROVE  Evidence
    BY <2>4 DEF Execute
  <2>5. ASSUME NEW r \in Requests, NEW forced \in BOOLEAN, Verify(r, forced)
        PROVE  Evidence
    <3>1. CASE Recovered /\ ~forced
      BY <2>5, <3>1 DEF Verify
    <3>2. CASE ~(Recovered /\ ~forced)
      BY <2>5, <3>2 DEF Verify
    <3>3. QED
      BY <3>1, <3>2
  <2>6. QED
    BY <1>1, <2>1, <2>2, <2>3, <2>4, <2>5 DEF Next, Ingest, PromoteFact,
       CreateRequest, AmendRequest, EvaluatePolicy, Preauthorize, ExecuteHalts,
       DecideApproval, GenerateReport, CorruptAudit
<1>2. IInv /\ [Next]_vars => [Evidence]_vars
  BY <1>1
<1>3. QED
  BY <1>2, Inductive, PTL DEF Spec, ClosureEvidence

-----------------------------------------------------------------------------
\* A step of the services is a step of the incident's lifecycle or invisible.
LEMMA LifecycleStep ==
    ASSUME IInv, IInv', [Next]_vars
    PROVE  [Lifecycle!Next]_(Lifecycle!vars)
<1> USE NoneAssumption DEF Lifecycle!Next, Lifecycle!vars, Lifecycle!Advance
<1>1. Sanctioned \in BOOLEAN /\ Proven \in BOOLEAN /\ Sanctioned' \in BOOLEAN /\ Proven' \in BOOLEAN
  BY DEF Sanctioned, Proven
<1>2. (Sanctioned => Sanctioned') /\ (Proven => Proven')
  <2>1. Sanctioned => Sanctioned'
    BY RecordsStay DEF Sanctioned, AutoPreauthorized, IInv
  <2>2. verdicts \subseteq verdicts'
    BY DEF Next, vars, Ingest, OpenIncident, PlanInvestigation, EvaluateFacts,
       PromoteFact, CreateRequest, AmendRequest, EvaluatePolicy, Preauthorize, Execute,
       ExecuteHalts, DecideApproval, Verify, GenerateReport, Close, CorruptAudit
  <2>3. QED
    BY <2>1, <2>2 DEF Proven
<1>3. CASE UNCHANGED <<status, approvals, preauth, verdicts>>
  BY <1>3 DEF Sanctioned, Proven, Endorsements, AutoPreauthorized
<1>4. CASE OpenIncident \/ PlanInvestigation \/ EvaluateFacts
  <2>1. Sanctioned' = Sanctioned /\ Proven' = Proven
    BY <1>4 DEF OpenIncident, PlanInvestigation, EvaluateFacts, Sanctioned, Proven,
                Endorsements, AutoPreauthorized
  <2>2. QED
    BY <1>4, <2>1 DEF OpenIncident, CanOpen, PlanInvestigation, CanPlan, EvaluateFacts,
                      CanAttribute, Lifecycle!Investigate
<1>5. CASE UNCHANGED <<status, verdicts>>
  <2>1. Proven' = Proven
    BY <1>5 DEF Proven
  <2>2. QED
    BY <1>1, <1>2, <1>5, <2>1 DEF Lifecycle!Sanction
<1>6. ASSUME NEW r \in Requests, NEW m \in Modes, Execute(r, m)
      PROVE  Lifecycle!Rotate
  <2>1. CanExecute(r, m) /\ UNCHANGED <<approvals, preauth, verdicts>>
    BY <1>6 DEF Execute
  <2>2. Sanctioned /\ Sanctioned' = Sanctioned /\ Proven' = Proven
    BY <2>1, AuthorityOfGate DEF IInv, Sanctioned, Proven, Endorsements, AutoPreauthorized
  <2>3. QED
    BY <1>6, <2>2 DEF Execute, Lifecycle!Rotate
<1>7. ASSUME NEW r \in Requests, NEW forced \in BOOLEAN, Verify(r, forced)
      PROVE  [Lifecycle!Next]_(Lifecycle!vars)
  <2> DEFINE passed == Recovered /\ ~forced
  <2>1. /\ execution[r] # None /\ UNCHANGED <<approvals, preauth>>
        /\ verdicts' = verdicts \cup {[request |-> r, passed |-> passed]}
        /\ status' = IF passed /\ status = "ROTATED" THEN "VERIFIED" ELSE status
    BY <1>7 DEF Verify
  <2>2. Sanctioned' = Sanctioned
    BY <2>1 DEF Sanctioned, Endorsements, AutoPreauthorized
  <2>3. CASE passed
    <3>1. status \in {"ROTATED", "VERIFIED", "CLOSED"}
      BY <2>1 DEF IInv, SingleRotation
    <3>2. Proven' = TRUE
      BY <2>1, <2>3 DEF Proven
    <3>3. status' = IF status = "ROTATED" THEN "VERIFIED" ELSE status
      BY <2>1, <2>3
    <3>4. QED
      BY <2>2, <3>1, <3>2, <3>3 DEF Lifecycle!Verify
  <2>4. CASE ~passed
    <3>1. Proven' = Proven /\ status' = status
      BY <2>1, <2>4 DEF Proven
    <3>2. QED
      BY <2>2, <3>1
  <2>5. QED
    BY <2>3, <2>4
<1>8. CASE Close
  <2>1. Sanctioned' = Sanctioned /\ Proven' = Proven
    BY <1>8 DEF Close, Sanctioned, Proven, Endorsements, AutoPreauthorized
  <2>2. QED
    BY <1>8, <2>1 DEF Close, CanClose, IInv, VerdictsHaveExecutions, Lifecycle!Close
<1>9. QED
  BY <1>3, <1>4, <1>5, <1>6, <1>7, <1>8 DEF Next, vars, Ingest, PromoteFact,
     CreateRequest, AmendRequest, EvaluatePolicy, Preauthorize, ExecuteHalts,
     DecideApproval, GenerateReport, CorruptAudit

\* The services, called in any order, implement the lifecycle.
THEOREM ServicesImplementLifecycle == Spec => FollowsLifecycle
<1>1. Init => Lifecycle!Init
  <2>1. Init => Sanctioned = FALSE /\ Proven = FALSE
    <3>1. DOMAIN <<>> = {}
      OBVIOUS
    <3>2. ASSUME Init, NEW r \in Requests
          PROVE  Endorsements(r) = {} /\ ~AutoPreauthorized(r)
      BY <3>1, <3>2 DEF Init, Endorsements, ApprovedIn, AutoPreauthorized
    <3>3. QED
      BY <3>2 DEF Init, Sanctioned, Proven
  <2>2. QED
    BY <2>1 DEF Init, Lifecycle!Init
<1>2. IInv /\ IInv' /\ [Next]_vars => [Lifecycle!Next]_(Lifecycle!vars)
  BY LifecycleStep
<1>3. QED
  BY <1>1, <1>2, Inductive, PTL DEF Spec, FollowsLifecycle, Lifecycle!Spec

=============================================================================
