-------------------------- MODULE IncidentServices --------------------------
(***************************************************************************)
(* The domain services behind one credential incident, over one database   *)
(* session: event intake (services/events.py, services/state.py), fact     *)
(* promotion (services/facts.py), action planning, policy, approval,       *)
(* pre-authorization and controlled execution (actions/service.py,         *)
(* policies/engine.py), verification (verification/engine.py), audit       *)
(* report and closure (audit/reporting.py), and the Mock environment they  *)
(* act on (mock/state.py).                                                 *)
(*                                                                         *)
(* Every service is called in any order, any number of times and for any   *)
(* request: that is what a caller that re-executes a workflow node after a *)
(* failure, or the repository's integration tests, may do.  DemoRun        *)
(* composes the same actions in the order of the workflow graph.           *)
(*                                                                         *)
(* A service that raises is modelled by the writes it has already flushed  *)
(* when it raises; one that raises before its first write has no step.     *)
(***************************************************************************)
EXTENDS Naturals, Sequences, FiniteSets

CONSTANTS
    Requests,           \* ActionRequest rows; each has its own idempotency key
    Contents,           \* what a request row says; equal contents, equal digests
    Compliant,          \* contents that pass every check of the policy engine
    OnTarget,           \* contents whose target is the Mock credential
    AutonomousEnabled,  \* COMPETITION_AUTONOMOUS is explicitly enabled
    MaxApprovals,       \* bound: approval records per request
    None

ASSUME ContentsAssumption ==
    /\ Compliant \subseteq OnTarget
    /\ OnTarget \subseteq Contents

ASSUME BoundsAssumption ==
    /\ AutonomousEnabled \in BOOLEAN
    /\ MaxApprovals \in Nat

VARIABLES
    status,      \* SecurityIncident.status, "NONE" before the incident exists
    facts,       \* confirmed fact types
    mock,        \* MockScenarioState, None before it is initialised
    request,     \* request row -> its current content, or None
    policy,      \* request row -> decision of the policy engine
    approvals,   \* request row -> its approval records, oldest first
    preauth,     \* request row -> its pre-authorization record, or None
    execution,   \* request row -> the content that was executed, or None
    verdicts,    \* verification results so far
    report,      \* the latest audit report
    chainIntact  \* the incident's audit chain verifies

vars == <<status, facts, mock, request, policy, approvals, preauth, execution,
          verdicts, report, chainIntact>>

-----------------------------------------------------------------------------
Statuses == {"NONE", "DETECTED", "INVESTIGATING", "ATTRIBUTED",
             "ROTATED", "VERIFIED", "CLOSED"}

FactTypes == {"CI_ACTION_MUTATED", "SECRET_ACCESSED", "CREDENTIAL_EXPOSED",
              "CREDENTIAL_ABUSED", "SENSITIVE_DATA_ACCESSED",
              "HIGH_COST_RESOURCE_CREATED"}

Modes == {"PRODUCTION_GUARDED", "COMPETITION_AUTONOMOUS"}

Outcomes == {"NONE", "DENY", "ALLOW_WITH_APPROVAL", "ALLOW_WITH_PREAUTHORIZATION"}

Approval == [decision : {"APPROVED", "REJECTED"}, content : Contents]

Preauthorization == [decision : {"AUTO_PREAUTHORIZED", "DENY"}, content : Contents]

\* Freezing the old key also denies the attacker's calls and the creation of
\* costly resources: oldKey stands for the three.
MockState == [oldKey : {"ACTIVE", "FROZEN"},
              newKey : {"NOT_CREATED", "ACTIVE"},
              ci     : {"OLD", "NEW"}]

InitialMock == [oldKey |-> "ACTIVE", newKey |-> "NOT_CREATED", ci |-> "OLD"]

RotatedMock == [oldKey |-> "FROZEN", newKey |-> "ACTIVE", ci |-> "NEW"]

\* None stands for a missing row.
ASSUME NoneAssumption == None \notin Contents \cup Preauthorization \cup MockState

Verdict == [request : Requests, passed : BOOLEAN]

\* The type invariant.
TypeOK ==
    /\ status \in Statuses
    /\ facts \in SUBSET FactTypes
    /\ mock \in MockState \cup {None}
    /\ request \in [Requests -> Contents \cup {None}]
    /\ policy \in [Requests -> Outcomes]
    /\ approvals \in [Requests -> Seq(Approval)]
    /\ preauth \in [Requests -> Preauthorization \cup {None}]
    /\ execution \in [Requests -> Contents \cup {None}]
    /\ verdicts \in SUBSET Verdict
    /\ report \in {"NONE", "VALID", "INVALID"}
    /\ chainIntact \in BOOLEAN

Init ==
    /\ status = "NONE"
    /\ facts = {}
    /\ mock = None
    /\ request = [r \in Requests |-> None]
    /\ policy = [r \in Requests |-> "NONE"]
    /\ approvals = [r \in Requests |-> <<>>]
    /\ preauth = [r \in Requests |-> None]
    /\ execution = [r \in Requests |-> None]
    /\ verdicts = {}
    /\ report = "NONE"
    /\ chainIntact = TRUE

-----------------------------------------------------------------------------
\* The Mock environment and the synthetic evidence of the scenario.
\* Re-ingesting resets the environment whatever has happened to it.
Ingest ==
    /\ mock' = InitialMock
    /\ UNCHANGED <<status, facts, request, policy, approvals, preauth,
                   execution, verdicts, report, chainIntact>>

\* Mutant: the new incident is left in NEW.
OpenIncidentUntransitioned ==
    /\ status = "NONE"
    /\ status' = "NEW"
    /\ UNCHANGED <<facts, mock, request, policy, approvals, preauth, execution,
                   verdicts, report, chainIntact>>

\* Mutant: the repeated signal starts the incident over.
CanOpenAgain == TRUE

\* A signal opens one incident; the same signal again finds the incident and
\* the transition to DETECTED is then denied.
CanOpen == status = "NONE"

OpenIncident ==
    /\ CanOpen
    /\ status' = "DETECTED"
    /\ UNCHANGED <<facts, mock, request, policy, approvals, preauth, execution,
                   verdicts, report, chainIntact>>

\* A model answer without a task stops the workflow before this transition.
CanPlan == status = "DETECTED"

PlanInvestigation ==
    /\ CanPlan
    /\ status' = "INVESTIGATING"
    /\ UNCHANGED <<facts, mock, request, policy, approvals, preauth, execution,
                   verdicts, report, chainIntact>>

Prerequisites ==
    [CI_ACTION_MUTATED          |-> {},
     SECRET_ACCESSED            |-> {"CI_ACTION_MUTATED"},
     CREDENTIAL_EXPOSED         |-> {"SECRET_ACCESSED"},
     CREDENTIAL_ABUSED          |-> {"CREDENTIAL_EXPOSED"},
     SENSITIVE_DATA_ACCESSED    |-> {"CREDENTIAL_ABUSED"},
     HIGH_COST_RESOURCE_CREATED |-> {"CREDENTIAL_ABUSED"}]

\* FactValidator.promote with the ingested evidence of that fact type.
PromoteFact(f) ==
    /\ status # "NONE" /\ mock # None
    /\ Prerequisites[f] \subseteq facts
    /\ facts' = facts \cup {f}
    /\ UNCHANGED <<status, mock, request, policy, approvals, preauth, execution,
                   verdicts, report, chainIntact>>

\* Mutant: attribution may be repeated later and reopens the incident.
CanAttributeAgain == TRUE

\* The six promotions in prerequisite order, then the transition; the facts
\* stay promoted when the transition is denied.
CanAttribute == status = "INVESTIGATING"

EvaluateFacts ==
    /\ status # "NONE" /\ mock # None
    /\ facts' = FactTypes
    /\ status' = IF CanAttribute THEN "ATTRIBUTED" ELSE status
    /\ UNCHANGED <<mock, request, policy, approvals, preauth, execution,
                   verdicts, report, chainIntact>>

-----------------------------------------------------------------------------
SameTarget(c, d) == c \in OnTarget <=> d \in OnTarget

\* ActionRequest.idempotency_key is unique and names incident and target.
KeyIsFree(c) == \A r \in Requests : request[r] # None => ~SameTarget(request[r], c)

CreateRequest(r, c) ==
    /\ facts = FactTypes
    /\ request[r] = None /\ KeyIsFree(c)
    /\ request' = [request EXCEPT ![r] = c]
    /\ UNCHANGED <<status, facts, mock, policy, approvals, preauth, execution,
                   verdicts, report, chainIntact>>

\* Somebody rewrites the stored row, keeping its key.
AmendRequest(r, c) ==
    /\ request[r] # None /\ c # request[r] /\ SameTarget(request[r], c)
    /\ request' = [request EXCEPT ![r] = c]
    /\ UNCHANGED <<status, facts, mock, policy, approvals, preauth, execution,
                   verdicts, report, chainIntact>>

ChecksPass(r) == facts = FactTypes /\ request[r] \in Compliant

\* One decision per request: action_request_id is unique among decisions.
EvaluatePolicy(r, m) ==
    /\ request[r] # None /\ policy[r] = "NONE"
    /\ policy' = [policy EXCEPT ![r] =
                    IF ~ChecksPass(r)              THEN "DENY"
                    ELSE IF m = "PRODUCTION_GUARDED" THEN "ALLOW_WITH_APPROVAL"
                    ELSE "ALLOW_WITH_PREAUTHORIZATION"]
    /\ UNCHANGED <<status, facts, mock, request, approvals, preauth, execution,
                   verdicts, report, chainIntact>>

\* A human may decide again: the records accumulate.
DecideApproval(r, d) ==
    /\ request[r] # None /\ policy[r] = "ALLOW_WITH_APPROVAL"
    /\ Len(approvals[r]) < MaxApprovals
    /\ approvals' = [approvals EXCEPT ![r] =
                       Append(@, [decision |-> d, content |-> request[r]])]
    /\ UNCHANGED <<status, facts, mock, request, policy, preauth, execution,
                   verdicts, report, chainIntact>>

\* The checks the policy engine does not make already; scenario, environment
\* and production adapter are fixed by the deployment.
Preauthorizable(r, m) ==
    /\ m = "COMPETITION_AUTONOMOUS" /\ AutonomousEnabled
    /\ mock # None
    /\ ChecksPass(r)
    /\ policy[r] = "ALLOW_WITH_PREAUTHORIZATION"

Preauthorize(r, m) ==
    /\ request[r] # None /\ preauth[r] = None
    /\ preauth' = [preauth EXCEPT ![r] =
                     [decision |-> IF Preauthorizable(r, m) THEN "AUTO_PREAUTHORIZED"
                                                            ELSE "DENY",
                      content  |-> request[r]]]
    /\ UNCHANGED <<status, facts, mock, request, policy, approvals, execution,
                   verdicts, report, chainIntact>>

-----------------------------------------------------------------------------
LatestApproval(r) == approvals[r][Len(approvals[r])]

\* Mutant: the digests are not compared.
AuthorisedWithoutDigest(r, m) ==
    IF m = "PRODUCTION_GUARDED"
    THEN /\ policy[r] = "ALLOW_WITH_APPROVAL"
         /\ approvals[r] # <<>> /\ LatestApproval(r).decision = "APPROVED"
    ELSE /\ policy[r] = "ALLOW_WITH_PREAUTHORIZATION"
         /\ preauth[r] # None /\ preauth[r].decision = "AUTO_PREAUTHORIZED"

\* Mutant: any decision record counts as an approval.
AuthorisedByAnyRecord(r, m) ==
    IF m = "PRODUCTION_GUARDED"
    THEN /\ policy[r] = "ALLOW_WITH_APPROVAL"
         /\ approvals[r] # <<>> /\ LatestApproval(r).content = request[r]
    ELSE FALSE

\* Mutant: an approval counts although it has been withdrawn since.
AuthorisedByOldApproval(r, m) ==
    /\ m = "PRODUCTION_GUARDED" /\ policy[r] = "ALLOW_WITH_APPROVAL"
    /\ \E i \in DOMAIN approvals[r] :
           approvals[r][i] = [decision |-> "APPROVED", content |-> request[r]]

\* The executor's own gate, evaluated on the rows as they are now.
Authorised(r, m) ==
    IF m = "PRODUCTION_GUARDED"
    THEN /\ policy[r] = "ALLOW_WITH_APPROVAL"
         /\ approvals[r] # <<>>
         /\ LatestApproval(r) = [decision |-> "APPROVED", content |-> request[r]]
    ELSE /\ policy[r] = "ALLOW_WITH_PREAUTHORIZATION"
         /\ preauth[r] = [decision |-> "AUTO_PREAUTHORIZED", content |-> request[r]]

\* An already executed key returns its first result and does nothing.
CanExecute(r, m) ==
    /\ request[r] # None /\ execution[r] = None
    /\ Authorised(r, m)
    /\ mock # None /\ request[r] \in OnTarget

\* FREEZE_OLD_KEY, CREATE_NEW_KEY_VERSION, UPDATE_CI_BINDING, with the
\* incident passing through CONTAINED to ROTATED.
Execute(r, m) ==
    /\ CanExecute(r, m) /\ status = "ATTRIBUTED"
    /\ mock' = RotatedMock
    /\ status' = "ROTATED"
    /\ execution' = [execution EXCEPT ![r] = request[r]]
    /\ UNCHANGED <<facts, request, policy, approvals, preauth, verdicts, report,
                   chainIntact>>

\* The old key is frozen and saved before the transition to CONTAINED is
\* denied: the executor raises with the first operation done.
ExecuteHalts(r, m) ==
    /\ CanExecute(r, m) /\ status # "ATTRIBUTED"
    /\ mock' = [mock EXCEPT !.oldKey = "FROZEN"]
    /\ UNCHANGED <<status, facts, request, policy, approvals, preauth, execution,
                   verdicts, report, chainIntact>>

\* The six assertions read the environment as it is now.
Recovered == mock.oldKey = "FROZEN" /\ mock.newKey = "ACTIVE"

\* Mutant: a failed verification advances the incident too.
VerifyIgnoringFailure(r, forced) ==
    /\ execution[r] # None
    /\ verdicts' = verdicts \cup {[request |-> r, passed |-> Recovered /\ ~forced]}
    /\ status' = IF status = "ROTATED" THEN "VERIFIED" ELSE status
    /\ UNCHANGED <<facts, mock, request, policy, approvals, preauth, execution,
                   report, chainIntact>>

\* force_fail makes one assertion fail whatever the environment says.
Verify(r, forced) ==
    /\ execution[r] # None
    /\ LET passed == Recovered /\ ~forced IN
       /\ verdicts' = verdicts \cup {[request |-> r, passed |-> passed]}
       /\ status' = IF passed /\ status = "ROTATED" THEN "VERIFIED" ELSE status
    /\ UNCHANGED <<facts, mock, request, policy, approvals, preauth, execution,
                   report, chainIntact>>

GenerateReport ==
    /\ status # "NONE"
    /\ report' = IF chainIntact THEN "VALID" ELSE "INVALID"
    /\ UNCHANGED <<status, facts, mock, request, policy, approvals, preauth,
                   execution, verdicts, chainIntact>>

\* Mutant: the report's verdict on the chain is trusted at closing time.
CanCloseOnReport == status = "VERIFIED" /\ report = "VALID"

CanClose == status = "VERIFIED" /\ report = "VALID" /\ chainIntact

Close ==
    /\ CanClose
    /\ status' = "CLOSED"
    /\ UNCHANGED <<facts, mock, request, policy, approvals, preauth, execution,
                   verdicts, report, chainIntact>>

\* Somebody edits an audit row behind the services.
CorruptAudit ==
    /\ status # "NONE" /\ chainIntact
    /\ chainIntact' = FALSE
    /\ UNCHANGED <<status, facts, mock, request, policy, approvals, preauth,
                   execution, verdicts, report>>

Next ==
    \/ Ingest \/ OpenIncident \/ PlanInvestigation \/ EvaluateFacts
    \/ \E f \in FactTypes : PromoteFact(f)
    \/ \E r \in Requests, c \in Contents : CreateRequest(r, c) \/ AmendRequest(r, c)
    \/ \E r \in Requests, m \in Modes : \/ EvaluatePolicy(r, m)
                                        \/ Preauthorize(r, m)
                                        \/ Execute(r, m)
                                        \/ ExecuteHalts(r, m)
    \/ \E r \in Requests, d \in {"APPROVED", "REJECTED"} : DecideApproval(r, d)
    \/ \E r \in Requests, forced \in BOOLEAN : Verify(r, forced)
    \/ GenerateReport \/ Close \/ CorruptAudit

Spec == Init /\ [][Next]_vars

-----------------------------------------------------------------------------
\* The contents that these approval records approve.
ApprovedIn(records) ==
    {c \in Contents : \E i \in DOMAIN records :
                          records[i] = [decision |-> "APPROVED", content |-> c]}

Endorsements(r) == ApprovedIn(approvals[r])

AutoPreauthorized(r) == preauth[r] # None /\ preauth[r].decision = "AUTO_PREAUTHORIZED"

\* Whatever was executed is word for word what somebody with the authority of
\* the request's mode had seen: a human who approved that very content, or the
\* pre-authorization of that content with no human record at all.  The two
\* authorities never mix (ControlledExecutor.execute against the approval,
\* pre-authorization and amendment of rows in any order).
ExecutedAsAuthorised ==
    \A r \in Requests : execution[r] # None =>
        \/ /\ policy[r] = "ALLOW_WITH_APPROVAL"
           /\ execution[r] \in Endorsements(r)
           /\ ~AutoPreauthorized(r)
        \/ /\ policy[r] = "ALLOW_WITH_PREAUTHORIZATION"
           /\ AutoPreauthorized(r) /\ preauth[r].content = execution[r]
           /\ execution[r] \in Compliant
           /\ approvals[r] = <<>>

\* One rotation per incident: an execution exists exactly when the incident is
\* past ATTRIBUTED, there is never a second one, and from ATTRIBUTED on all
\* six facts are confirmed (idempotency key, state manager and fact validator
\* together).
SingleRotation ==
    /\ \A r, s \in Requests : execution[r] # None /\ execution[s] # None => r = s
    /\ (\E r \in Requests : execution[r] # None)
            <=> status \in {"ROTATED", "VERIFIED", "CLOSED"}
    /\ status \in {"ATTRIBUTED", "ROTATED", "VERIFIED", "CLOSED"} => facts = FactTypes

\* The environment has left its initial state, wholly or only by the frozen
\* key of a halted execution, only if a request on that credential carries an
\* approval or a pre-authorization; and a new key never becomes active while
\* the old one still is (_apply and the saves between its operations).
ContainmentAccountable ==
    mock # None =>
        /\ mock # InitialMock =>
               \E r \in Requests : /\ request[r] \in OnTarget
                                   /\ Endorsements(r) # {} \/ AutoPreauthorized(r)
        /\ mock.newKey = "ACTIVE" => mock.oldKey = "FROZEN" /\ mock.ci = "NEW"

\* A rejection stands until a human decides again: no step executes a request,
\* or touches the environment other than by a fresh ingest, while the last
\* human word on every decided request is REJECTED and nothing was
\* pre-authorized (ApprovalService.decide against ControlledExecutor.execute).
RejectionHolds ==
    [][ (\A r \in Requests : /\ approvals[r] # <<>> => LatestApproval(r).decision = "REJECTED"
                             /\ ~AutoPreauthorized(r))
        => execution' = execution /\ mock' \in {mock, InitialMock} ]_vars

\* An incident becomes VERIFIED only while the environment really is recovered
\* and some execution passed; one that becomes CLOSED still has that passed
\* result, and its audit chain is intact at that moment, whatever happened
\* since the report (VerificationEngine.verify, IncidentClosureService.close).
ClosureEvidence ==
    [][ /\ status # "VERIFIED" /\ status' = "VERIFIED" =>
               Recovered /\ \E r \in Requests : [request |-> r, passed |-> TRUE] \in verdicts'
        /\ status # "CLOSED" /\ status' = "CLOSED" =>
               /\ \E r \in Requests : /\ execution[r] # None
                                      /\ [request |-> r, passed |-> TRUE] \in verdicts
               /\ chainIntact /\ report = "VALID" ]_vars

\* The services implement the lifecycle of IncidentLifecycle, whatever order
\* they are called in.
Sanctioned == \E r \in Requests : Endorsements(r) # {} \/ AutoPreauthorized(r)

Proven == \E r \in Requests : [request |-> r, passed |-> TRUE] \in verdicts

Lifecycle == INSTANCE IncidentLifecycle WITH sanctioned <- Sanctioned, proven <- Proven

FollowsLifecycle == Lifecycle!Spec

-----------------------------------------------------------------------------
\* The inductive invariant behind the safety properties.  Each record of
\* authority fits the one policy decision of its request; a verdict belongs to
\* an execution, and an incident past VERIFIED keeps a passed one.
AuthorityFitsPolicy ==
    \A r \in Requests :
        /\ approvals[r] # <<>> => policy[r] = "ALLOW_WITH_APPROVAL"
        /\ AutoPreauthorized(r) =>
               /\ policy[r] = "ALLOW_WITH_PREAUTHORIZATION"
               /\ preauth[r].content \in Compliant

VerdictsHaveExecutions ==
    /\ \A v \in verdicts : execution[v.request] # None
    /\ status \in {"VERIFIED", "CLOSED"} => Proven

IInv ==
    /\ TypeOK
    /\ AuthorityFitsPolicy
    /\ ExecutedAsAuthorised
    /\ SingleRotation
    /\ ContainmentAccountable
    /\ VerdictsHaveExecutions

=============================================================================
