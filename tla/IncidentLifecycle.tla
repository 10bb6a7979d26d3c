------------------------- MODULE IncidentLifecycle -------------------------
(***************************************************************************)
(* What the containment services promise about one incident, without       *)
(* requests, approvals, digests or a Mock environment: the status follows  *)
(* the frozen order, credentials are rotated only once somebody had the    *)
(* authority to say so, and an incident is closed only on top of a passed  *)
(* verification.                                                           *)
(*                                                                         *)
(* IncidentServices implements this specification (see Lifecycle there).   *)
(***************************************************************************)

VARIABLES
    status,      \* where the incident stands
    sanctioned,  \* a human approval or a policy pre-authorization was given
    proven       \* a verification of an executed plan passed

vars == <<status, sanctioned, proven>>

Statuses == {"NONE", "DETECTED", "INVESTIGATING", "ATTRIBUTED",
             "ROTATED", "VERIFIED", "CLOSED"}

TypeOK ==
    /\ status \in Statuses
    /\ sanctioned \in BOOLEAN
    /\ proven \in BOOLEAN

Init ==
    /\ status = "NONE"
    /\ sanctioned = FALSE
    /\ proven = FALSE

Advance(from, to) == status = from /\ status' = to

\* Detection, planning and attribution: nothing is touched yet.
Investigate ==
    /\ \/ Advance("NONE", "DETECTED")
       \/ Advance("DETECTED", "INVESTIGATING")
       \/ Advance("INVESTIGATING", "ATTRIBUTED")
    /\ UNCHANGED <<sanctioned, proven>>

Sanction ==
    /\ sanctioned' = TRUE
    /\ UNCHANGED <<status, proven>>

\* CONTAINED is passed through inside the executor, before anybody can look.
Rotate ==
    /\ sanctioned
    /\ Advance("ATTRIBUTED", "ROTATED")
    /\ UNCHANGED <<sanctioned, proven>>

\* A later verification may confirm again what is already confirmed.
Verify ==
    /\ status \in {"ROTATED", "VERIFIED", "CLOSED"}
    /\ proven' = TRUE
    /\ status' = IF status = "ROTATED" THEN "VERIFIED" ELSE status
    /\ UNCHANGED sanctioned

Close ==
    /\ proven
    /\ Advance("VERIFIED", "CLOSED")
    /\ UNCHANGED <<sanctioned, proven>>

Next == Investigate \/ Sanction \/ Rotate \/ Verify \/ Close

Spec == Init /\ [][Next]_vars
=============================================================================
