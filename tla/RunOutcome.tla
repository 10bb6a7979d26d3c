----------------------------- MODULE RunOutcome -----------------------------
(***************************************************************************)
(* What the operator of the demonstration is promised about a run: it ends *)
(* in one of a few outcomes, the stored environment is contained only in   *)
(* the outcomes that say so, and a run that has ended stays ended until    *)
(* the operator resets it or the process is lost.                          *)
(*                                                                         *)
(* DemoRun implements this specification (see Outcome there).              *)
(***************************************************************************)

VARIABLES
    outcome,    \* what the runtime reports
    contained   \* the stored environment has been contained

vars == <<outcome, contained>>

Init == outcome = "idle" /\ contained = FALSE

Pause ==
    /\ outcome = "idle" /\ ~contained
    /\ outcome' \in {"waiting", "manual"}
    /\ contained' = FALSE

\* Only the autonomous mode contains without a pause.
Contain ==
    /\ outcome \in {"idle", "waiting"} /\ ~contained
    /\ outcome' \in {"closed", "replan"}
    /\ contained' = TRUE

Reject ==
    /\ outcome = "waiting" /\ ~contained
    /\ outcome' = "rejected"
    /\ contained' = FALSE

\* The process is restarted: the store survives, the run does not.
Lose ==
    /\ outcome' = "idle"
    /\ UNCHANGED contained

\* The store is wiped; a reset that fails afterwards leaves the outcome up.
Wipe ==
    /\ outcome' \in {outcome, "idle"}
    /\ contained' = FALSE

Next == Pause \/ Contain \/ Reject \/ Lose \/ Wipe

Spec == Init /\ [][Next]_vars
=============================================================================
