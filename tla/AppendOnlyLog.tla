--------------------------- MODULE AppendOnlyLog ---------------------------
(***************************************************************************)
(* What the audit trail of one incident promises: as long as nobody edits  *)
(* its rows from outside, it only ever grows at its end.                   *)
(*                                                                         *)
(* AuditChain implements this specification (see Trail there).             *)
(***************************************************************************)
EXTENDS Naturals, Sequences

VARIABLES
    log,     \* the events recorded so far, oldest first
    trusted  \* no row has been edited from outside

Init == log = <<>> /\ trusted = TRUE

\* A transaction adds one or several events.
Grow ==
    /\ trusted = TRUE /\ trusted' = TRUE
    /\ Len(log) < Len(log')
    /\ SubSeq(log', 1, Len(log)) = log

\* Nothing is promised once the trail has been edited.
Distrust == trusted' = FALSE

Next == Grow \/ Distrust

Spec == Init /\ [][Next]_<<log, trusted>>
=============================================================================
