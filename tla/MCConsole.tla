----------------------------- MODULE MCConsole -----------------------------
(* One page of the console among the other clients, and one kind of decision: a *)
(* second kind is refused once the run is decided, as any but a repeated one is. *)
EXTENDS Console
CONSTANT p1
MCPages == {p1}
MCDecisions == {"APPROVED"}
=============================================================================
