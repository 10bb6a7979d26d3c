----------------------------- MODULE NeedToKnow -----------------------------
(***************************************************************************)
(* What delegation promises: a task is granted evidence; a task delegated  *)
(* by another is granted no more than that one; a task learns only what it *)
(* was granted, and concludes only from what it has learnt.                *)
(***************************************************************************)
EXTENDS Naturals, Sequences

CONSTANT Evidence

VARIABLES
    tasks,      \* sequence of [parent, granted]; a parent of 0 is the system
    known,      \* pairs of a task and the evidence it has learnt
    concluded   \* pairs of a task and the evidence a conclusion of it cites

vars == <<tasks, known, concluded>>

Init == tasks = <<>> /\ known = {} /\ concluded = {}

New(parent, granted) == tasks' = Append(tasks, [parent |-> parent, granted |-> granted])

Issue ==
    /\ UNCHANGED <<known, concluded>>
    /\ \E granted \in SUBSET Evidence: New(0, granted)

Delegate ==
    /\ UNCHANGED <<known, concluded>>
    /\ \E parent \in DOMAIN tasks: \E granted \in SUBSET tasks[parent].granted:
         New(parent, granted)

\* A task learns some of its evidence, and may conclude from what it knows then.
Study ==
    /\ UNCHANGED tasks
    /\ \E t \in DOMAIN tasks: \E learnt \in SUBSET tasks[t].granted:
         /\ known' = known \cup ({t} \X learnt)
         /\ \/ UNCHANGED concluded
            \/ \E cited \in (SUBSET {e \in Evidence: <<t, e>> \in known'}) \ {{}}:
                 concluded' = concluded \cup {<<t, cited>>}

Next == Study \/ Delegate \/ Issue

Spec == Init /\ [][Next]_vars
=============================================================================
