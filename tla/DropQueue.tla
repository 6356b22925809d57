----------------------------- MODULE DropQueue -----------------------------
(***************************************************************************)
(* What a queue of samples promises: first in, first out, with the oldest  *)
(* one dropped when there is no room for a new one, and emptied only when  *)
(* that was asked for.                                                     *)
(***************************************************************************)
EXTENDS Naturals, Sequences

CONSTANT Capacity

VARIABLES
    queue,      \* the samples, oldest first
    clearing    \* it is to be emptied

Init == queue = <<>> /\ clearing = FALSE

Put(x) ==
    /\ queue' = Append(IF Len(queue) = Capacity THEN Tail(queue) ELSE queue, x)
    /\ UNCHANGED clearing

Take == queue # <<>> /\ queue' = Tail(queue) /\ UNCHANGED clearing

AskToClear == ~clearing /\ clearing' = TRUE /\ UNCHANGED queue

Clear == clearing /\ clearing' = FALSE /\ queue' = <<>>

Next ==
    \/ queue' # <<>> /\ Put(queue'[Len(queue')])
    \/ Take
    \/ AskToClear
    \/ Clear

Spec == Init /\ [][Next]_<<queue, clearing>>

=============================================================================
