------------------------------- MODULE Valve -------------------------------
(***************************************************************************)
(* What the system promises about the input valve, whatever protocol sets  *)
(* it: its target moves by bounded changes and never leaves 0..Top, and    *)
(* the valve follows the target at a bounded rate.                         *)
(***************************************************************************)
EXTENDS Integers

CONSTANTS
    Top,        \* the widest opening
    Start,      \* where a restart puts the valve
    Change,     \* the largest change of the target at once
    Rate        \* the largest move of the valve in one step

VARIABLES position, target

valveVars == <<position, target>>

Openings == 0 .. Top

Init == position \in Openings /\ target \in Openings

\* The target is moved.
Retarget ==
    /\ target' \in Openings
    /\ target' - target \in -Change .. Change
    /\ UNCHANGED position

\* The plant is restarted.
Restart == position' = Start /\ target' = Start

\* The valve moves towards the target, and not beyond it.
Move ==
    /\ \/ position < target /\ position' \in position + 1 .. target
       \/ position > target /\ position' \in target .. position - 1
    /\ position' - position \in -Rate .. Rate
    /\ UNCHANGED target

Next == Retarget \/ Restart \/ Move

Spec == Init /\ [][Next]_valveVars

\* A valve that is not told otherwise gets where it was told to go.
FairSpec == Spec /\ WF_valveVars(Move)

=============================================================================
