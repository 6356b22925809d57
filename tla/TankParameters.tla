--------------------------- MODULE TankParameters ---------------------------
(***************************************************************************)
(* What the client and the server each have compiled in, to the same       *)
(* value, and what is assumed of the scheduling of their threads.          *)
(***************************************************************************)
EXTENDS Protocol

CONSTANTS
    INITIAL_INPUT,  \* the opening both programs start from, 50 in the code
    INITIAL_LEVEL,  \* the level both programs start from, 40 in the code
    PeriodsKept     \* a thread with a shorter period never misses its turn

ASSUME TankAssumption ==
    /\ INITIAL_INPUT \in MIN_VALUE .. MAX_VALUE
    /\ INITIAL_LEVEL \in MIN_VALUE .. MAX_VALUE
    /\ PeriodsKept \in BOOLEAN

=============================================================================
