----------------------------- MODULE MCGraphics -----------------------------
(* Values for the constants of Graphics that a configuration cannot write. *)
EXTENDS Graphics

MCBlank == [number |-> 0, time |-> 0]

=============================================================================
