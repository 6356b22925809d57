---------------------------- MODULE MCLifecycle ----------------------------
(* The instances of Lifecycle that are checked: the threads are model      *)
(* values, given by the configurations.                                    *)
EXTENDS Lifecycle

=============================================================================
