---------------------------- MODULE MCRemoteTank ----------------------------
(* Values for the constants of RemoteTank that a configuration cannot write *)
(* as they are: sets with negative numbers and sets of faults.             *)
EXTENDS RemoteTank

\* The PID asks for everything, for nothing, or for a change half way.
MCRawOutputs == {-1, INITIAL_INPUT, MAX_VALUE + 1}

\* Only the extremes, where many kinds of faults multiply the states.
MCExtremes == {-1, MAX_VALUE + 1}

\* The level stays, so that runs about the valve are not multiplied by it.
MCOneLevel == {INITIAL_LEVEL}

\* The commands arrive whole; the replies may be lost, spoilt or changed.
MCResponseFaults == {"lose_response", "garble_response", "alter_response", "send_error"}

MCSpoiltBothWays == FaultKinds \ {"reorder", "delay"}

\* A command may be spoilt; the server then says so.
MCRefusedCommands == {"garble_command", "send_error"}

\* Nothing is spoilt, but datagrams come late and overtake each other.
MCLateAndReordered == {"reorder", "delay"}

\* Another client starts the tank anew and closes its valve.
MCOtherCommands == {Packet("START", NO_VALUE), Packet("CLOSE_VALVE", MAX_DELTA)}

\* A controller that keeps asking for the valve to be wide open.
MCWideOpen == {MAX_VALUE + 1}

=============================================================================
