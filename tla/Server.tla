------------------------------- MODULE Server -------------------------------
(***************************************************************************)
(* The server program: the plant thread that moves the valve and the level *)
(* (server/plant_simulation.c), the IP thread that carries out commands    *)
(* (server/ip.c, server/plant_interaction.c) and the tank they share       *)
(* (server/tank_state.c).                                                  *)
(*                                                                         *)
(* Real-valued time is abstracted to what one plant step can do: the valve *)
(* moves by at most PlantRate towards its target, the level by anything.   *)
(***************************************************************************)
EXTENDS Network, TankParameters

CONSTANTS
    PlantRate,      \* bound: units the valve moves in one plant step
    MaxDrift,       \* bound: how far beyond 0..MAX_VALUE the valve is followed
    RawLevels,      \* levels a step can compute before they are saturated
    ServerRunning   \* the server may have been running before this client

ASSUME ServerAssumption ==
    /\ PlantRate \in Nat \ {0}
    /\ MaxDrift \in Nat
    /\ RawLevels \subseteq Int
    /\ ServerRunning \in BOOLEAN

VARIABLES
    server_tank,        \* _tank of server/tank_state.c
    plant_started,      \* the plant thread has called start_tank
    client_address,     \* where replies are sent
    server_new_graph    \* _new_graph_flag of the server's graphics.c

serverVars == <<server_tank, plant_started, client_address, server_new_graph>>

ServerTypeOK ==
    /\ server_tank \in [input : Int, level : MIN_VALUE .. MAX_VALUE, delta : Int,
                         max : MIN_VALUE .. MAX_VALUE]
    /\ plant_started \in BOOLEAN
    /\ client_address \in Peers
    /\ server_new_graph \in BOOLEAN

StartedTank ==
    [input |-> INITIAL_INPUT, level |-> INITIAL_LEVEL, delta |-> 0, max |-> MAX_VALUE]

(* A server that has just come up has a zeroed tank; one that ran before   *)
(* has the valve anywhere, moving to anywhere.                             *)
ServerInit ==
    /\ \/ /\ server_tank = [input |-> 0, level |-> 0, delta |-> 0, max |-> 0]
          /\ plant_started = FALSE
       \/ /\ ServerRunning
          /\ \E input, target \in MIN_VALUE .. MAX_VALUE :
                 server_tank = [StartedTank EXCEPT !.input = input,
                                                   !.delta = target - input]
          /\ plant_started = TRUE
    /\ client_address = Client
    /\ server_new_graph = FALSE

\* Where the valve will be once it has moved by all it was told to.
Commanded == server_tank.input + server_tank.delta

-----------------------------------------------------------------------------
(* The plant thread. *)

PlantStart ==
    /\ ~plant_started
    /\ plant_started' = TRUE
    /\ server_tank' = StartedTank
    /\ UNCHANGED <<networkVars, client_address, server_new_graph>>

\* Mutant: what is left is not compared with the rate.
UpdateInputAngleOvershoots(tank, step) ==
    IF tank.delta > 0
    THEN [tank EXCEPT !.input = @ + step, !.delta = @ - step]
    ELSE IF tank.delta < 0
    THEN [tank EXCEPT !.input = @ - step, !.delta = @ + step]
    ELSE tank

\* Mutant: a change of one unit is taken for none.
UpdateInputAngleDeadBand(tank, step) ==
    IF tank.delta > 1
    THEN IF tank.delta < step
         THEN [tank EXCEPT !.input = @ + tank.delta, !.delta = 0]
         ELSE [tank EXCEPT !.input = @ + step, !.delta = @ - step]
    ELSE IF tank.delta < -1
    THEN IF tank.delta > -step
         THEN [tank EXCEPT !.input = @ + tank.delta, !.delta = 0]
         ELSE [tank EXCEPT !.input = @ - step, !.delta = @ + step]
    ELSE tank

(* update_input_angle: a step moves the valve by its rate, or by what is   *)
(* left if that is less.                                                   *)
UpdateInputAngle(tank, step) ==
    IF tank.delta > 0
    THEN IF tank.delta < step
         THEN [tank EXCEPT !.input = @ + tank.delta, !.delta = 0]
         ELSE [tank EXCEPT !.input = @ + step, !.delta = @ - step]
    ELSE IF tank.delta < 0
    THEN IF tank.delta > -step
         THEN [tank EXCEPT !.input = @ + tank.delta, !.delta = 0]
         ELSE [tank EXCEPT !.input = @ - step, !.delta = @ + step]
    ELSE tank

TankLevelSaturation(level) ==
    IF level > MAX_VALUE THEN MAX_VALUE ELSE IF level < 0 THEN 0 ELSE level

TankTimeStep ==
    /\ plant_started
    /\ \E step \in 1 .. PlantRate, raw \in RawLevels :
           server_tank' = [UpdateInputAngle(server_tank, step) EXCEPT
                               !.level = TankLevelSaturation(raw)]
    /\ UNCHANGED <<networkVars, plant_started, client_address, server_new_graph>>

\* The draw thread recreates the graph and clears the flag.
ServerDrawGraph ==
    /\ server_new_graph
    /\ server_new_graph' = FALSE
    /\ UNCHANGED <<networkVars, server_tank, plant_started, client_address>>

-----------------------------------------------------------------------------
(* The IP thread. *)

\* The plant thread's period is the shorter one: it has started the tank
\* before the first command is served, unless it was held up.
ServerTurn == PeriodsKept => plant_started

\* What a command does to the tank.
TankAfter(packet) ==
    CASE packet.keyword = "OPEN_VALVE"  -> [server_tank EXCEPT !.delta = @ + packet.value]
      [] packet.keyword = "CLOSE_VALVE" -> [server_tank EXCEPT !.delta = @ - packet.value]
      [] packet.keyword = "SET_MAX"     -> [server_tank EXCEPT !.max = packet.value]
      [] packet.keyword = "START"       -> StartedTank
      [] OTHER                          -> server_tank

\* The code has no such bound: the valve can be told to go anywhere.
Followed(tank) == tank.input + tank.delta \in -MaxDrift .. MAX_VALUE + MaxDrift

\* What is answered to it.
Answer(packet) ==
    CASE packet.keyword \in {"OPEN_VALVE", "CLOSE_VALVE", "SET_MAX"} ->
            Packet(ResponseTo[packet.keyword], packet.value)
      [] packet.keyword = "GET_LEVEL" ->
            Packet("GET_LEVEL_RESPONSE", server_tank.level)
      [] packet.keyword \in {"COMM_TEST", "START"} ->
            Packet(ResponseTo[packet.keyword], OK_VALUE)
      [] OTHER -> Packet("ERROR_RESPONSE", NO_VALUE)

(* receive_command and command_action: the first datagram is carried out   *)
(* and answered, the others in the socket are dropped, and the answer goes *)
(* to whoever sent the last of them.                                       *)
ServeCommand ==
    LET packet == ParseCommand(Received(server_socket))
    IN  /\ server_socket # <<>>
        /\ HasReceivedDatagram(Received(server_socket))
        /\ ServerTurn
        /\ Followed(TankAfter(packet))
        /\ server_tank' = TankAfter(packet)
        /\ server_new_graph' = (packet.keyword = "START" \/ server_new_graph)
        /\ client_address' = LastSender(server_socket)
        /\ responses' = Append(responses, FormatMessage(client_address', Answer(packet)))
        /\ server_socket' = Drained
        /\ UNCHANGED <<commands, client_socket, plant_started>>

ServerNext == PlantStart \/ TankTimeStep \/ ServerDrawGraph \/ ServeCommand

=============================================================================
