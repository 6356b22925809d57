------------------------------- MODULE Client -------------------------------
(***************************************************************************)
(* The client program: the IP thread that runs the protocol (client/ip.c), *)
(* the control thread that computes the next change of the input valve     *)
(* (client/control.c) and the state they share (client/tank_state.c,       *)
(* client/connection_sync.c).                                              *)
(*                                                                         *)
(* One call of update_tank is one action: it takes the tank mutex at most  *)
(* once, so it is atomic for the control thread.  update_controller runs   *)
(* wholly under that mutex.                                                *)
(***************************************************************************)
EXTENDS Network, TankParameters

CONSTANTS
    MAX_DELTA,      \* largest change asked for at once, 3 in control.c
    RawOutputs,     \* what the PID can ask for before it is saturated
    RestartServer   \* restart_server_flag: FALSE with the -n argument

ASSUME ClientAssumption ==
    /\ MAX_DELTA \in Nat \ {0}
    /\ RawOutputs \subseteq Int
    /\ RestartServer \in BOOLEAN

VARIABLES
    update_state,       \* what the IP thread does next
    waiting_answer,     \* a command was sent and not answered yet
    command_packet,     \* the command sent last
    tank_before,        \* the delta when that command was built
    received_valve_opening_with_wrong_value,
    connected,          \* _connected of connection_sync.c
    client_tank,        \* _tank of client/tank_state.c
    max_u, min_u,       \* the limits of the controller's output
    control_thread,     \* where the control thread is
    control_ran,        \* it has run since the last call of update_tank
    client_new_graph    \* _new_graph_flag of the client's graphics.c

protocolVars == <<update_state, waiting_answer, command_packet, tank_before,
                  received_valve_opening_with_wrong_value>>
controlVars  == <<control_thread, control_ran>>
clientVars   == <<protocolVars, connected, client_tank, max_u, min_u,
                  controlVars, client_new_graph>>

UpdateStates == {"TESTING_COMM", "STARTING_TANK", "GETTING_LEVEL",
                 "SETTING_INPUT_VALVE"}

ClientTypeOK ==
    /\ update_state \in UpdateStates
    /\ waiting_answer \in BOOLEAN
    /\ command_packet \in [keyword : CommandKeywords, value : Nat \cup {NO_VALUE}]
    /\ tank_before \in Int
    /\ received_valve_opening_with_wrong_value \in BOOLEAN
    /\ connected \in BOOLEAN
    /\ client_tank \in [input : Int, level : MIN_VALUE .. MAX_VALUE, delta : Int]
    /\ max_u \in Int
    /\ min_u \in Int
    /\ control_thread \in {"waiting", "starting", "running"}
    /\ control_ran \in BOOLEAN
    /\ client_new_graph \in BOOLEAN

ClientInit ==
    /\ update_state = "TESTING_COMM"
    /\ waiting_answer = FALSE
    /\ command_packet = Packet("COMM_TEST", NO_VALUE)
    /\ tank_before = 0
    /\ received_valve_opening_with_wrong_value = FALSE
    /\ connected = FALSE
    /\ client_tank = [input |-> INITIAL_INPUT, level |-> INITIAL_LEVEL, delta |-> 0]
    /\ max_u = MAX_VALUE
    /\ min_u = 0
    /\ control_thread = "waiting"
    /\ control_ran = FALSE
    /\ client_new_graph = FALSE

-----------------------------------------------------------------------------
(* The control thread. *)

\* Mutant: the lower limit is forgotten.
ControllerSaturationNoMinimum(u) == IF u > max_u THEN max_u ELSE u

ControllerSaturation(u) ==
    IF u > max_u THEN max_u ELSE IF u < min_u THEN min_u ELSE u

\* Mutant: only openings are limited to max_delta.
GetDeltaOpeningsOnly(u, u_p) == IF u - u_p > MAX_DELTA THEN MAX_DELTA ELSE u - u_p

GetDelta(u, u_p) ==
    LET delta == u - u_p
    IN  IF delta > MAX_DELTA THEN MAX_DELTA
        ELSE IF delta < -MAX_DELTA THEN -MAX_DELTA
        ELSE delta

\* The wait for the connection ends.
ControlStart ==
    /\ control_thread = "waiting"
    /\ connected
    /\ control_thread' = "starting"
    /\ UNCHANGED <<networkVars, protocolVars, connected, client_tank, max_u, min_u,
                   control_ran, client_new_graph>>

(* update_controller, with the PID's result (a real-valued history of the  *)
(* levels) taken as any member of RawOutputs.                              *)
UpdateController ==
    /\ control_thread # "waiting"
    /\ \E raw \in RawOutputs :
           client_tank' = [client_tank EXCEPT !.delta =
               GetDelta(ControllerSaturation(raw), client_tank.input)]
    /\ control_thread' = "running"
    /\ control_ran' = TRUE
    /\ UNCHANGED <<networkVars, protocolVars, connected, max_u, min_u, client_new_graph>>

\* The draw thread recreates the graph and clears the flag.
ClientDrawGraph ==
    /\ client_new_graph
    /\ client_new_graph' = FALSE
    /\ UNCHANGED <<networkVars, protocolVars, connected, client_tank, max_u, min_u,
                   controlVars>>

-----------------------------------------------------------------------------
(* The IP thread. *)

(* IP_SLEEP_MS is longer than CONTROL_SLEEP_MS: between two calls of       *)
(* update_tank the control thread, once running, has run unless it was     *)
(* held up.                                                                *)
IpTurn ==
    /\ PeriodsKept /\ control_thread = "running" => control_ran
    /\ control_ran' = FALSE
    /\ UNCHANGED control_thread

SetValvePacketSetup(delta) ==
    IF delta >= 0 THEN Packet("OPEN_VALVE", delta)
                  ELSE Packet("CLOSE_VALVE", -delta)

\* The command each state sends.
CommandToSend ==
    CASE update_state = "TESTING_COMM"        -> Packet("COMM_TEST", NO_VALUE)
      [] update_state = "STARTING_TANK"       -> Packet("START", NO_VALUE)
      [] update_state = "GETTING_LEVEL"       -> Packet("GET_LEVEL", NO_VALUE)
      [] update_state = "SETTING_INPUT_VALVE" -> SetValvePacketSetup(client_tank.delta)

(* update_tank when no answer is awaited; sendto may fail, and then the    *)
(* command is built again on the next turn.                                *)
SendCommand ==
    /\ ~waiting_answer
    /\ IpTurn
    /\ command_packet' = CommandToSend
    /\ tank_before' = IF update_state = "SETTING_INPUT_VALVE"
                      THEN client_tank.delta ELSE tank_before
    /\ \/ /\ HasRoom
          /\ commands' = Append(commands, FormatMessage(Client, CommandToSend))
          /\ waiting_answer' = TRUE
       \/ /\ "send_error" \in Faults
          /\ UNCHANGED <<commands, waiting_answer>>
    /\ UNCHANGED <<server_socket, responses, client_socket, update_state,
                   received_valve_opening_with_wrong_value, connected, client_tank,
                   max_u, min_u, client_new_graph>>

\* What check_valid_response compares the reply with.
ExpectedPacket(response) ==
    Packet(ResponseTo[command_packet.keyword],
           CASE command_packet.keyword \in {"OPEN_VALVE", "CLOSE_VALVE", "SET_MAX"} ->
                    command_packet.value
             [] command_packet.keyword = "GET_LEVEL"            -> response.value
             [] command_packet.keyword \in {"COMM_TEST", "START"} -> OK_VALUE)

WrongValveOpening(response) ==
    /\ response.value # ExpectedPacket(response).value
    /\ response.keyword \in {"OPEN_VALVE_RESPONSE", "CLOSE_VALVE_RESPONSE"}

ResetTimeAndRecreateGraph == client_new_graph' = TRUE

\* Mutant: the sign of the change is lost for the lower limit.
SetMaxMinOpeningSignLost(value) ==
    /\ max_u' = IF value > 0 THEN max_u - value ELSE max_u
    /\ min_u' = IF value < 0 THEN min_u + value ELSE min_u

\* Mutant: the change is given up at the other limit.
SetMaxMinOpeningSwapped(value) ==
    /\ max_u' = IF value < 0 THEN max_u + value ELSE max_u
    /\ min_u' = IF value > 0 THEN min_u + value ELSE min_u

SetMaxMinOpening(value) ==
    /\ max_u' = IF value > 0 THEN max_u - value ELSE max_u
    /\ min_u' = IF value < 0 THEN min_u - value ELSE min_u

\* The input valve is believed to have moved by what was asked for.
InputValveSet ==
    /\ client_tank' = [client_tank EXCEPT !.input = @ + tank_before,
                                          !.delta = @ - tank_before]
    /\ update_state' = "GETTING_LEVEL"

(* The reply is the expected one. *)
AnswerOK(response) ==
    \/ /\ update_state = "TESTING_COMM"
       /\ connected' = TRUE
       /\ update_state' = IF RestartServer THEN "STARTING_TANK" ELSE "GETTING_LEVEL"
       /\ UNCHANGED <<client_tank, client_new_graph>>
    \/ /\ update_state = "STARTING_TANK"
       /\ ResetTimeAndRecreateGraph
       /\ update_state' = "GETTING_LEVEL"
       /\ UNCHANGED <<client_tank, connected>>
    \/ /\ update_state = "GETTING_LEVEL"
       /\ client_tank' = [client_tank EXCEPT !.level = response.value]
       /\ update_state' = "SETTING_INPUT_VALVE"
       /\ UNCHANGED <<connected, client_new_graph>>
    \/ /\ update_state = "SETTING_INPUT_VALVE"
       /\ InputValveSet
       /\ UNCHANGED <<connected, client_new_graph>>

(* The reply is lost or unreadable, and assumed to have been the right one. *)
AssumeOK ==
    \/ /\ update_state = "TESTING_COMM"
       /\ UNCHANGED <<update_state, client_tank, client_new_graph>>
    \/ /\ update_state = "STARTING_TANK"
       /\ ResetTimeAndRecreateGraph
       /\ update_state' = "GETTING_LEVEL"
       /\ UNCHANGED client_tank
    \/ /\ update_state = "GETTING_LEVEL"
       /\ update_state' = "SETTING_INPUT_VALVE"
       /\ UNCHANGED <<client_tank, client_new_graph>>
    \/ /\ update_state = "SETTING_INPUT_VALVE"
       /\ InputValveSet
       /\ UNCHANGED client_new_graph

\* Mutant: the wrong-value flag is not cleared once it has been used.
MaybeReceivedFlagKept(wrongOpening) ==
    /\ received_valve_opening_with_wrong_value' = wrongOpening
    /\ IF update_state = "SETTING_INPUT_VALVE"
       THEN SetMaxMinOpening(IF command_packet.keyword = "OPEN_VALVE"
                             THEN command_packet.value ELSE -command_packet.value)
       ELSE UNCHANGED <<max_u, min_u>>
    /\ UNCHANGED <<update_state, client_tank, client_new_graph>>

(* The reply resembles the right one, so the command may have been carried *)
(* out by some amount: give that amount up at the limit it moves towards.  *)
MaybeReceived(wrongOpening) ==
    /\ IF update_state = "SETTING_INPUT_VALVE"
       THEN /\ SetMaxMinOpening(IF command_packet.keyword = "OPEN_VALVE"
                                THEN command_packet.value ELSE -command_packet.value)
            /\ received_valve_opening_with_wrong_value' = FALSE
       ELSE /\ received_valve_opening_with_wrong_value' = wrongOpening
            /\ UNCHANGED <<max_u, min_u>>
    /\ UNCHANGED <<update_state, client_tank, client_new_graph>>

(* treat_answer, for the text in the buffer. *)
TreatAnswer(datagram) ==
    LET response     == ParseResponse(datagram)
        expected     == ExpectedPacket(response)
        wrongOpening == \/ received_valve_opening_with_wrong_value
                        \/ WrongValveOpening(response)
    IN  \/ /\ response = expected
           /\ AnswerOK(response)
           /\ UNCHANGED <<max_u, min_u, received_valve_opening_with_wrong_value>>
        \/ /\ response # expected
           /\ response.keyword = "ERROR_RESPONSE"     \* dropped by the server: send again
           /\ UNCHANGED <<update_state, connected, client_tank, max_u, min_u,
                          client_new_graph, received_valve_opening_with_wrong_value>>
        \/ /\ response # expected
           /\ response.keyword # "ERROR_RESPONSE"
           /\ IsPacketSimilar(datagram, expected) \/ wrongOpening
           /\ MaybeReceived(wrongOpening)
           /\ UNCHANGED connected
        \/ /\ response # expected
           /\ response.keyword # "ERROR_RESPONSE"
           /\ ~(IsPacketSimilar(datagram, expected) \/ wrongOpening)
           /\ AssumeOK
           /\ UNCHANGED <<connected, max_u, min_u,
                          received_valve_opening_with_wrong_value>>

(* check_answer when the socket holds a datagram: the first one counts, the *)
(* others are dropped with it.                                              *)
ReceiveAnswer ==
    /\ waiting_answer
    /\ client_socket # <<>>
    /\ HasReceivedDatagram(Received(client_socket))
    /\ IpTurn
    /\ TreatAnswer(Received(client_socket))
    /\ client_socket' = Drained
    /\ waiting_answer' = FALSE
    /\ UNCHANGED <<commands, server_socket, responses, command_packet, tank_before>>

\* Mutant: an answer is waited for as long as it takes.
AnswerTimeoutNever == FALSE

(* check_answer when nothing came within NO_ANSWER_TIMEOUT: the empty      *)
(* buffer is parsed and treated as a reply.                                *)
AnswerTimeout ==
    /\ waiting_answer
    /\ client_socket = <<>>
    /\ "delay" \in Faults \/ NothingInTransit
    /\ IpTurn
    /\ TreatAnswer(NoDatagram)
    /\ waiting_answer' = FALSE
    /\ UNCHANGED <<networkVars, command_packet, tank_before>>

ClientNext ==
    \/ ControlStart \/ UpdateController \/ ClientDrawGraph
    \/ SendCommand \/ ReceiveAnswer \/ AnswerTimeout

=============================================================================
