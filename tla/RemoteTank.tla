----------------------------- MODULE RemoteTank -----------------------------
(***************************************************************************)
(* The whole system: one modelled client, the server and the network       *)
(* between them, and, if OtherClients is not empty, further clients that    *)
(* send commands to the same server.                                       *)
(***************************************************************************)
EXTENDS Client, Server

CONSTANT OtherCommands  \* bound: those of its commands that a further client sends

(* The client program never sends SET_MAX, nor changes beyond max_delta.   *)
ASSUME OtherCommandsAssumption ==
    \A packet \in OtherCommands :
        /\ packet.keyword \in CommandKeywords \ {"SET_MAX"}
        /\ packet.value \in 0 .. MAX_DELTA \cup {NO_VALUE}
        /\ IsPacketValid(packet)
        /\ packet = Packet(packet.keyword, packet.value)

vars == <<networkVars, clientVars, serverVars>>

ClientStep  == ClientNext /\ UNCHANGED serverVars
ServerStep  == ServerNext /\ UNCHANGED clientVars
NetworkStep == NetworkNext /\ UNCHANGED <<clientVars, serverVars>>

(* Another client of the same server is the same program: it sends the     *)
(* commands of update_tank at times of its own.                            *)
OtherClientSends ==
    /\ HasRoom
    /\ \E peer \in OtherClients, packet \in OtherCommands :
           commands' = Append(commands, FormatMessage(peer, packet))
    /\ UNCHANGED <<server_socket, responses, client_socket, clientVars, serverVars>>

Init == NetworkInit /\ ClientInit /\ ServerInit

Next == ClientStep \/ ServerStep \/ NetworkStep \/ OtherClientSends

Spec == Init /\ [][Next]_vars

(* The threads keep being scheduled, and a path that is used again and     *)
(* again lets a datagram through.                                          *)
Fairness ==
    /\ WF_vars(ControlStart /\ UNCHANGED serverVars)
    /\ WF_vars(UpdateController /\ UNCHANGED serverVars)
    /\ WF_vars((SendCommand \/ ReceiveAnswer \/ AnswerTimeout) /\ UNCHANGED serverVars)
    /\ WF_vars(PlantStart /\ UNCHANGED clientVars)
    /\ WF_vars(TankTimeStep /\ UNCHANGED clientVars)
    /\ WF_vars(ServeCommand /\ UNCHANGED clientVars)
    /\ SF_vars(DeliverCommand /\ UNCHANGED <<clientVars, serverVars>>)
    /\ SF_vars(DeliverResponse /\ UNCHANGED <<clientVars, serverVars>>)

FairSpec == Spec /\ Fairness

TypeOK == NetworkTypeOK /\ ClientTypeOK /\ ServerTypeOK

-----------------------------------------------------------------------------
(* What the client keeps to itself. *)

(* The limits never cross, never leave 0..MAX_VALUE and always have the    *)
(* opening the client believes in between them: set_max_min_opening never  *)
(* gives up more than the room that was left when the command was built,   *)
(* whatever the network does in between (client/control.c, client/ip.c).   *)
ClientLimits ==
    /\ 0 <= min_u
    /\ min_u <= client_tank.input
    /\ client_tank.input <= max_u
    /\ max_u <= MAX_VALUE

(* The comment on controller_saturation: it "Maintains controller between  *)
(* 0 and 100", whatever the PID asks for.                                  *)
ControllerBetweenLimits ==
    \A raw \in RawOutputs : ControllerSaturation(raw) \in 0 .. MAX_VALUE

(* A valve command never asks for more than max_delta, although the delta  *)
(* in the tank is the sum of a new one and one not acknowledged yet        *)
(* (get_delta, set_valve_packet_setup, treat_answer).                      *)
ValveCommandBounded ==
    waiting_answer /\ update_state = "SETTING_INPUT_VALVE" =>
        command_packet.value \in 0 .. MAX_DELTA

(* The wrong-value flag can outlive the call of treat_answer that set it:  *)
(* a reply read as a valve's during the handshake leaves it set, and only  *)
(* the next spoilt valve reply clears it.  It is spent by the first change *)
(* given up: never is a second one given up on account of an old reply,    *)
(* whatever is spoilt, late or meant for another client (treat_answer).    *)
WrongValueFlagSpentOnce ==
    received_valve_opening_with_wrong_value => max_u = MAX_VALUE /\ min_u = 0

-----------------------------------------------------------------------------
(* What the client and the server agree on. *)

\* The change the server was told to make and the client has not booked yet.
Unbooked == Commanded - client_tank.input

Settled ==
    /\ update_state \in {"GETTING_LEVEL", "SETTING_INPUT_VALVE"}
    /\ ~waiting_answer

(* Between two commands, the opening the server was told to reach differs  *)
(* from the one the client believes in by no more than the limits give     *)
(* up: this is what set_max_min_opening is for.                            *)
DriftCovered == Settled => Unbooked \in -min_u .. MAX_VALUE - max_u

(* The valve, and the opening it is moving to, stay in 0..MAX_VALUE: the   *)
(* server checks neither, it relies on the client's bookkeeping (comment   *)
(* on input in server.h and client.h, open_valve, close_valve).            *)
ValveWithinRange ==
    server_tank.input \in 0 .. MAX_VALUE /\ Commanded \in 0 .. MAX_VALUE

(* Between two commands the client knows exactly where the server was told *)
(* to put the valve, and has given nothing up at the limits.               *)
ExactAgreement ==
    Settled => Unbooked = 0 /\ max_u = MAX_VALUE /\ min_u = 0

-----------------------------------------------------------------------------
(* The valve as an abstract machine: its position is the server's input,   *)
(* its target the opening the server was told to reach.                    *)

AbstractValve == INSTANCE Valve WITH
    Top <- MAX_VALUE, Start <- INITIAL_INPUT, Change <- MAX_DELTA, Rate <- PlantRate,
    position <- server_tank.input, target <- Commanded

(* With all its retries, lost and spoilt replies, the protocol moves the   *)
(* server's valve as the abstract machine does: no command is carried out  *)
(* that takes the target out of range or by more than max_delta.           *)
ImplementsValve == AbstractValve!Spec

(* ... and the plant thread takes the valve to its target.                 *)
ImplementsFairValve == AbstractValve!FairSpec

-----------------------------------------------------------------------------
(* What must eventually happen. *)

(* A client gets through to the server whatever is lost on the way: the    *)
(* timeout of check_answer sends COMM_TEST again.                          *)
Connects == <>connected

(* Once connected the loop of readings and settings never gets stuck: a    *)
(* missing reply is taken for an acknowledgement.                          *)
LoopKeepsGoing ==
    connected ~> /\ []<>(update_state = "GETTING_LEVEL")
                 /\ []<>(update_state = "SETTING_INPUT_VALVE")

(* If the controller keeps asking for the same output, the valve gets      *)
(* there in steps of max_delta and stays, although replies are lost.       *)
ValveReachesOutput ==
    <>[](server_tank.input \in {ControllerSaturation(raw) : raw \in RawOutputs})

=============================================================================
