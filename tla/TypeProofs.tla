----------------------------- MODULE TypeProofs -----------------------------
(***************************************************************************)
(* Type correctness of RemoteTank, whatever the network and the other      *)
(* clients do: no datagram, however it was spoilt, takes a level, a limit, *)
(* a command or a reply out of its set.                                    *)
(***************************************************************************)
EXTENDS RemoteTankProofs, SequenceTheorems

(* The type invariant is inductive once the command that is awaited an     *)
(* answer is known to be the one of the state: only then is the value      *)
(* stored as the level one that is_packet_valid has accepted as a level.   *)
TypeInv == TypeOK /\ CommandFitsState

-----------------------------------------------------------------------------
(* Sequences of datagrams. *)

LEMMA SpoiltSequences ==
    ASSUME NEW S, NEW s \in Seq(S), NEW i \in DOMAIN s
    PROVE  /\ s[i] \in S
           /\ RemoveAt(s, i) \in Seq(S)
           /\ \A e \in S : ReplaceAt(s, i, e) \in Seq(S)
<1>1. Len(s) \in Nat /\ i \in 1 .. Len(s) /\ \A k \in 1 .. Len(s) : s[k] \in S
  OBVIOUS
<1>2. SubSeq(s, 1, i - 1) \in Seq(S)
  BY <1>1, SubSeqProperties
<1>3. SubSeq(s, i + 1, Len(s)) \in Seq(S)
  BY <1>1, SubSeqProperties
<1>4. RemoveAt(s, i) \in Seq(S)
  BY <1>2, <1>3, ConcatProperties DEF RemoveAt
<1>5. \A e \in S : ReplaceAt(s, i, e) \in Seq(S)
  BY <1>1, ExceptSeq DEF ReplaceAt
<1> QED
  BY <1>1, <1>4, <1>5

LEMMA FormattedMessage ==
    ASSUME NEW peer \in Peers, NEW p \in [keyword : Keywords, value : Int]
    PROVE  FormatMessage(peer, p) \in Datagrams
<1>1. GetKeywordStr[p.keyword] \in Words
  BY DEF Words
<1>2. Complement(p.value) \in Complements
  BY DEF Complement, Complements
<1> QED
  BY <1>1, <1>2 DEF FormatMessage, Datagrams

LEMMA SpoiltDatagram ==
    ASSUME NEW d \in Datagrams, NEW e \in Garbled(d) \cup Altered(d)
    PROVE  e \in Datagrams
<1>1. CASE e \in Garbled(d)
  <2>1. Unreadable \in Complements
    BY DEF Unreadable, Complements
  <2>2. ResponseWords \subseteq Words
    BY DEF ResponseWords, Words, Keywords
  <2> QED
    BY <1>1, <2>1, <2>2 DEF Garbled, Datagrams
<1>2. CASE e \in Altered(d)
  <2>1. PICK p \in [keyword : Keywords,
                    value   : MIN_VALUE .. MAX_VALUE + 1 \cup {OK_VALUE, NO_VALUE}] :
            e = FormatMessage(d.peer, p)
    BY <1>2 DEF Altered, OtherPackets
  <2>2. p \in [keyword : Keywords, value : Int]
    BY <2>1, MaxValueAssumption DEF MIN_VALUE, OK_VALUE, NO_VALUE
  <2>3. d.peer \in Peers
    BY DEF Datagrams
  <2> QED
    BY <2>1, <2>2, <2>3, FormattedMessage
<1> QED
  BY <1>1, <1>2

-----------------------------------------------------------------------------
(* TypeInv is kept by every step. *)

LEMMA TypeInit == Init => TypeInv
<1> SUFFICES ASSUME Init PROVE TypeInv
  OBVIOUS
<1> USE MaxValueAssumption, TankAssumption
<1>1. NetworkTypeOK
  BY DEF Init, NetworkInit, NetworkTypeOK
<1>2. ClientTypeOK /\ CommandFitsState
  <2>1. command_packet \in [keyword : CommandKeywords, value : Nat \cup {NO_VALUE}]
    BY DEF Init, ClientInit, CommandKeywords, Packet
  <2>2. client_tank \in [input : Int, level : MIN_VALUE .. MAX_VALUE, delta : Int]
    BY DEF Init, ClientInit, MIN_VALUE
  <2>3. ~waiting_answer
    BY DEF Init, ClientInit
  <2>4. CommandFitsState
    BY <2>3 DEF CommandFitsState
  <2>5. /\ update_state \in UpdateStates
        /\ tank_before \in Int /\ max_u \in Int /\ min_u \in Int
        /\ control_thread \in {"waiting", "starting", "running"}
    BY DEF Init, ClientInit, UpdateStates
  <2>6. /\ waiting_answer \in BOOLEAN /\ received_valve_opening_with_wrong_value \in BOOLEAN
        /\ connected \in BOOLEAN /\ control_ran \in BOOLEAN /\ client_new_graph \in BOOLEAN
    BY DEF Init, ClientInit
  <2> QED
    BY <2>1, <2>2, <2>4, <2>5, <2>6 DEF ClientTypeOK
<1>3. ServerTypeOK
  <2> DEFINE tanks == [input : Int, level : MIN_VALUE .. MAX_VALUE, delta : Int,
                       max : MIN_VALUE .. MAX_VALUE]
  <2>1. server_tank \in tanks
    <3>1. CASE server_tank = [input |-> 0, level |-> 0, delta |-> 0, max |-> 0]
      BY <3>1 DEF MIN_VALUE
    <3>2. ASSUME NEW input \in MIN_VALUE .. MAX_VALUE, NEW target \in MIN_VALUE .. MAX_VALUE,
                 server_tank = [StartedTank EXCEPT !.input = input, !.delta = target - input]
          PROVE  server_tank \in tanks
      <4>1. server_tank = [input |-> input, level |-> INITIAL_LEVEL,
                           delta |-> target - input, max |-> MAX_VALUE]
        BY <3>2 DEF StartedTank
      <4> QED
        BY <4>1 DEF MIN_VALUE
    <3> QED
      BY <3>1, <3>2 DEF Init, ServerInit
  <2> QED
    BY <2>1 DEF Init, ServerInit, ServerTypeOK, Peers
<1> QED
  BY <1>1, <1>2, <1>3 DEF TypeInv, TypeOK

LEMMA TypeControl ==
    ASSUME TypeInv, ControlStart \/ UpdateController \/ ClientDrawGraph, UNCHANGED serverVars
    PROVE  TypeInv'
<1> USE DEF protocolVars, controlVars, networkVars
<1>1. NetworkTypeOK' /\ ServerTypeOK' /\ CommandFitsState'
  BY DEF TypeInv, TypeOK, NetworkTypeOK, ServerTypeOK, serverVars, CommandFitsState,
         ControlStart, UpdateController, ClientDrawGraph
<1>2. CASE ControlStart \/ ClientDrawGraph
  BY <1>1, <1>2 DEF TypeInv, TypeOK, ClientTypeOK, ControlStart, ClientDrawGraph
<1>3. CASE UpdateController
  <2>1. \A raw \in RawOutputs :
          GetDelta(ControllerSaturation(raw), client_tank.input) \in Int
    BY ClientAssumption DEF TypeInv, TypeOK, ClientTypeOK, GetDelta, ControllerSaturation
  <2> QED
    BY <1>1, <1>3, <2>1 DEF TypeInv, TypeOK, ClientTypeOK, UpdateController
<1> QED
  BY <1>2, <1>3

LEMMA TypeSendCommand ==
    ASSUME TypeInv, SendCommand, UNCHANGED serverVars
    PROVE  TypeInv'
<1> USE DEF TypeInv, TypeOK
<1>1. CommandToSend \in [keyword : CommandKeywords, value : Nat \cup {NO_VALUE}]
  BY DEF ClientTypeOK, UpdateStates, CommandToSend, SetValvePacketSetup, Packet,
         CommandKeywords
<1>2. NetworkTypeOK'
  <2>1. CommandToSend \in [keyword : Keywords, value : Int]
    BY <1>1 DEF Keywords, NO_VALUE
  <2>2. FormatMessage(Client, CommandToSend) \in Datagrams
    BY <2>1, FormattedMessage DEF Peers
  <2>3. Append(commands, FormatMessage(Client, CommandToSend)) \in Seq(Datagrams)
    BY <2>2, AppendProperties DEF NetworkTypeOK
  <2> QED
    BY <2>3 DEF SendCommand, NetworkTypeOK
<1>3. ClientTypeOK'
  BY <1>1 DEF SendCommand, IpTurn, ClientTypeOK
<1>4. ServerTypeOK' /\ CommandFitsState'
  BY DEF ServerTypeOK, serverVars, CommandFitsState, SendCommand, CommandToSend
<1> QED
  BY <1>2, <1>3, <1>4

(* Two fields of a tank are set at once.                                   *)
LEMMA BookedTank ==
    ASSUME ClientTypeOK, NEW i \in Int, NEW e \in Int
    PROVE  [client_tank EXCEPT !.input = i, !.delta = e]
               \in [input : Int, level : MIN_VALUE .. MAX_VALUE, delta : Int]
<1> DEFINE half == [client_tank EXCEPT !.input = i]
<1>1. half \in [input : Int, level : MIN_VALUE .. MAX_VALUE, delta : Int]
  BY DEF ClientTypeOK
<1> HIDE DEF half
<1>2. [half EXCEPT !.delta = e] \in [input : Int, level : MIN_VALUE .. MAX_VALUE, delta : Int]
  BY <1>1
<1> QED
  BY <1>2 DEF half

LEMMA MovedTank ==
    ASSUME ServerTypeOK, NEW i \in Int, NEW e \in Int
    PROVE  [server_tank EXCEPT !.input = i, !.delta = e]
               \in [input : Int, level : MIN_VALUE .. MAX_VALUE, delta : Int,
                    max : MIN_VALUE .. MAX_VALUE]
<1> DEFINE half == [server_tank EXCEPT !.input = i]
<1>1. half \in [input : Int, level : MIN_VALUE .. MAX_VALUE, delta : Int,
                max : MIN_VALUE .. MAX_VALUE]
  BY DEF ServerTypeOK
<1> HIDE DEF half
<1>2. [half EXCEPT !.delta = e] \in [input : Int, level : MIN_VALUE .. MAX_VALUE,
                                     delta : Int, max : MIN_VALUE .. MAX_VALUE]
  BY <1>1
<1> QED
  BY <1>2 DEF half

LEMMA TypeTreatAnswer ==
    ASSUME TypeInv, ReceiveAnswer \/ AnswerTimeout, UNCHANGED serverVars
    PROVE  TypeInv'
<1> USE DEF TypeInv, TypeOK
<1>1. /\ waiting_answer /\ waiting_answer' = FALSE
      /\ control_ran' = FALSE
      /\ UNCHANGED <<command_packet, tank_before, control_thread>>
      /\ \E datagram : TreatAnswer(datagram)
  BY DEF ReceiveAnswer, AnswerTimeout, IpTurn
<1>2. PICK datagram : TreatAnswer(datagram)
  BY <1>1
<1> DEFINE response == ParseResponse(datagram)
           expected == ExpectedPacket(response)
           wrongOpening == \/ received_valve_opening_with_wrong_value
                           \/ WrongValveOpening(response)
<1>3. wrongOpening \in BOOLEAN
  BY Zenon DEF WrongValveOpening, ClientTypeOK
<1>4. NetworkTypeOK' /\ ServerTypeOK' /\ CommandFitsState'
  <2>1. NetworkTypeOK'
    <3>1. CASE ReceiveAnswer
      BY <3>1 DEF NetworkTypeOK, ReceiveAnswer, Drained
    <3>2. CASE AnswerTimeout
      BY <3>2 DEF NetworkTypeOK, AnswerTimeout, networkVars
    <3> QED
      BY <3>1, <3>2
  <2>2. ServerTypeOK'
    BY DEF ServerTypeOK, serverVars
  <2>3. CommandFitsState'
    BY <1>1 DEF CommandFitsState
  <2> QED
    BY <2>1, <2>2, <2>3
<1>5. client_tank' \in [input : Int, level : MIN_VALUE .. MAX_VALUE, delta : Int]
      /\ max_u' \in Int /\ min_u' \in Int
  <2>1. ASSUME update_state = "GETTING_LEVEL", response = expected
        PROVE  response.value \in MIN_VALUE .. MAX_VALUE
    <3>1. response.keyword = "GET_LEVEL_RESPONSE"
      BY <1>1, <2>1 DEF CommandFitsState, ExpectedPacket, Packet, ResponseTo
    <3>2. IsPacketValid(response)
      BY <3>1, ParseWithResult DEF ParseResponse, ErrorPacket, Packet
    <3> QED
      BY <3>1, <3>2 DEF IsPacketValid
  <2>3. CASE UNCHANGED <<client_tank, max_u, min_u>>
    BY <2>3 DEF ClientTypeOK
  <2>6. ASSUME InputValveSet, UNCHANGED <<max_u, min_u>>
        PROVE  client_tank' \in [input : Int, level : MIN_VALUE .. MAX_VALUE, delta : Int]
               /\ max_u' \in Int /\ min_u' \in Int
    <3>1. /\ client_tank.input + tank_before \in Int
          /\ client_tank.delta - tank_before \in Int
          /\ max_u \in Int /\ min_u \in Int
      BY DEF ClientTypeOK
    <3> QED
      BY <2>6, <3>1, BookedTank DEF InputValveSet
  <2>2. CASE response = expected /\ AnswerOK(response) /\ UNCHANGED <<max_u, min_u>>
    <3>1. CASE InputValveSet
      BY <2>2, <2>6, <3>1
    <3>2. CASE update_state = "GETTING_LEVEL"
      BY <2>1, <2>2, <3>2 DEF AnswerOK, ClientTypeOK
    <3> QED
      BY <2>2, <2>3, <3>1, <3>2 DEF AnswerOK
  <2>4. CASE MaybeReceived(wrongOpening)
    <3>1. /\ command_packet.value \in Int
          /\ max_u \in Int /\ min_u \in Int
      BY DEF ClientTypeOK, NO_VALUE
    <3>2. CASE update_state = "SETTING_INPUT_VALVE"
      <4>1. PICK value \in Int : SetMaxMinOpening(value) /\ UNCHANGED client_tank
        BY <2>4, <3>1, <3>2 DEF MaybeReceived
      <4> QED
        BY <3>1, <4>1 DEF SetMaxMinOpening, ClientTypeOK
    <3> QED
      BY <2>3, <2>4, <3>2 DEF MaybeReceived
  <2>5. CASE AssumeOK /\ UNCHANGED <<max_u, min_u>>
    BY <2>3, <2>5, <2>6 DEF AssumeOK
  <2> QED
    BY <1>2, <2>2, <2>3, <2>4, <2>5 DEF TreatAnswer
<1>6. /\ update_state' \in UpdateStates
      /\ connected' \in BOOLEAN
      /\ client_new_graph' \in BOOLEAN
  BY <1>2 DEF TreatAnswer, AnswerOK, AssumeOK, MaybeReceived, InputValveSet,
              ResetTimeAndRecreateGraph, ClientTypeOK, UpdateStates
<1>7. received_valve_opening_with_wrong_value' \in BOOLEAN
  <2>1. \/ UNCHANGED received_valve_opening_with_wrong_value
        \/ received_valve_opening_with_wrong_value' = FALSE
        \/ received_valve_opening_with_wrong_value' = wrongOpening
    BY <1>2 DEF TreatAnswer, MaybeReceived
  <2> HIDE DEF wrongOpening
  <2> QED
    BY <1>3, <2>1 DEF ClientTypeOK
<1>8. ClientTypeOK'
  BY <1>1, <1>5, <1>6, <1>7 DEF ClientTypeOK
<1> QED
  BY <1>4, <1>8

LEMMA TypeServer ==
    ASSUME TypeInv, ServerStep
    PROVE  TypeInv'
<1> USE MaxValueAssumption, TankAssumption, ServerAssumption DEF TypeInv, TypeOK
<1>1. ClientTypeOK' /\ CommandFitsState'
  BY DEF ServerStep, clientVars, protocolVars, controlVars, ClientTypeOK, CommandFitsState
<1> DEFINE tanks == [input : Int, level : MIN_VALUE .. MAX_VALUE, delta : Int,
                     max : MIN_VALUE .. MAX_VALUE]
<1>2. StartedTank \in tanks
  BY DEF StartedTank, MIN_VALUE
<1>3. CASE PlantStart \/ ServerDrawGraph
  BY <1>1, <1>2, <1>3 DEF PlantStart, ServerDrawGraph, ServerTypeOK, NetworkTypeOK, networkVars
<1>4. CASE TankTimeStep
  <2>1. PICK step \in 1 .. PlantRate, raw \in RawLevels :
          server_tank' = [UpdateInputAngle(server_tank, step) EXCEPT
                              !.level = TankLevelSaturation(raw)]
    BY <1>4 DEF TankTimeStep
  <2>2. UpdateInputAngle(server_tank, step) \in tanks
    <3>1. /\ server_tank \in tanks /\ step \in Int
          /\ server_tank.input \in Int /\ server_tank.delta \in Int
      BY DEF ServerTypeOK
    <3> DEFINE i == server_tank.input
               e == server_tank.delta
               SetTo(j, f) == [server_tank EXCEPT !.input = j, !.delta = f]
    <3>2. \/ UpdateInputAngle(server_tank, step) = server_tank
          \/ UpdateInputAngle(server_tank, step) = SetTo(i + e, 0)
          \/ UpdateInputAngle(server_tank, step) = SetTo(i + step, e - step)
          \/ UpdateInputAngle(server_tank, step) = SetTo(i - step, e + step)
      BY DEF UpdateInputAngle
    <3>3. /\ SetTo(i + e, 0) \in tanks
          /\ SetTo(i + step, e - step) \in tanks
          /\ SetTo(i - step, e + step) \in tanks
      <4>1. ServerTypeOK /\ i + e \in Int /\ i + step \in Int /\ e - step \in Int
            /\ i - step \in Int /\ e + step \in Int
        BY <3>1
      <4>2. \A j \in Int : \A f \in Int : SetTo(j, f) \in tanks
        BY <4>1, MovedTank
      <4> HIDE DEF tanks, SetTo, i, e
      <4>3. SetTo(i + e, 0) \in tanks
        BY <4>1, <4>2
      <4>4. SetTo(i + step, e - step) \in tanks
        BY <4>1, <4>2
      <4>5. SetTo(i - step, e + step) \in tanks
        BY <4>1, <4>2
      <4> QED
        BY <4>3, <4>4, <4>5
    <3> QED
      BY <3>1, <3>2, <3>3
  <2>3. TankLevelSaturation(raw) \in MIN_VALUE .. MAX_VALUE
    BY DEF TankLevelSaturation, MIN_VALUE
  <2>4. server_tank' \in tanks
    BY <2>1, <2>2, <2>3
  <2> QED
    BY <1>1, <1>4, <2>4 DEF TankTimeStep, ServerTypeOK, NetworkTypeOK, networkVars
<1>5. CASE ServeCommand
  <2> DEFINE packet == ParseCommand(Received(server_socket))
  <2>1. \/ packet = ErrorPacket
        \/ packet.keyword \in CommandKeywords /\ IsPacketValid(packet)
    BY ParseWithResult DEF ParseCommand
  <2>2. packet.value \in Int
    BY ParsedValueIsInteger DEF ParseCommand
  <2> HIDE DEF packet
  <2>3. TankAfter(packet) \in tanks
    <3>1. packet.keyword = "SET_MAX" => packet.value \in MIN_VALUE .. MAX_VALUE
      BY <2>1 DEF IsPacketValid, ErrorPacket, Packet
    <3> QED
      BY <1>2, <2>2, <3>1 DEF TankAfter, ServerTypeOK
  <2>4. Answer(packet) \in [keyword : Keywords, value : Int]
    BY <2>1, <2>2 DEF Answer, Packet, ResponseTo, Keywords, ResponseKeywords, ServerTypeOK,
                      OK_VALUE, NO_VALUE, MIN_VALUE
  <2>5. LastSender(server_socket) \in Peers
    <3>1. server_socket \in Seq(Datagrams) /\ server_socket # <<>>
      BY <1>5 DEF ServeCommand, NetworkTypeOK
    <3>2. Len(server_socket) \in 1 .. Len(server_socket)
      BY <3>1, EmptySeq, LenProperties
    <3>3. server_socket[Len(server_socket)] \in Datagrams
      BY <3>1, <3>2, ElementOfSeq
    <3> QED
      BY <3>3 DEF LastSender, Last, Datagrams
  <2>6. responses' \in Seq(Datagrams)
    <3>1. FormatMessage(client_address', Answer(packet)) \in Datagrams
      BY <1>5, <2>4, <2>5, FormattedMessage DEF ServeCommand
    <3> QED
      BY <1>5, <3>1, AppendProperties DEF ServeCommand, NetworkTypeOK, packet
  <2>7. ServerTypeOK'
    <3>1. server_new_graph' \in BOOLEAN
      BY <1>5, Zenon DEF ServeCommand, ServerTypeOK
    <3> QED
      BY <1>5, <2>3, <2>5, <3>1 DEF ServeCommand, ServerTypeOK, packet
  <2> QED
    BY <1>1, <1>5, <2>6, <2>7 DEF ServeCommand, NetworkTypeOK, Drained
<1> QED
  BY <1>3, <1>4, <1>5 DEF ServerStep, ServerNext

LEMMA TypeNetwork ==
    ASSUME TypeInv, NetworkNext
    PROVE  NetworkTypeOK'
<1> USE SpoiltSequences, SpoiltDatagram, AppendProperties DEF TypeInv, TypeOK, NetworkTypeOK
<1>1. CASE DeliverCommand
  BY <1>1 DEF DeliverCommand, Deliverable
<1>2. CASE DeliverResponse
  BY <1>2 DEF DeliverResponse, Deliverable
<1>3. CASE LoseCommand \/ LoseResponse
  BY <1>3 DEF LoseCommand, LoseResponse
<1>4. CASE GarbleCommand \/ AlterCommand
  BY <1>4 DEF GarbleCommand, AlterCommand, CorruptCommand
<1>5. CASE GarbleResponse \/ AlterResponse
  BY <1>5 DEF GarbleResponse, AlterResponse, CorruptResponse
<1> QED
  BY <1>1, <1>2, <1>3, <1>4, <1>5 DEF NetworkNext

LEMMA TypeNext ==
    ASSUME TypeInv, [Next]_vars
    PROVE  TypeInv'
<1>1. ASSUME NetworkTypeOK', UNCHANGED <<clientVars, serverVars>> PROVE TypeInv'
  BY <1>1 DEF TypeInv, TypeOK, ClientTypeOK, ServerTypeOK, CommandFitsState, clientVars,
              protocolVars, controlVars, serverVars
<1>2. CASE ClientStep
  BY <1>2, TypeControl, TypeSendCommand, TypeTreatAnswer DEF ClientStep, ClientNext
<1>3. CASE ServerStep
  BY <1>3, TypeServer
<1>4. CASE NetworkStep
  BY <1>1, <1>4, TypeNetwork DEF NetworkStep
<1>5. CASE OtherClientSends
  <2>1. PICK peer \in OtherClients, packet \in OtherCommands :
          commands' = Append(commands, FormatMessage(peer, packet))
    BY <1>5 DEF OtherClientSends
  <2>2. FormatMessage(peer, packet) \in Datagrams
    <3>1. /\ packet = Packet(packet.keyword, packet.value)
          /\ packet.keyword \in Keywords /\ packet.value \in Int
      BY OtherCommandsAssumption, ClientAssumption DEF Keywords, NO_VALUE
    <3>2. packet \in [keyword : Keywords, value : Int]
      BY <3>1 DEF Packet
    <3> QED
      BY <3>2, FormattedMessage DEF Peers
  <2>3. NetworkTypeOK'
    BY <1>5, <2>1, <2>2, AppendProperties
       DEF OtherClientSends, TypeInv, TypeOK, NetworkTypeOK
  <2> QED
    BY <1>1, <1>5, <2>3 DEF OtherClientSends
<1>6. CASE UNCHANGED vars
  BY <1>1, <1>6 DEF vars, networkVars, TypeInv, TypeOK, NetworkTypeOK
<1> QED
  BY <1>2, <1>3, <1>4, <1>5, <1>6 DEF Next

-----------------------------------------------------------------------------

(* Every variable stays in its set: what comes out of parse_command and    *)
(* parse_response is fit to be stored, whatever went into them             *)
(* (is_packet_valid, treat_answer, command_action).                        *)
THEOREM TypeCorrect == Spec => []TypeOK
<1>1. Init => TypeInv
  BY TypeInit
<1>2. TypeInv /\ [Next]_vars => TypeInv'
  BY TypeNext
<1>3. TypeInv => TypeOK
  BY DEF TypeInv
<1> QED
  BY <1>1, <1>2, <1>3, PTL DEF Spec

=============================================================================
