-------------------------- MODULE RemoteTankProofs --------------------------
(***************************************************************************)
(* Theorems about RemoteTank, for every value of its constants.            *)
(***************************************************************************)
EXTENDS RemoteTank, TLAPS

-----------------------------------------------------------------------------
(* The client's limits, whatever the network does. *)

(* What keeps the limits apart: the change a command asks for, and the one *)
(* the controller has just computed, fit between them, and before the      *)
(* controller runs there is no change at all.                              *)
ValveCommandFits ==
    waiting_answer /\ update_state = "SETTING_INPUT_VALVE" =>
        /\ command_packet = SetValvePacketSetup(tank_before)
        /\ client_tank.input + tank_before \in min_u .. max_u
        /\ tank_before \in -MAX_DELTA .. MAX_DELTA

ControllerFits ==
    control_ran =>
        /\ client_tank.input + client_tank.delta \in min_u .. max_u
        /\ client_tank.delta \in -MAX_DELTA .. MAX_DELTA

NoChangeBeforeController ==
    control_thread # "running" =>
        /\ client_tank.delta = 0
        /\ waiting_answer /\ update_state = "SETTING_INPUT_VALVE" => tank_before = 0

\* The part of the client's type that the arithmetic needs.
LimitTypes ==
    /\ max_u \in Int
    /\ min_u \in Int
    /\ tank_before \in Int
    /\ client_tank \in [input : Int, level : Int, delta : Int]

LimitsInv ==
    /\ LimitTypes
    /\ ClientLimits
    /\ ValveCommandFits
    /\ ControllerFits
    /\ NoChangeBeforeController

\* The command that is awaited an answer is the one of the state.
CommandFitsState ==
    waiting_answer =>
        /\ update_state = "TESTING_COMM"  => command_packet = Packet("COMM_TEST", NO_VALUE)
        /\ update_state = "STARTING_TANK" => command_packet = Packet("START", NO_VALUE)
        /\ update_state = "GETTING_LEVEL" => command_packet = Packet("GET_LEVEL", NO_VALUE)

(* What is read from a datagram is the error packet or one that            *)
(* is_packet_valid accepts, with the datagram's word.                      *)
LEMMA ParseWithResult ==
    ASSUME NEW keywords, NEW datagram,
           ParseWith(keywords, datagram) # ErrorPacket
    PROVE  /\ datagram.form = "intact"
           /\ ParseWith(keywords, datagram).keyword \in keywords
           /\ GetKeywordStr[ParseWith(keywords, datagram).keyword] = datagram.word
           /\ ParseWith(keywords, datagram).value = GetValue(datagram.complement)
           /\ IsPacketValid(ParseWith(keywords, datagram))
<1> DEFINE named  == {k \in keywords : GetKeywordStr[k] = datagram.word}
           parsed == {p \in {Packet(k, GetValue(datagram.complement)) : k \in named} :
                          IsPacketValid(p)}
<1>1. ParseWith(keywords, datagram) =
        IF datagram.form = "intact" /\ parsed # {}
        THEN CHOOSE p \in parsed : TRUE ELSE ErrorPacket
  BY DEF ParseWith
<1>2. parsed # {} => (CHOOSE p \in parsed : TRUE) \in parsed
  OBVIOUS
<1>3. ParseWith(keywords, datagram) \in parsed
  BY <1>1, <1>2
<1>4. \A p \in parsed : /\ p.keyword \in keywords
                        /\ GetKeywordStr[p.keyword] = datagram.word
                        /\ p.value = GetValue(datagram.complement)
                        /\ IsPacketValid(p)
  BY DEF Packet
<1>5. datagram.form = "intact"
  BY <1>1
<1> QED
  BY <1>3, <1>4, <1>5

LEMMA ParsedValueIsInteger ==
    ASSUME NEW keywords, NEW datagram
    PROVE  ParseWith(keywords, datagram).value \in Int
<1>1. CASE ParseWith(keywords, datagram) = ErrorPacket
  BY <1>1 DEF ErrorPacket, Packet, INVALID_VALUE
<1>2. CASE ParseWith(keywords, datagram) # ErrorPacket
  <2>1. IsPacketValid(ParseWith(keywords, datagram))
    BY <1>2, ParseWithResult
  <2> QED
    BY <2>1, MaxValueAssumption DEF IsPacketValid, MIN_VALUE, NO_VALUE, OK_VALUE
<1> QED
  BY <1>1, <1>2

(* What treating a reply does to the numbers of the client: nothing, book  *)
(* the change that was asked for, or give it up at a limit.                *)
Books ==
    /\ client_tank' = [client_tank EXCEPT !.input = @ + tank_before,
                                          !.delta = @ - tank_before]
    /\ UNCHANGED <<max_u, min_u>>

GivesUp ==
    /\ SetMaxMinOpening(IF command_packet.keyword = "OPEN_VALVE"
                        THEN command_packet.value ELSE -command_packet.value)
    /\ UNCHANGED client_tank

KeepsNumbers ==
    /\ \E level \in Int : client_tank' = [client_tank EXCEPT !.level = level]
    /\ UNCHANGED <<max_u, min_u>>

LEMMA TreatAnswerEffect ==
    ASSUME LimitTypes, NEW datagram, TreatAnswer(datagram)
    PROVE  \/ KeepsNumbers
           \/ update_state = "SETTING_INPUT_VALVE" /\ Books
           \/ update_state = "SETTING_INPUT_VALVE" /\ GivesUp
<1> DEFINE response == ParseResponse(datagram)
           expected == ExpectedPacket(response)
           wrongOpening == \/ received_valve_opening_with_wrong_value
                           \/ WrongValveOpening(response)
<1>1. client_tank = [client_tank EXCEPT !.level = client_tank.level]
      /\ client_tank.level \in Int
  BY DEF LimitTypes
<1>2. response.value \in Int
  BY ParsedValueIsInteger DEF ParseResponse
<1>3. ASSUME UNCHANGED <<client_tank, max_u, min_u>> PROVE KeepsNumbers
  BY <1>1, <1>3 DEF KeepsNumbers
<1>4. CASE AnswerOK(response) /\ UNCHANGED <<max_u, min_u>>
  BY <1>2, <1>3, <1>4 DEF AnswerOK, InputValveSet, Books, KeepsNumbers
<1>5. CASE UNCHANGED <<client_tank, max_u, min_u>>
  BY <1>3, <1>5
<1>6. CASE MaybeReceived(wrongOpening)
  BY <1>3, <1>6 DEF MaybeReceived, GivesUp
<1>7. CASE AssumeOK /\ UNCHANGED <<max_u, min_u>>
  BY <1>3, <1>7 DEF AssumeOK, InputValveSet, Books
<1> QED
  BY <1>4, <1>5, <1>6, <1>7 DEF TreatAnswer

-----------------------------------------------------------------------------
(* LimitsInv is kept by every step. *)

LEMMA LimitsInit == Init => LimitsInv
<1> SUFFICES ASSUME Init PROVE LimitsInv
  OBVIOUS
<1> USE MaxValueAssumption, TankAssumption, ClientAssumption
<1>1. LimitTypes
  BY DEF Init, ClientInit, LimitTypes, MIN_VALUE
<1>2. ClientLimits
  BY DEF Init, ClientInit, ClientLimits, MIN_VALUE
<1>3. ValveCommandFits /\ ControllerFits /\ NoChangeBeforeController
  BY DEF Init, ClientInit, ValveCommandFits, ControllerFits, NoChangeBeforeController
<1> QED
  BY <1>1, <1>2, <1>3 DEF LimitsInv

LEMMA LimitsControl ==
    ASSUME LimitsInv, ControlStart \/ UpdateController \/ ClientDrawGraph
    PROVE  LimitsInv'
<1> USE ClientAssumption, MaxValueAssumption DEF LimitsInv, protocolVars, controlVars
<1>1. CASE ControlStart
  BY <1>1 DEF ControlStart, LimitTypes, ClientLimits, ValveCommandFits, ControllerFits,
              NoChangeBeforeController, SetValvePacketSetup
<1>2. CASE UpdateController
  <2>1. PICK raw \in RawOutputs :
          client_tank' = [client_tank EXCEPT !.delta =
              GetDelta(ControllerSaturation(raw), client_tank.input)]
    BY <1>2 DEF UpdateController
  <2> DEFINE u == ControllerSaturation(raw)
  <2>2. u \in min_u .. max_u
    BY DEF ControllerSaturation, LimitTypes, ClientLimits
  <2>3. /\ GetDelta(u, client_tank.input) \in -MAX_DELTA .. MAX_DELTA
        /\ client_tank.input + GetDelta(u, client_tank.input) \in min_u .. max_u
    BY <2>2 DEF GetDelta, LimitTypes, ClientLimits
  <2>4. /\ client_tank' \in [input : Int, level : Int, delta : Int]
        /\ client_tank'.input = client_tank.input
        /\ client_tank'.delta = GetDelta(u, client_tank.input)
    BY <2>1, <2>3 DEF LimitTypes
  <2> QED
    BY <1>2, <2>3, <2>4 DEF UpdateController, LimitTypes, ClientLimits, ValveCommandFits,
            ControllerFits, NoChangeBeforeController, SetValvePacketSetup
<1>3. CASE ClientDrawGraph
  BY <1>3 DEF ClientDrawGraph, LimitTypes, ClientLimits, ValveCommandFits, ControllerFits,
              NoChangeBeforeController, SetValvePacketSetup
<1> QED
  BY <1>1, <1>2, <1>3

LEMMA LimitsSendCommand ==
    ASSUME PeriodsKept, LimitsInv, SendCommand
    PROVE  LimitsInv'
<1> USE ClientAssumption, MaxValueAssumption DEF LimitsInv, IpTurn
<1>1. LimitTypes' /\ ClientLimits'
  BY DEF SendCommand, LimitTypes, ClientLimits
<1>2. ControllerFits'
  BY DEF SendCommand, ControllerFits
<1>3. ASSUME update_state = "SETTING_INPUT_VALVE"
      PROVE  /\ command_packet' = SetValvePacketSetup(client_tank.delta)
             /\ tank_before' = client_tank.delta
  BY <1>3 DEF SendCommand, CommandToSend
<1>4. ASSUME update_state = "SETTING_INPUT_VALVE"
      PROVE  /\ client_tank.input + client_tank.delta \in min_u .. max_u
             /\ client_tank.delta \in -MAX_DELTA .. MAX_DELTA
  <2>1. CASE control_thread = "running"
    BY <2>1 DEF SendCommand, ControllerFits
  <2>2. CASE control_thread # "running"
    BY <2>2 DEF NoChangeBeforeController, LimitTypes, ClientLimits
  <2> QED
    BY <2>1, <2>2
<1>5. UNCHANGED <<update_state, client_tank, max_u, min_u, control_thread>>
  BY DEF SendCommand
<1>6. ValveCommandFits'
  BY <1>3, <1>4, <1>5 DEF ValveCommandFits, SetValvePacketSetup
<1>7. NoChangeBeforeController'
  BY <1>3, <1>5 DEF NoChangeBeforeController
<1> QED
  BY <1>1, <1>2, <1>6, <1>7

LEMMA LimitsTreatAnswer ==
    ASSUME LimitsInv, ReceiveAnswer \/ AnswerTimeout
    PROVE  LimitsInv'
<1> USE ClientAssumption, MaxValueAssumption DEF LimitsInv, IpTurn
<1>1. /\ waiting_answer /\ waiting_answer' = FALSE
      /\ control_ran' = FALSE
      /\ UNCHANGED <<command_packet, tank_before, control_thread>>
      /\ \E datagram : TreatAnswer(datagram)
  BY DEF ReceiveAnswer, AnswerTimeout
<1>2. PICK datagram : TreatAnswer(datagram)
  BY <1>1
<1>3. ValveCommandFits' /\ ControllerFits'
  BY <1>1 DEF ValveCommandFits, ControllerFits
<1>4. LimitTypes' /\ ClientLimits' /\ (control_thread # "running" => client_tank'.delta = 0)
  <2>1. CASE KeepsNumbers
    BY <1>1, <2>1 DEF KeepsNumbers, LimitTypes, ClientLimits, NoChangeBeforeController
  <2>2. CASE update_state = "SETTING_INPUT_VALVE" /\ Books
    <3>1. /\ client_tank' \in [input : Int, level : Int, delta : Int]
          /\ client_tank'.input = client_tank.input + tank_before
          /\ client_tank'.delta = client_tank.delta - tank_before
      <4> DEFINE moved == [client_tank EXCEPT !.input = client_tank.input + tank_before]
      <4>1. /\ moved \in [input : Int, level : Int, delta : Int]
            /\ moved.input = client_tank.input + tank_before
            /\ moved.delta = client_tank.delta
        BY DEF LimitTypes
      <4>2. client_tank' = [moved EXCEPT !.delta = client_tank.delta - tank_before]
        BY <2>2 DEF Books
      <4> HIDE DEF moved
      <4> QED
        BY <4>1, <4>2 DEF LimitTypes
    <3>2. LimitTypes' /\ ClientLimits'
      BY <1>1, <2>2, <3>1 DEF Books, LimitTypes, ClientLimits, ValveCommandFits
    <3>3. control_thread # "running" => client_tank'.delta = 0
      BY <1>1, <2>2, <3>1 DEF LimitTypes, NoChangeBeforeController
    <3> QED
      BY <3>2, <3>3
  <2>3. CASE update_state = "SETTING_INPUT_VALVE" /\ GivesUp
    <3>1. (IF command_packet.keyword = "OPEN_VALVE"
           THEN command_packet.value ELSE -command_packet.value) = tank_before
      BY <1>1, <2>3 DEF ValveCommandFits, SetValvePacketSetup, Packet, LimitTypes
    <3>2. SetMaxMinOpening(tank_before)
      BY <2>3, <3>1 DEF GivesUp
    <3> QED
      BY <1>1, <2>3, <3>2 DEF GivesUp, SetMaxMinOpening, LimitTypes, ClientLimits,
                              ValveCommandFits, NoChangeBeforeController
  <2> QED
    BY <1>2, <2>1, <2>2, <2>3, TreatAnswerEffect
<1>5. NoChangeBeforeController'
  BY <1>1, <1>4 DEF NoChangeBeforeController
<1> QED
  BY <1>3, <1>4, <1>5

LEMMA LimitsUnchanged ==
    ASSUME LimitsInv, UNCHANGED clientVars
    PROVE  LimitsInv'
  BY DEF clientVars, protocolVars, controlVars, LimitsInv, LimitTypes, ClientLimits,
         ValveCommandFits, ControllerFits, NoChangeBeforeController, SetValvePacketSetup

LEMMA LimitsNext ==
    ASSUME PeriodsKept, LimitsInv, [Next]_vars
    PROVE  LimitsInv'
<1>1. CASE ClientStep
  BY <1>1, LimitsControl, LimitsSendCommand, LimitsTreatAnswer DEF ClientStep, ClientNext
<1>2. CASE UNCHANGED clientVars
  BY <1>2, LimitsUnchanged
<1>3. [Next]_vars => ClientStep \/ UNCHANGED clientVars
  BY DEF Next, ServerStep, NetworkStep, OtherClientSends, vars
<1> QED
  BY <1>1, <1>2, <1>3

(* The limits of the controller keep the client's belief in between them   *)
(* and stay within 0..MAX_VALUE, for every network and every other client, *)
(* if the control thread keeps its period (client/control.c, client/ip.c). *)
THEOREM ClientLimitsHold ==
    ASSUME PeriodsKept
    PROVE  Spec => []ClientLimits
<1>1. Init => LimitsInv
  BY LimitsInit
<1>2. LimitsInv /\ [Next]_vars => LimitsInv'
  BY LimitsNext
<1>3. LimitsInv => ClientLimits
  BY DEF LimitsInv
<1> QED
  BY <1>1, <1>2, <1>3, PTL DEF Spec

(* ... so the saturation of the controller does what its comment says.     *)
THEOREM ControllerStaysBetweenLimits ==
    ASSUME PeriodsKept
    PROVE  Spec => []ControllerBetweenLimits
<1>1. Init => LimitsInv
  BY LimitsInit
<1>2. LimitsInv /\ [Next]_vars => LimitsInv'
  BY LimitsNext
<1>3. LimitsInv => ControllerBetweenLimits
  BY ClientAssumption, MaxValueAssumption
     DEF LimitsInv, LimitTypes, ClientLimits, ControllerBetweenLimits, ControllerSaturation
<1> QED
  BY <1>1, <1>2, <1>3, PTL DEF Spec

(* A valve command never asks for more than max_delta.                     *)
THEOREM ValveCommandsBounded ==
    ASSUME PeriodsKept
    PROVE  Spec => []ValveCommandBounded
<1>1. Init => LimitsInv
  BY LimitsInit
<1>2. LimitsInv /\ [Next]_vars => LimitsInv'
  BY LimitsNext
<1>3. LimitsInv => ValveCommandBounded
  BY ClientAssumption DEF LimitsInv, ValveCommandFits, ValveCommandBounded,
                          SetValvePacketSetup, Packet
<1> QED
  BY <1>1, <1>2, <1>3, PTL DEF Spec

=============================================================================
