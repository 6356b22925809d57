-------------------------- MODULE ValveRangeProofs --------------------------
(***************************************************************************)
(* If only replies are spoilt or lost, the server's valve stays in range   *)
(* and moves as the abstract machine of Valve does.                        *)
(***************************************************************************)
EXTENDS TypeProofs

(* The conditions: every command arrives as it was sent, before the client *)
(* gives up on it; nobody else commands the valve; the server's plant is   *)
(* restarted by the client; the threads keep their periods.                *)
OnlyRepliesSuffer ==
    /\ Faults \subseteq {"lose_response", "garble_response", "alter_response", "send_error"}
    /\ OtherClients = {}
    /\ RestartServer
    /\ PeriodsKept

-----------------------------------------------------------------------------
(* The inductive invariant. *)

\* Read as a word without a complement.
Bare(datagram) == datagram.form = "intact" /\ datagram.complement.kind = "none"

(* A reply on its way, spoilt or not: never the one that refuses a command, *)
(* nor one that a bare word of three characters could become.              *)
IsReply(datagram) ==
    /\ datagram \in Datagrams
    /\ datagram.form = "intact" => datagram.word \in Words
    /\ Bare(datagram) => datagram.word \notin {"Err", "Max"}

Refuses(datagram) == Bare(datagram) /\ datagram.word = "Err"

Sent == FormatMessage(Client, command_packet)

(* There is one datagram at most, the command as it was sent or a reply.   *)
NoTraffic ==
    commands = <<>> /\ server_socket = <<>> /\ responses = <<>> /\ client_socket = <<>>

CommandInTransit ==
    commands = <<Sent>> /\ server_socket = <<>> /\ responses = <<>> /\ client_socket = <<>>

CommandArrived ==
    commands = <<>> /\ server_socket = <<Sent>> /\ responses = <<>> /\ client_socket = <<>>

ReplyInTransit ==
    /\ commands = <<>> /\ server_socket = <<>> /\ client_socket = <<>>
    /\ responses # <<>>
    /\ responses = <<Head(responses)>> /\ IsReply(Head(responses))

ReplyArrived ==
    /\ commands = <<>> /\ server_socket = <<>> /\ responses = <<>>
    /\ client_socket # <<>>
    /\ client_socket = <<Head(client_socket)>> /\ IsReply(Head(client_socket))

Traffic ==
    /\ NoTraffic \/ CommandInTransit \/ CommandArrived \/ ReplyInTransit \/ ReplyArrived
    /\ waiting_answer \/ NoTraffic

\* The server has carried out the command the client waits for.
Executed == waiting_answer /\ commands = <<>> /\ server_socket = <<>>

Regulating == update_state \in {"GETTING_LEVEL", "SETTING_INPUT_VALVE"}

TankTypes ==
    server_tank \in [input : Int, level : MIN_VALUE .. MAX_VALUE, delta : Int,
                     max : MIN_VALUE .. MAX_VALUE]

PlantReady == Executed \/ Regulating => plant_started

BeforeRegulating ==
    update_state \in {"TESTING_COMM", "STARTING_TANK"} =>
        client_tank.input = INITIAL_INPUT /\ max_u = MAX_VALUE /\ min_u = 0

PlantRestarted ==
    update_state = "STARTING_TANK" /\ Executed => Commanded = INITIAL_INPUT

\* The change that is carried out but not booked yet.
Pending == IF update_state = "SETTING_INPUT_VALVE" /\ Executed THEN tank_before ELSE 0

Accounting ==
    Regulating => Unbooked - Pending \in -min_u .. MAX_VALUE - max_u

RangeInv ==
    /\ LimitsInv
    /\ update_state \in UpdateStates
    /\ Traffic
    /\ CommandFitsState
    /\ TankTypes
    /\ ValveWithinRange
    /\ PlantReady
    /\ BeforeRegulating
    /\ PlantRestarted
    /\ Accounting

-----------------------------------------------------------------------------
(* Lemmas about datagrams and packets. *)

LEMMA OneDatagram ==
    ASSUME NEW d, NEW e, NEW i \in DOMAIN <<d>>
    PROVE  /\ i = 1
           /\ <<d>>[i] = d
           /\ RemoveAt(<<d>>, i) = <<>>
           /\ ReplaceAt(<<d>>, i, e) = <<e>>
<1>1. i = 1 /\ <<d>>[i] = d
  OBVIOUS
<1>2. RemoveAt(<<d>>, i) = <<>>
  BY <1>1 DEF RemoveAt
<1>3. ReplaceAt(<<d>>, i, e) = <<e>>
  BY <1>1 DEF ReplaceAt
<1> QED
  BY <1>1, <1>2, <1>3

LEMMA ShortSequences ==
    ASSUME NEW d
    PROVE  /\ Append(<<>>, d) = <<d>>
           /\ Head(<<d>>) = d
           /\ Last(<<d>>) = d
           /\ <<d>> # <<>>
  BY DEF Last

(* A spoilt reply is still a reply.                                        *)
LEMMA SpoiltReply ==
    ASSUME NEW d, IsReply(d), NEW e \in Garbled(d) \cup Altered(d)
    PROVE  IsReply(e)
<1>1. d \in Datagrams /\ e \in Datagrams
  BY SpoiltDatagram DEF IsReply
<1>2. CASE e \in Garbled(d)
  <2>1. e.form # "intact"
    BY <1>1, <1>2 DEF Garbled, Datagrams
  <2> QED
    BY <1>1, <2>1 DEF IsReply, Bare
<1>3. CASE e \in Altered(d)
  <2>1. d.form = "intact" /\ d.word \in Words
    BY <1>3 DEF Altered, OtherPackets, IsReply
  <2>2. PICK p \in [keyword : Keywords,
                    value   : MIN_VALUE .. MAX_VALUE + 1 \cup {OK_VALUE, NO_VALUE}] :
            e = FormatMessage(d.peer, p) /\ Respelt(d, p)
    BY <1>3 DEF Altered, OtherPackets
  <2>3. e.word = GetKeywordStr[p.keyword] /\ e.word \in Words
        /\ e.complement = Complement(p.value)
    BY <2>2 DEF FormatMessage, Words
  <2>4. SUFFICES ASSUME Bare(e), e.word \in {"Err", "Max"} PROVE FALSE
    BY <1>1, <2>3 DEF IsReply
  <2>5. p.value = NO_VALUE
    BY <2>3, <2>4 DEF Bare, Complement
  <2>6. WordLength[e.word] = 3
    BY <2>4 DEF WordLength
  <2>7. WordLength[d.word] \in Nat /\ WordLength[d.word] >= 3
        /\ (WordLength[d.word] = 3 => d.word \in {"Err", "Max"})
    BY <2>1 DEF WordLength, Words, Keywords, CommandKeywords, ResponseKeywords, GetKeywordStr
  <2>8. WordLength[d.word] = 3 /\ d.complement.kind = "none"
    <3>1. \A n \in Nat : n >= 3 => ~(3 - n \in 2 .. 4) /\ (3 - n = 0 => n = 3)
      OBVIOUS
    <3> QED
      BY <2>2, <2>3, <2>5, <2>6, <2>7, <3>1 DEF Respelt
  <2> QED
    BY <2>1, <2>7, <2>8 DEF IsReply, Bare
<1> QED
  BY <1>2, <1>3

(* A reply, or no reply, is never read as the refusal of the command.      *)
LEMMA NotRefused ==
    ASSUME NEW d, ~Refuses(d)
    PROVE  ParseResponse(d).keyword # "ERROR_RESPONSE"
<1> SUFFICES ASSUME ParseResponse(d).keyword = "ERROR_RESPONSE" PROVE FALSE
  OBVIOUS
<1>1. ParseResponse(d) # ErrorPacket
  BY DEF ErrorPacket, Packet
<1>2. /\ d.form = "intact" /\ GetKeywordStr["ERROR_RESPONSE"] = d.word
      /\ ParseResponse(d).value = GetValue(d.complement)
      /\ IsPacketValid(ParseResponse(d))
  BY <1>1, ParseWithResult DEF ParseResponse
<1>3. d.word = "Err"
  BY <1>2 DEF GetKeywordStr
<1>4. GetValue(d.complement) = NO_VALUE
  BY <1>2 DEF IsPacketValid
<1>5. d.complement.kind = "none"
  BY <1>4 DEF GetValue, NO_VALUE, OK_VALUE, INVALID_VALUE
<1> QED
  BY <1>2, <1>3, <1>5 DEF Refuses, Bare

(* What the client sends is what the server reads: format_message and      *)
(* parse_command are inverse on valid commands.                            *)
LEMMA CommandRoundTrip ==
    ASSUME NEW p \in [keyword : CommandKeywords, value : Int], IsPacketValid(p),
           NEW peer
    PROVE  ParseCommand(FormatMessage(peer, p)) = p
<1> DEFINE d      == FormatMessage(peer, p)
           named  == {k \in CommandKeywords : GetKeywordStr[k] = d.word}
           parsed == {q \in {Packet(k, GetValue(d.complement)) : k \in named} :
                          IsPacketValid(q)}
<1>1. /\ d.word = GetKeywordStr[p.keyword]
      /\ d.complement = Complement(p.value)
      /\ d.form = "intact"
  BY DEF FormatMessage
<1>2. p.value = NO_VALUE \/ p.value \in Nat
  BY MaxValueAssumption DEF IsPacketValid, CommandKeywords, MIN_VALUE
<1>3. GetValue(Complement(p.value)) = p.value
  BY <1>2 DEF GetValue, Complement, NO_VALUE, OK_VALUE
<1>4. named = {p.keyword}
  BY <1>1 DEF CommandKeywords, GetKeywordStr
<1>5. p = Packet(p.keyword, p.value)
  BY DEF Packet
<1>6. parsed = {p}
  BY <1>1, <1>3, <1>4, <1>5
<1>7. ParseCommand(d) = IF d.form = "intact" /\ parsed # {}
                        THEN CHOOSE q \in parsed : TRUE ELSE ErrorPacket
  BY DEF ParseCommand, ParseWith
<1> QED
  BY <1>1, <1>6, <1>7

(* The server's answer to a valid command is a reply, and no refusal.      *)
LEMMA AnswerIsReply ==
    ASSUME NEW p \in [keyword : CommandKeywords, value : Int], IsPacketValid(p),
           TankTypes
    PROVE  IsReply(FormatMessage(Client, Answer(p)))
<1> DEFINE d == FormatMessage(Client, Answer(p))
<1>1. Answer(p) \in [keyword : ResponseKeywords \ {"ERROR_RESPONSE"}, value : Int]
  BY MaxValueAssumption
     DEF Answer, Packet, CommandKeywords, ResponseKeywords, ResponseTo, OK_VALUE, NO_VALUE,
         TankTypes, MIN_VALUE
<1>2. GetKeywordStr[Answer(p).keyword] # "Err"
  BY <1>1 DEF ResponseKeywords, GetKeywordStr
<1>3. d \in Datagrams
  BY <1>1, FormattedMessage DEF Peers, Keywords
<1>4. d.word = GetKeywordStr[Answer(p).keyword]
  BY DEF FormatMessage
<1>5. d.word \in Words
  BY <1>1, <1>4 DEF Words, Keywords
<1>6. ASSUME Bare(d) PROVE d.word # "Max"
  <2>1. Answer(p).value = NO_VALUE
    BY <1>6 DEF Bare, FormatMessage, Complement
  <2>2. p.keyword # "SET_MAX"
    BY <2>1, MaxValueAssumption DEF IsPacketValid, Answer, Packet, NO_VALUE, MIN_VALUE
  <2>3. Answer(p).keyword # "SET_MAX_RESPONSE"
    BY <2>2 DEF Answer, Packet, ResponseTo, CommandKeywords
  <2> QED
    BY <1>1, <1>4, <2>3 DEF ResponseKeywords, GetKeywordStr
<1> QED
  BY <1>2, <1>3, <1>4, <1>5, <1>6 DEF IsReply

-----------------------------------------------------------------------------
(* RangeInv is kept by every step. *)

LEMMA RangeInit ==
    ASSUME OnlyRepliesSuffer, Init
    PROVE  RangeInv
<1> USE MaxValueAssumption, TankAssumption
<1>1. LimitsInv
  BY LimitsInit
<1>2. update_state \in UpdateStates /\ Traffic /\ CommandFitsState /\ BeforeRegulating
  BY DEF Init, ClientInit, NetworkInit, UpdateStates, Traffic, NoTraffic, CommandFitsState,
         BeforeRegulating
<1>3. ~Executed /\ ~Regulating
  BY DEF Init, ClientInit, Executed, Regulating
<1>4. TankTypes /\ ValveWithinRange
  <2>1. CASE server_tank = [input |-> 0, level |-> 0, delta |-> 0, max |-> 0]
    BY <2>1 DEF TankTypes, ValveWithinRange, Commanded, MIN_VALUE
  <2>2. ASSUME NEW input \in MIN_VALUE .. MAX_VALUE, NEW target \in MIN_VALUE .. MAX_VALUE,
               server_tank = [StartedTank EXCEPT !.input = input, !.delta = target - input]
        PROVE  TankTypes /\ ValveWithinRange
    <3>1. server_tank = [input |-> input, level |-> INITIAL_LEVEL,
                         delta |-> target - input, max |-> MAX_VALUE]
      BY <2>2 DEF StartedTank
    <3> QED
      BY <3>1 DEF TankTypes, ValveWithinRange, Commanded, MIN_VALUE
  <2> QED
    BY <2>1, <2>2 DEF Init, ServerInit
<1>5. PlantReady /\ PlantRestarted /\ Accounting
  BY <1>3 DEF PlantReady, PlantRestarted, Accounting
<1> QED
  BY <1>1, <1>2, <1>4, <1>5 DEF RangeInv

(* Steps that touch nothing the rest of the invariant speaks of.           *)
LEMMA RangeAside ==
    ASSUME RangeInv, LimitsInv',
           UNCHANGED <<networkVars, serverVars, update_state, waiting_answer,
                       command_packet, tank_before, max_u, min_u>>,
           client_tank'.input = client_tank.input
    PROVE  RangeInv'
<1> USE DEF networkVars, serverVars
<1>1. (update_state \in UpdateStates)' /\ CommandFitsState' /\ TankTypes'
  BY DEF RangeInv, CommandFitsState, TankTypes
<1>2. Traffic'
  BY DEF RangeInv, Traffic, NoTraffic, CommandInTransit, CommandArrived, ReplyInTransit,
         ReplyArrived, Sent
<1>3. ValveWithinRange' /\ PlantReady' /\ BeforeRegulating' /\ PlantRestarted' /\ Accounting'
  BY DEF RangeInv, ValveWithinRange, PlantReady, BeforeRegulating, PlantRestarted,
         Accounting, Commanded, Unbooked, Pending, Executed, Regulating
<1> QED
  BY <1>1, <1>2, <1>3 DEF RangeInv

LEMMA RangeControl ==
    ASSUME RangeInv, ControlStart \/ UpdateController \/ ClientDrawGraph, UNCHANGED serverVars
    PROVE  RangeInv'
<1>1. LimitsInv'
  BY LimitsControl DEF RangeInv
<1>2. UNCHANGED <<networkVars, update_state, waiting_answer, command_packet, tank_before,
                  max_u, min_u>>
  BY DEF ControlStart, UpdateController, ClientDrawGraph, protocolVars
<1>3. client_tank'.input = client_tank.input
  BY DEF ControlStart, UpdateController, ClientDrawGraph, RangeInv, LimitsInv, LimitTypes
<1> QED
  BY <1>1, <1>2, <1>3, RangeAside

LEMMA RangeSendCommand ==
    ASSUME OnlyRepliesSuffer, RangeInv, SendCommand, UNCHANGED serverVars
    PROVE  RangeInv'
<1>1. LimitsInv'
  BY LimitsSendCommand DEF RangeInv, OnlyRepliesSuffer
<1>2. NoTraffic /\ ~waiting_answer
  BY DEF RangeInv, Traffic, SendCommand
<1>3. UNCHANGED <<server_socket, responses, client_socket, update_state, client_tank,
                  max_u, min_u, server_tank, plant_started>>
  BY DEF SendCommand, serverVars
<1>4. \/ commands' = <<Sent'>> /\ waiting_answer' = TRUE
      \/ commands' = <<>> /\ waiting_answer' = FALSE
  BY <1>2, ShortSequences DEF SendCommand, NoTraffic, Sent
<1>5. Traffic'
  BY <1>2, <1>3, <1>4 DEF Traffic, NoTraffic, CommandInTransit
<1>6. ~Executed /\ ~Executed'
  BY <1>2, <1>4, ShortSequences DEF Executed
<1>7. CommandFitsState'
  BY <1>3 DEF SendCommand, CommandToSend, CommandFitsState
<1>8. (update_state \in UpdateStates)' /\ TankTypes' /\ ValveWithinRange'
  BY <1>3 DEF RangeInv, TankTypes, ValveWithinRange, Commanded
<1>9. PlantReady' /\ BeforeRegulating' /\ PlantRestarted' /\ Accounting'
  BY <1>3, <1>6 DEF RangeInv, PlantReady, BeforeRegulating, PlantRestarted, Accounting,
                    Commanded, Unbooked, Pending, Regulating
<1> QED
  BY <1>1, <1>5, <1>7, <1>8, <1>9 DEF RangeInv

(* Where treating a reply that is no refusal leaves the client.            *)
LEMMA TreatAnswerStates ==
    ASSUME LimitTypes, RestartServer, update_state \in UpdateStates,
           NEW d, TreatAnswer(d), ~Refuses(d)
    PROVE  \/ /\ update_state = "TESTING_COMM" /\ KeepsNumbers
              /\ update_state' \in {"TESTING_COMM", "STARTING_TANK"}
           \/ /\ update_state = "STARTING_TANK" /\ KeepsNumbers
              /\ update_state' \in {"STARTING_TANK", "GETTING_LEVEL"}
           \/ /\ update_state = "GETTING_LEVEL" /\ KeepsNumbers
              /\ update_state' \in {"GETTING_LEVEL", "SETTING_INPUT_VALVE"}
           \/ /\ update_state = "SETTING_INPUT_VALVE" /\ Books
              /\ update_state' = "GETTING_LEVEL"
           \/ /\ update_state = "SETTING_INPUT_VALVE" /\ GivesUp
              /\ update_state' = "SETTING_INPUT_VALVE"
<1> DEFINE response == ParseResponse(d)
           expected == ExpectedPacket(response)
           wrongOpening == \/ received_valve_opening_with_wrong_value
                           \/ WrongValveOpening(response)
<1>1. client_tank = [client_tank EXCEPT !.level = client_tank.level]
      /\ client_tank.level \in Int
  BY DEF LimitTypes
<1>2. response.value \in Int
  BY ParsedValueIsInteger DEF ParseResponse
<1>3. ASSUME UNCHANGED <<client_tank, max_u, min_u>> PROVE KeepsNumbers
  BY <1>1, <1>3 DEF KeepsNumbers
<1>4. response.keyword # "ERROR_RESPONSE"
  BY NotRefused
<1>5. CASE AnswerOK(response) /\ UNCHANGED <<max_u, min_u>>
  BY <1>2, <1>3, <1>5 DEF AnswerOK, InputValveSet, Books, KeepsNumbers
<1>6. CASE MaybeReceived(wrongOpening)
  <2>1. CASE update_state = "SETTING_INPUT_VALVE"
    BY <1>6, <2>1 DEF MaybeReceived, GivesUp
  <2>2. CASE update_state # "SETTING_INPUT_VALVE"
    BY <1>3, <1>6, <2>2 DEF MaybeReceived, UpdateStates
  <2> QED
    BY <2>1, <2>2
<1>7. CASE AssumeOK /\ UNCHANGED <<max_u, min_u>>
  BY <1>3, <1>7 DEF AssumeOK, InputValveSet, Books
<1> QED
  BY <1>4, <1>5, <1>6, <1>7 DEF TreatAnswer

LEMMA RangeTreatAnswer ==
    ASSUME OnlyRepliesSuffer, RangeInv, ReceiveAnswer \/ AnswerTimeout, UNCHANGED serverVars
    PROVE  RangeInv'
<1> USE MaxValueAssumption, TankAssumption
<1>1. LimitsInv'
  BY LimitsTreatAnswer DEF RangeInv
<1>2. /\ Executed
      /\ NoTraffic'
      /\ waiting_answer' = FALSE
      /\ UNCHANGED <<command_packet, tank_before>>
      /\ \E d : ~Refuses(d) /\ TreatAnswer(d)
  <2>1. CASE ReceiveAnswer
    <3>1. ReplyArrived
      BY <2>1 DEF ReceiveAnswer, RangeInv, Traffic, NoTraffic, CommandInTransit,
                  CommandArrived, ReplyInTransit
    <3>2. IsReply(Received(client_socket))
      BY <3>1 DEF ReplyArrived, Received
    <3> QED
      BY <2>1, <3>1, <3>2
         DEF ReceiveAnswer, ReplyArrived, IsReply, Refuses, Executed, NoTraffic, Drained
  <2>2. CASE AnswerTimeout
    <3>1. NothingInTransit /\ client_socket = <<>>
      BY <2>2 DEF AnswerTimeout, OnlyRepliesSuffer
    <3> QED
      BY <2>2, <3>1 DEF AnswerTimeout, NothingInTransit, Executed, NoTraffic, NoDatagram,
                        Refuses, Bare, networkVars
  <2> QED
    BY <2>1, <2>2
<1>3. PICK d : ~Refuses(d) /\ TreatAnswer(d)
  BY <1>2
<1>4. ~Executed' /\ Traffic' /\ CommandFitsState'
  BY <1>2 DEF Executed, Traffic, CommandFitsState
<1>5. UNCHANGED <<server_tank, plant_started>> /\ plant_started
  BY <1>2 DEF serverVars, RangeInv, PlantReady
<1>6. TankTypes' /\ ValveWithinRange' /\ PlantReady' /\ Commanded' = Commanded
  BY <1>5 DEF RangeInv, TankTypes, ValveWithinRange, PlantReady, Commanded
<1>7. /\ (update_state \in UpdateStates)'
      /\ BeforeRegulating' /\ Accounting'
  <2> USE DEF RangeInv, LimitsInv, LimitTypes, UpdateStates, TankTypes, Commanded
  <2>1. ASSUME KeepsNumbers
        PROVE  client_tank'.input = client_tank.input /\ UNCHANGED <<max_u, min_u>>
    BY <2>1 DEF KeepsNumbers
  <2>2. CASE update_state = "TESTING_COMM" /\ KeepsNumbers
             /\ update_state' \in {"TESTING_COMM", "STARTING_TANK"}
    BY <2>1, <2>2 DEF BeforeRegulating, Accounting, Regulating
  <2>3. CASE update_state = "STARTING_TANK" /\ KeepsNumbers
             /\ update_state' \in {"STARTING_TANK", "GETTING_LEVEL"}
    <3>1. Unbooked' = 0 /\ max_u' = MAX_VALUE /\ min_u' = 0
      BY <1>2, <1>6, <2>1, <2>3 DEF BeforeRegulating, PlantRestarted, Unbooked
    <3> QED
      BY <1>4, <2>1, <2>3, <3>1 DEF BeforeRegulating, Accounting, Pending
  <2>4. CASE update_state = "GETTING_LEVEL" /\ KeepsNumbers
             /\ update_state' \in {"GETTING_LEVEL", "SETTING_INPUT_VALVE"}
    BY <1>4, <1>6, <2>1, <2>4
       DEF BeforeRegulating, Accounting, Regulating, Pending, Unbooked
  <2>5. CASE update_state = "SETTING_INPUT_VALVE" /\ Books /\ update_state' = "GETTING_LEVEL"
    <3>1. client_tank'.input = client_tank.input + tank_before
      <4> DEFINE moved == [client_tank EXCEPT !.input = client_tank.input + tank_before]
      <4>1. moved \in [input : Int, level : Int, delta : Int]
            /\ moved.input = client_tank.input + tank_before
        OBVIOUS
      <4>2. client_tank' = [moved EXCEPT !.delta = client_tank.delta - tank_before]
        BY <2>5 DEF Books
      <4> HIDE DEF moved
      <4> QED
        BY <4>1, <4>2
    <3>2. Unbooked - Pending = Unbooked' - Pending'
      BY <1>2, <1>4, <1>6, <2>5, <3>1 DEF Pending, Unbooked
    <3> QED
      BY <2>5, <3>2 DEF Books, BeforeRegulating, Accounting, Regulating
  <2>6. CASE update_state = "SETTING_INPUT_VALVE" /\ GivesUp
             /\ update_state' = "SETTING_INPUT_VALVE"
    <3>1. SetMaxMinOpening(tank_before)
      <4>1. (IF command_packet.keyword = "OPEN_VALVE"
             THEN command_packet.value ELSE -command_packet.value) = tank_before
        BY <1>2, <2>6 DEF Executed, ValveCommandFits, SetValvePacketSetup, Packet
      <4> QED
        BY <2>6, <4>1 DEF GivesUp
    <3>2. Unbooked' = Unbooked /\ Pending = tank_before /\ Pending' = 0
      BY <1>2, <1>4, <1>6, <2>6 DEF GivesUp, Pending, Unbooked
    <3>3. Unbooked - tank_before \in -min_u .. MAX_VALUE - max_u /\ Unbooked \in Int
      BY <2>6, <3>2 DEF Accounting, Regulating, Unbooked
    <3> QED
      BY <2>6, <3>1, <3>2, <3>3 DEF SetMaxMinOpening, BeforeRegulating, Accounting
  <2> QED
    BY <1>3, <2>2, <2>3, <2>4, <2>5, <2>6, TreatAnswerStates DEF OnlyRepliesSuffer
<1>8. PlantRestarted'
  BY <1>4 DEF PlantRestarted
<1> QED
  BY <1>1, <1>4, <1>6, <1>7, <1>8 DEF RangeInv

LEMMA RangePlantStart ==
    ASSUME RangeInv, PlantStart, UNCHANGED clientVars
    PROVE  RangeInv'
<1> USE MaxValueAssumption, TankAssumption
<1>1. LimitsInv'
  BY LimitsUnchanged DEF RangeInv
<1>2. ~Executed /\ ~Regulating /\ server_tank' = StartedTank /\ plant_started'
  BY DEF RangeInv, PlantReady, PlantStart
<1>3. UNCHANGED <<networkVars, clientVars>>
  BY DEF PlantStart
<1>4. ~Executed' /\ ~Regulating'
  BY <1>2, <1>3 DEF Executed, Regulating, networkVars, clientVars, protocolVars
<1>5. TankTypes' /\ ValveWithinRange'
  BY <1>2 DEF StartedTank, TankTypes, ValveWithinRange, Commanded, MIN_VALUE
<1>6. Traffic' /\ CommandFitsState' /\ (update_state \in UpdateStates)' /\ BeforeRegulating'
  BY <1>3 DEF RangeInv, networkVars, clientVars, protocolVars, Traffic, NoTraffic,
              CommandInTransit, CommandArrived, ReplyInTransit, ReplyArrived, Sent,
              CommandFitsState, BeforeRegulating
<1>7. PlantReady' /\ PlantRestarted' /\ Accounting'
  BY <1>4 DEF PlantReady, PlantRestarted, Accounting
<1> QED
  BY <1>1, <1>5, <1>6, <1>7 DEF RangeInv

(* A step of the plant moves the valve towards its target, which stays.    *)
LEMMA PlantMoves ==
    ASSUME TankTypes, ValveWithinRange, TankTimeStep
    PROVE  /\ TankTypes'
           /\ Commanded' = Commanded
           /\ \/ server_tank'.input = server_tank.input
              \/ /\ server_tank.input < Commanded
                 /\ server_tank'.input \in server_tank.input + 1 .. Commanded
              \/ /\ server_tank.input > Commanded
                 /\ server_tank'.input \in Commanded .. server_tank.input - 1
           /\ server_tank'.input - server_tank.input \in -PlantRate .. PlantRate
<1> USE ServerAssumption, MaxValueAssumption
<1>1. PICK step \in 1 .. PlantRate, raw \in RawLevels :
        server_tank' = [UpdateInputAngle(server_tank, step) EXCEPT
                            !.level = TankLevelSaturation(raw)]
  BY DEF TankTimeStep
<1> DEFINE moved == UpdateInputAngle(server_tank, step)
<1>2. TankLevelSaturation(raw) \in MIN_VALUE .. MAX_VALUE
  BY DEF TankLevelSaturation, MIN_VALUE
<1>3. /\ moved \in [input : Int, level : MIN_VALUE .. MAX_VALUE, delta : Int,
                    max : MIN_VALUE .. MAX_VALUE]
      /\ moved.input + moved.delta = server_tank.input + server_tank.delta
      /\ \/ moved.input = server_tank.input
         \/ /\ server_tank.delta > 0
            /\ moved.input \in server_tank.input + 1 .. Commanded
         \/ /\ server_tank.delta < 0
            /\ moved.input \in Commanded .. server_tank.input - 1
      /\ moved.input - server_tank.input \in -PlantRate .. PlantRate
  <2> DEFINE tanks == [input : Int, level : MIN_VALUE .. MAX_VALUE, delta : Int,
                       max : MIN_VALUE .. MAX_VALUE]
             i == server_tank.input
             e == server_tank.delta
             SetTo(j, f) == [server_tank EXCEPT !.input = j, !.delta = f]
  <2>1. ASSUME NEW j \in Int, NEW f \in Int
        PROVE  SetTo(j, f) \in tanks /\ SetTo(j, f).input = j /\ SetTo(j, f).delta = f
    <3> DEFINE half == [server_tank EXCEPT !.input = j]
    <3>1. half \in tanks /\ half.input = j
      BY DEF TankTypes
    <3>2. SetTo(j, f) = [half EXCEPT !.delta = f]
      OBVIOUS
    <3> HIDE DEF half, SetTo
    <3> QED
      BY <3>1, <3>2
  <2>2. server_tank \in tanks /\ i \in Int /\ e \in Int /\ step \in Int
    BY DEF TankTypes
  <2>3. moved = IF e > 0 THEN IF e < step THEN SetTo(i + e, 0) ELSE SetTo(i + step, e - step)
                ELSE IF e < 0
                THEN IF e > -step THEN SetTo(i + e, 0) ELSE SetTo(i - step, e + step)
                ELSE server_tank
    BY DEF UpdateInputAngle
  <2> HIDE DEF moved, SetTo
  <2>4. CASE e > 0 /\ e < step
    <3>1. moved = SetTo(i + e, 0) /\ i + e \in Int /\ 0 \in Int
      BY <2>2, <2>3, <2>4
    <3>2. moved \in tanks /\ moved.input = i + e /\ moved.delta = 0
      BY <2>1, <3>1
    <3> QED
      BY <2>2, <2>4, <3>2 DEF Commanded
  <2>5. CASE e > 0 /\ ~(e < step)
    <3>1. moved = SetTo(i + step, e - step) /\ i + step \in Int /\ e - step \in Int
      BY <2>2, <2>3, <2>5
    <3>2. moved \in tanks /\ moved.input = i + step /\ moved.delta = e - step
      BY <2>1, <3>1
    <3> QED
      BY <2>2, <2>5, <3>2 DEF Commanded
  <2>6. CASE e < 0 /\ e > -step
    <3>1. moved = SetTo(i + e, 0) /\ i + e \in Int /\ 0 \in Int
      BY <2>2, <2>3, <2>6
    <3>2. moved \in tanks /\ moved.input = i + e /\ moved.delta = 0
      BY <2>1, <3>1
    <3> QED
      BY <2>2, <2>6, <3>2 DEF Commanded
  <2>7. CASE e < 0 /\ ~(e > -step)
    <3>1. moved = SetTo(i - step, e + step) /\ i - step \in Int /\ e + step \in Int
      BY <2>2, <2>3, <2>7
    <3>2. moved \in tanks /\ moved.input = i - step /\ moved.delta = e + step
      BY <2>1, <3>1
    <3> QED
      BY <2>2, <2>7, <3>2 DEF Commanded
  <2>8. CASE e = 0
    BY <2>2, <2>3, <2>8
  <2> QED
    BY <2>2, <2>4, <2>5, <2>6, <2>7, <2>8
<1> HIDE DEF moved
<1>4. server_tank' = [moved EXCEPT !.level = TankLevelSaturation(raw)]
  BY <1>1 DEF moved
<1>5. TankTypes' /\ server_tank'.input = moved.input /\ server_tank'.delta = moved.delta
  BY <1>2, <1>3, <1>4 DEF TankTypes
<1>6. server_tank.input \in Int /\ server_tank.delta \in Int
  BY DEF TankTypes
<1> QED
  BY <1>3, <1>5, <1>6 DEF Commanded

LEMMA RangeTankTimeStep ==
    ASSUME RangeInv, TankTimeStep, UNCHANGED clientVars
    PROVE  RangeInv'
<1> USE MaxValueAssumption
<1>1. LimitsInv'
  BY LimitsUnchanged DEF RangeInv
<1>2. UNCHANGED <<networkVars, clientVars, plant_started>>
  BY DEF TankTimeStep
<1>3. TankTypes' /\ Commanded' = Commanded /\ ValveWithinRange'
  BY PlantMoves DEF RangeInv, TankTypes, ValveWithinRange
<1>4. /\ Traffic' /\ CommandFitsState' /\ (update_state \in UpdateStates)'
      /\ BeforeRegulating'
  BY <1>2 DEF RangeInv, networkVars, clientVars, protocolVars, Traffic, NoTraffic,
              CommandInTransit, CommandArrived, ReplyInTransit, ReplyArrived, Sent,
              CommandFitsState, BeforeRegulating
<1>5. PlantReady' /\ PlantRestarted' /\ Accounting'
  BY <1>2, <1>3 DEF RangeInv, networkVars, clientVars, protocolVars, PlantReady,
                    PlantRestarted, Accounting, Unbooked, Pending, Executed, Regulating
<1> QED
  BY <1>1, <1>3, <1>4, <1>5 DEF RangeInv

(* The command the client waits for is one the server accepts.             *)
LEMMA AwaitedCommandIsValid ==
    ASSUME RangeInv, waiting_answer
    PROVE  /\ command_packet \in [keyword : CommandKeywords, value : Int]
           /\ IsPacketValid(command_packet)
<1> USE MaxValueAssumption DEF CommandKeywords, IsPacketValid, Packet
<1>1. CASE update_state = "SETTING_INPUT_VALVE"
  <2>1. command_packet = SetValvePacketSetup(tank_before)
    BY <1>1 DEF RangeInv, LimitsInv, ValveCommandFits
  <2>2. tank_before \in -MAX_VALUE .. MAX_VALUE
    BY <1>1 DEF RangeInv, LimitsInv, LimitTypes, ClientLimits, ValveCommandFits
  <2> QED
    BY <2>1, <2>2 DEF SetValvePacketSetup, MIN_VALUE
<1>2. CASE update_state # "SETTING_INPUT_VALVE"
  BY <1>2 DEF RangeInv, UpdateStates, CommandFitsState, NO_VALUE
<1> QED
  BY <1>1, <1>2

(* What carrying out the awaited command does to the tank, and what is     *)
(* answered to it.                                                         *)
LEMMA ServeEffect ==
    ASSUME OnlyRepliesSuffer, RangeInv, ServeCommand
    PROVE  /\ waiting_answer /\ CommandArrived /\ plant_started /\ TankTypes'
           /\ \/ /\ update_state \in {"TESTING_COMM", "GETTING_LEVEL"}
                 /\ server_tank' = server_tank
              \/ /\ update_state = "STARTING_TANK"
                 /\ server_tank' = StartedTank
              \/ /\ update_state = "SETTING_INPUT_VALVE"
                 /\ server_tank'.input = server_tank.input
                 /\ server_tank'.delta = server_tank.delta + tank_before
           /\ \E reply : IsReply(reply) /\ responses' = <<reply>>
<1> USE MaxValueAssumption, TankAssumption
<1>1. waiting_answer /\ CommandArrived /\ plant_started
  BY DEF ServeCommand, ServerTurn, OnlyRepliesSuffer, RangeInv, Traffic, NoTraffic,
         CommandInTransit, CommandArrived, ReplyInTransit, ReplyArrived
<1>2. /\ command_packet \in [keyword : CommandKeywords, value : Int]
      /\ IsPacketValid(command_packet)
  BY <1>1, AwaitedCommandIsValid
<1>3. Received(server_socket) = Sent /\ LastSender(server_socket) = Client
  BY <1>1, ShortSequences DEF CommandArrived, Received, LastSender, Sent, FormatMessage
<1>4. ParseCommand(Received(server_socket)) = command_packet
  BY <1>2, <1>3, CommandRoundTrip DEF Sent
<1>5. server_tank' = TankAfter(command_packet)
  BY <1>4 DEF ServeCommand
<1>6. \E reply : IsReply(reply) /\ responses' = <<reply>>
  <2>1. responses' = <<FormatMessage(Client, Answer(command_packet))>>
    BY <1>1, <1>3, <1>4, ShortSequences DEF ServeCommand, CommandArrived
  <2> QED
    BY <1>2, <2>1, AnswerIsReply DEF RangeInv, OnlyRepliesSuffer
<1>7. CASE update_state = "SETTING_INPUT_VALVE"
  <2>1. command_packet = SetValvePacketSetup(tank_before) /\ tank_before \in Int
    BY <1>1, <1>7 DEF RangeInv, LimitsInv, LimitTypes, ValveCommandFits
  <2>2. server_tank' = [server_tank EXCEPT !.delta = server_tank.delta + tank_before]
    <3>1. CASE tank_before >= 0
      BY <1>5, <2>1, <3>1 DEF SetValvePacketSetup, TankAfter, Packet
    <3>2. CASE tank_before < 0
      <4>1. server_tank.delta - (-tank_before) = server_tank.delta + tank_before
        BY <2>1 DEF RangeInv, TankTypes
      <4> QED
        BY <1>5, <2>1, <3>2, <4>1 DEF SetValvePacketSetup, TankAfter, Packet
    <3> QED
      BY <2>1, <3>1, <3>2
  <2> QED
    BY <1>1, <1>6, <1>7, <2>1, <2>2 DEF RangeInv, TankTypes
<1>8. CASE update_state = "STARTING_TANK"
  <2>1. command_packet.keyword = "START"
    BY <1>1, <1>8 DEF RangeInv, CommandFitsState, Packet
  <2>2. server_tank' = StartedTank
    BY <1>5, <2>1 DEF TankAfter
  <2> QED
    BY <1>1, <1>6, <1>8, <2>2 DEF TankTypes, StartedTank, MIN_VALUE
<1>9. CASE update_state \in {"TESTING_COMM", "GETTING_LEVEL"}
  <2>1. command_packet.keyword \in {"COMM_TEST", "GET_LEVEL"}
    BY <1>1, <1>9 DEF RangeInv, CommandFitsState, Packet
  <2>2. server_tank' = server_tank
    BY <1>5, <2>1 DEF TankAfter
  <2> QED
    BY <1>1, <1>6, <1>9, <2>2 DEF RangeInv, TankTypes
<1> QED
  BY <1>7, <1>8, <1>9 DEF RangeInv, UpdateStates

LEMMA RangeServeCommand ==
    ASSUME OnlyRepliesSuffer, RangeInv, ServeCommand, UNCHANGED clientVars
    PROVE  RangeInv'
<1> USE MaxValueAssumption, TankAssumption
<1>1. LimitsInv'
  BY LimitsUnchanged DEF RangeInv
<1>2. UNCHANGED <<update_state, waiting_answer, command_packet, tank_before, client_tank,
                  max_u, min_u>>
  BY DEF clientVars, protocolVars
<1>3. /\ waiting_answer /\ CommandArrived /\ plant_started /\ TankTypes'
      /\ \/ /\ update_state \in {"TESTING_COMM", "GETTING_LEVEL"}
            /\ server_tank' = server_tank
         \/ /\ update_state = "STARTING_TANK"
            /\ server_tank' = StartedTank
         \/ /\ update_state = "SETTING_INPUT_VALVE"
            /\ server_tank'.input = server_tank.input
            /\ server_tank'.delta = server_tank.delta + tank_before
      /\ \E reply : IsReply(reply) /\ responses' = <<reply>>
  BY ServeEffect
<1>4. UNCHANGED <<commands, client_socket, plant_started>> /\ server_socket' = <<>>
  BY DEF ServeCommand, Drained
<1>5. ~Executed /\ Executed'
  BY <1>2, <1>3, <1>4 DEF Executed, CommandArrived
<1>6. Traffic'
  BY <1>2, <1>3, <1>4, ShortSequences DEF Traffic, CommandArrived, ReplyInTransit
<1>7. (update_state \in UpdateStates)' /\ CommandFitsState' /\ BeforeRegulating' /\ PlantReady'
  BY <1>2, <1>3, <1>4 DEF RangeInv, CommandFitsState, BeforeRegulating, PlantReady
<1>8. ValveWithinRange' /\ PlantRestarted' /\ Accounting'
  <2>1. CASE update_state = "SETTING_INPUT_VALVE"
    <3>1. /\ Unbooked \in -min_u .. MAX_VALUE - max_u
          /\ client_tank.input + tank_before \in min_u .. max_u
          /\ Commanded \in Int /\ client_tank.input \in Int /\ tank_before \in Int
          /\ max_u \in Int /\ min_u \in Int
      BY <1>3, <1>5, <2>1
         DEF RangeInv, TankTypes, Commanded, Accounting, Regulating, Pending, Unbooked,
             LimitsInv, LimitTypes, ValveCommandFits
    <3>2. server_tank'.input = server_tank.input /\ Commanded' = Commanded + tank_before
      BY <1>3, <2>1, <3>1 DEF RangeInv, TankTypes, Commanded
    <3>3. Commanded' \in 0 .. MAX_VALUE
      BY <3>1, <3>2 DEF Unbooked
    <3>4. Unbooked' = Unbooked + tank_before /\ Pending' = tank_before
      BY <1>2, <1>5, <2>1, <3>1, <3>2 DEF Unbooked, Pending
    <3>5. Unbooked' - Pending' = Unbooked
      BY <3>1, <3>4 DEF Unbooked
    <3> QED
      BY <1>2, <2>1, <3>1, <3>2, <3>3, <3>5
         DEF RangeInv, ValveWithinRange, PlantRestarted, Accounting
  <2>2. CASE update_state = "STARTING_TANK"
    <3>1. server_tank' = StartedTank /\ update_state' = "STARTING_TANK"
      BY <1>2, <1>3, <2>2
    <3>2. server_tank'.input = INITIAL_INPUT /\ Commanded' = INITIAL_INPUT
      BY <3>1 DEF StartedTank, Commanded, MIN_VALUE
    <3> QED
      BY <3>1, <3>2 DEF ValveWithinRange, PlantRestarted, Accounting, Regulating, MIN_VALUE
  <2>3. CASE update_state \in {"TESTING_COMM", "GETTING_LEVEL"}
    <3>1. server_tank' = server_tank
      BY <1>3, <2>3
    <3> QED
      BY <1>2, <2>3, <3>1
         DEF RangeInv, ValveWithinRange, PlantRestarted, Accounting, Regulating, Commanded,
             Unbooked, Pending
  <2> QED
    BY <2>1, <2>2, <2>3 DEF RangeInv, UpdateStates
<1> QED
  BY <1>1, <1>3, <1>6, <1>7, <1>8 DEF RangeInv

(* Steps that only move or spoil the datagram on its way.                  *)
LEMMA RangeOnTheWay ==
    ASSUME RangeInv, Traffic', Executed' = Executed,
           UNCHANGED <<clientVars, server_tank, plant_started>>
    PROVE  RangeInv'
<1>1. LimitsInv'
  BY LimitsUnchanged DEF RangeInv
<1>2. UNCHANGED <<update_state, waiting_answer, command_packet, tank_before, client_tank,
                  max_u, min_u, server_tank, plant_started>>
  BY DEF clientVars, protocolVars
<1>3. (update_state \in UpdateStates)' /\ CommandFitsState' /\ TankTypes' /\ ValveWithinRange'
  BY <1>2 DEF RangeInv, CommandFitsState, TankTypes, ValveWithinRange, Commanded
<1>4. PlantReady' /\ BeforeRegulating' /\ PlantRestarted' /\ Accounting'
  BY <1>2 DEF RangeInv, PlantReady, BeforeRegulating, PlantRestarted, Accounting, Commanded,
              Unbooked, Pending, Regulating
<1> QED
  BY <1>1, <1>3, <1>4 DEF RangeInv

LEMMA RangeNetwork ==
    ASSUME OnlyRepliesSuffer, RangeInv, NetworkStep
    PROVE  RangeInv'
<1> USE DEF OnlyRepliesSuffer
<1>1. UNCHANGED <<clientVars, server_tank, plant_started, waiting_answer>> /\ Sent' = Sent
  BY DEF NetworkStep, serverVars, clientVars, protocolVars, Sent
<1>2. Traffic /\ (NoTraffic \/ CommandInTransit \/ CommandArrived \/ ReplyInTransit \/ ReplyArrived)
  BY DEF RangeInv, Traffic
<1>3. CASE DeliverCommand
  <2>1. CommandInTransit
    BY <1>2, <1>3 DEF DeliverCommand, Deliverable, NoTraffic, CommandArrived, ReplyInTransit,
                      ReplyArrived
  <2>2. /\ commands' = <<>> /\ server_socket' = <<Sent>>
        /\ UNCHANGED <<responses, client_socket>>
    <3>1. PICK i \in DOMAIN commands :
            /\ server_socket' = Append(server_socket, commands[i])
            /\ commands' = RemoveAt(commands, i)
            /\ UNCHANGED <<responses, client_socket>>
      BY <1>3 DEF DeliverCommand, Deliverable
    <3> QED
      BY <2>1, <3>1, OneDatagram, ShortSequences DEF CommandInTransit
  <2>3. Traffic' /\ Executed' = Executed
    BY <1>1, <1>2, <2>1, <2>2, ShortSequences
       DEF Traffic, CommandInTransit, CommandArrived, NoTraffic, Executed
  <2> QED
    BY <1>1, <2>3, RangeOnTheWay
<1>4. CASE ReplyInTransit /\ \E e : IsReply(e) /\ responses' = <<e>> /\
                                   UNCHANGED <<commands, server_socket, client_socket>>
  <2>1. ReplyInTransit' /\ Executed' = Executed
    BY <1>1, <1>4, ShortSequences DEF ReplyInTransit, Executed
  <2> QED
    BY <1>1, <1>2, <1>4, <2>1, RangeOnTheWay, ShortSequences DEF Traffic, NoTraffic, ReplyInTransit
<1>5. CASE DeliverResponse \/ LoseResponse \/ GarbleResponse \/ AlterResponse
  <2>1. ReplyInTransit
    BY <1>2, <1>5
       DEF DeliverResponse, Deliverable, LoseResponse, GarbleResponse, AlterResponse,
           CorruptResponse, NoTraffic, CommandInTransit, CommandArrived, ReplyArrived
  <2>2. PICK d : responses = <<d>> /\ IsReply(d)
    BY <2>1 DEF ReplyInTransit
  <2>3. CASE DeliverResponse
    <3>1. d.peer = Client
      BY <2>2 DEF IsReply, Datagrams, Peers
    <3>2. client_socket' = <<d>> /\ responses' = <<>> /\ UNCHANGED <<commands, server_socket>>
      <4>1. PICK i \in DOMAIN responses :
              /\ client_socket' = IF responses[i].peer = Client
                                  THEN Append(client_socket, responses[i])
                                  ELSE client_socket
              /\ responses' = RemoveAt(responses, i)
              /\ UNCHANGED <<commands, server_socket>>
        BY <2>3 DEF DeliverResponse, Deliverable
      <4> QED
        BY <2>1, <2>2, <3>1, <4>1, OneDatagram, ShortSequences DEF ReplyInTransit
    <3>3. Traffic' /\ Executed' = Executed
      BY <1>1, <1>2, <2>1, <2>2, <3>2, ShortSequences
         DEF Traffic, NoTraffic, ReplyInTransit, ReplyArrived, Executed
    <3> QED
      BY <1>1, <3>3, RangeOnTheWay
  <2>4. CASE LoseResponse
    <3>1. responses' = <<>> /\ UNCHANGED <<commands, server_socket, client_socket>>
      BY <2>2, <2>4, OneDatagram DEF LoseResponse
    <3>2. Traffic' /\ Executed' = Executed
      BY <1>1, <2>1, <3>1 DEF Traffic, NoTraffic, ReplyInTransit, Executed
    <3> QED
      BY <1>1, <3>2, RangeOnTheWay
  <2>5. CASE GarbleResponse \/ AlterResponse
    <3>1. PICK i \in DOMAIN responses :
            \E e \in Garbled(responses[i]) \cup Altered(responses[i]) :
                /\ responses' = ReplaceAt(responses, i, e)
                /\ UNCHANGED <<commands, server_socket, client_socket>>
      BY <2>5 DEF GarbleResponse, AlterResponse, CorruptResponse
    <3>2. responses[i] = d /\ \A e : ReplaceAt(responses, i, e) = <<e>>
      BY <2>2, OneDatagram
    <3> QED
      BY <1>4, <2>1, <2>2, <3>1, <3>2, SpoiltReply
  <2> QED
    BY <1>5, <2>3, <2>4, <2>5
<1>6. DeliverCommand \/ DeliverResponse \/ LoseResponse \/ GarbleResponse \/ AlterResponse
  BY DEF NetworkStep, NetworkNext, LoseCommand, GarbleCommand, AlterCommand
<1> QED
  BY <1>3, <1>5, <1>6

LEMMA RangeNext ==
    ASSUME OnlyRepliesSuffer, RangeInv, [Next]_vars
    PROVE  RangeInv'
<1>1. CASE ClientStep
  BY <1>1, RangeControl, RangeSendCommand, RangeTreatAnswer DEF ClientStep, ClientNext
<1>2. CASE ServerStep
  <2>1. CASE ServerDrawGraph
    <3>1. UNCHANGED <<networkVars, clientVars, server_tank, plant_started>>
      BY <1>2, <2>1 DEF ServerStep, ServerDrawGraph
    <3>2. Traffic' /\ Executed' = Executed
      BY <3>1 DEF networkVars, clientVars, protocolVars, RangeInv, Traffic, NoTraffic,
                  CommandInTransit, CommandArrived, ReplyInTransit, ReplyArrived, Sent, Executed
    <3> QED
      BY <3>1, <3>2, RangeOnTheWay
  <2> QED
    BY <1>2, <2>1, RangePlantStart, RangeTankTimeStep, RangeServeCommand
       DEF ServerStep, ServerNext
<1>3. CASE NetworkStep
  BY <1>3, RangeNetwork
<1>4. CASE OtherClientSends
  BY <1>4 DEF OtherClientSends, OnlyRepliesSuffer
<1>5. CASE UNCHANGED vars
  <2>1. Traffic' /\ Executed' = Executed /\ UNCHANGED <<clientVars, server_tank, plant_started>>
    BY <1>5 DEF vars, serverVars, networkVars, clientVars, protocolVars, RangeInv, Traffic, NoTraffic,
                CommandInTransit, CommandArrived, ReplyInTransit, ReplyArrived, Sent, Executed
  <2> QED
    BY <2>1, RangeOnTheWay
<1> QED
  BY <1>1, <1>2, <1>3, <1>4, <1>5 DEF Next

-----------------------------------------------------------------------------
(* The theorems. *)

(* If only replies are lost or spoilt, the server's valve and the opening  *)
(* it is told to reach never leave 0..MAX_VALUE, although the server never *)
(* checks them: the client's limits are enough (set_max_min_opening,       *)
(* open_valve, close_valve).                                               *)
THEOREM ValveStaysInRange ==
    ASSUME OnlyRepliesSuffer
    PROVE  Spec => []ValveWithinRange
<1>1. Init => RangeInv
  BY RangeInit
<1>2. RangeInv /\ [Next]_vars => RangeInv'
  BY RangeNext
<1>3. RangeInv => ValveWithinRange
  BY DEF RangeInv
<1> QED
  BY <1>1, <1>2, <1>3, PTL DEF Spec

(* ... because what the client and the server disagree on is never more    *)
(* than what the client has given up at its limits (treat_answer).         *)
THEOREM DriftIsCovered ==
    ASSUME OnlyRepliesSuffer
    PROVE  Spec => []DriftCovered
<1>1. Init => RangeInv
  BY RangeInit
<1>2. RangeInv /\ [Next]_vars => RangeInv'
  BY RangeNext
<1>3. RangeInv => DriftCovered
  <2> SUFFICES ASSUME RangeInv, Settled PROVE Unbooked \in -min_u .. MAX_VALUE - max_u
    BY DEF DriftCovered
  <2>1. Pending = 0 /\ Regulating
    BY DEF Settled, Pending, Executed, Regulating
  <2> QED
    BY <2>1, MaxValueAssumption
       DEF RangeInv, Accounting, Unbooked, TankTypes, Commanded, LimitsInv, LimitTypes
<1> QED
  BY <1>1, <1>2, <1>3, PTL DEF Spec

(* Every step of the system is a step of the abstract valve, or leaves it  *)
(* alone.                                                                  *)
LEMMA ValveStep ==
    ASSUME OnlyRepliesSuffer, RangeInv, RangeInv', [Next]_vars
    PROVE  [AbstractValve!Next]_<<server_tank.input, Commanded>>
<1> USE ClientAssumption, TankAssumption, MaxValueAssumption
<1> USE DEF AbstractValve!Next, AbstractValve!Retarget, AbstractValve!Restart,
            AbstractValve!Move, AbstractValve!Openings
<1>1. CASE UNCHANGED server_tank
  BY <1>1 DEF Commanded
<1>2. CASE PlantStart
  BY <1>2 DEF PlantStart, StartedTank, Commanded, MIN_VALUE
<1>3. CASE TankTimeStep
  BY <1>3, PlantMoves DEF RangeInv
<1>4. CASE ServeCommand
  <2>1. CASE update_state = "SETTING_INPUT_VALVE" /\ waiting_answer
             /\ server_tank'.input = server_tank.input
             /\ server_tank'.delta = server_tank.delta + tank_before
    <3>1. tank_before \in -MAX_DELTA .. MAX_DELTA /\ Commanded' \in 0 .. MAX_VALUE
      BY <2>1 DEF RangeInv, LimitsInv, ValveCommandFits, ValveWithinRange
    <3>2. Commanded' = Commanded + tank_before /\ Commanded \in Int
      BY <2>1, <3>1 DEF RangeInv, TankTypes, Commanded
    <3> QED
      BY <2>1, <3>1, <3>2
  <2>2. CASE server_tank' = StartedTank
    BY <2>2 DEF StartedTank, Commanded, MIN_VALUE
  <2> QED
    BY <1>1, <1>4, <2>1, <2>2, ServeEffect
<1>5. UNCHANGED server_tank \/ PlantStart \/ TankTimeStep \/ ServeCommand
  BY DEF Next, vars, serverVars, ClientStep, ServerStep, ServerNext, ServerDrawGraph,
         NetworkStep, OtherClientSends
<1> QED
  BY <1>1, <1>2, <1>3, <1>4, <1>5

(* If only replies are lost or spoilt, the protocol moves the server's     *)
(* valve as the abstract machine of Valve does (command_action,            *)
(* update_input_angle).                                                    *)
THEOREM ValveIsImplemented ==
    ASSUME OnlyRepliesSuffer
    PROVE  Spec => ImplementsValve
<1>1. Init => RangeInv
  BY RangeInit
<1>2. RangeInv /\ [Next]_vars => RangeInv'
  BY RangeNext
<1>3. RangeInv => AbstractValve!Init
  BY DEF RangeInv, ValveWithinRange, AbstractValve!Init, AbstractValve!Openings
<1>4. RangeInv /\ RangeInv' /\ [Next]_vars => [AbstractValve!Next]_<<server_tank.input, Commanded>>
  BY ValveStep
<1>5. <<server_tank.input, Commanded>> = AbstractValve!valveVars
  BY DEF AbstractValve!valveVars
<1> QED
  BY <1>1, <1>2, <1>3, <1>4, <1>5, PTL
     DEF Spec, ImplementsValve, AbstractValve!Spec, AbstractValve!valveVars

=============================================================================
