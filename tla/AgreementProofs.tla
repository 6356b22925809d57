-------------------------- MODULE AgreementProofs --------------------------
(***************************************************************************)
(* If the worst that happens is that the server refuses a spoilt command,  *)
(* the client knows exactly where the server was told to put the valve,    *)
(* and that is never out of range.                                         *)
(***************************************************************************)
EXTENDS ValveRangeProofs

(* The conditions: a command may arrive spoilt, so that it does not parse, *)
(* or not be sent at all; every reply arrives, before the client gives up  *)
(* on it; nobody else commands the valve; the client restarts the plant;   *)
(* the threads keep their periods.                                         *)
OnlyRefusals ==
    /\ Faults \subseteq {"garble_command", "send_error"}
    /\ OtherClients = {}
    /\ RestartServer
    /\ PeriodsKept

-----------------------------------------------------------------------------
(* The inductive invariant. *)

\* The command as it was sent, or spoilt.
Travelling(d) == d \in Datagrams /\ (d = Sent \/ d.form # "intact")

Refusal == FormatMessage(Client, Packet("ERROR_RESPONSE", NO_VALUE))

\* p is the reply that the awaited command is to be answered with.
Acknowledges(p) ==
    /\ p \in [keyword : ResponseKeywords \ {"ERROR_RESPONSE"}, value : Int]
    /\ IsPacketValid(p)
    /\ p = ExpectedPacket(p)

ReplyTo(d) == d = Refusal \/ \E p : Acknowledges(p) /\ d = FormatMessage(Client, p)

(* While an answer is awaited there is exactly one datagram.               *)
CommandUnderWay(queue, socket) ==
    /\ \/ queue = <<Head(queue)>> /\ Travelling(Head(queue)) /\ socket = <<>>
       \/ socket = <<Head(socket)>> /\ Travelling(Head(socket)) /\ queue = <<>>
    /\ responses = <<>> /\ client_socket = <<>>

ReplyUnderWay(queue, socket) ==
    /\ \/ queue = <<Head(queue)>> /\ ReplyTo(Head(queue)) /\ socket = <<>>
       \/ socket = <<Head(socket)>> /\ ReplyTo(Head(socket)) /\ queue = <<>>
    /\ commands = <<>> /\ server_socket = <<>>

OneUnderWay ==
    IF waiting_answer
    THEN \/ CommandUnderWay(commands, server_socket)
         \/ ReplyUnderWay(responses, client_socket)
    ELSE NoTraffic

\* The server has carried the awaited command out.
CarriedOut == Executed /\ responses # <<Refusal>> /\ client_socket # <<Refusal>>

AcknowledgedByStartedPlant == Executed \/ Regulating => plant_started

NothingGivenUp == max_u = MAX_VALUE /\ min_u = 0

StartAgrees ==
    /\ ~Regulating => client_tank.input = INITIAL_INPUT
    /\ update_state = "STARTING_TANK" /\ CarriedOut => Commanded = INITIAL_INPUT

\* The change that is carried out but not booked yet.
Outstanding ==
    IF update_state = "SETTING_INPUT_VALVE" /\ CarriedOut THEN tank_before ELSE 0

ExactAccounting == Regulating => Unbooked = Outstanding

AgreementInv ==
    /\ LimitsInv
    /\ update_state \in UpdateStates
    /\ CommandFitsState
    /\ TankTypes
    /\ OneUnderWay
    /\ AcknowledgedByStartedPlant
    /\ NothingGivenUp
    /\ StartAgrees
    /\ ExactAccounting

-----------------------------------------------------------------------------
(* Lemmas about packets. *)

(* What the server sends is what the client reads.                         *)
LEMMA ReplyRoundTrip ==
    ASSUME NEW p \in [keyword : ResponseKeywords, value : Int], IsPacketValid(p),
           NEW peer
    PROVE  ParseResponse(FormatMessage(peer, p)) = p
<1> DEFINE d      == FormatMessage(peer, p)
           named  == {k \in ResponseKeywords : GetKeywordStr[k] = d.word}
           parsed == {q \in {Packet(k, GetValue(d.complement)) : k \in named} :
                          IsPacketValid(q)}
<1>1. /\ d.word = GetKeywordStr[p.keyword]
      /\ d.complement = Complement(p.value)
      /\ d.form = "intact"
  BY DEF FormatMessage
<1>2. p.value = NO_VALUE \/ p.value = OK_VALUE \/ p.value \in Nat
  BY MaxValueAssumption DEF IsPacketValid, ResponseKeywords, MIN_VALUE
<1>3. GetValue(Complement(p.value)) = p.value
  BY <1>2 DEF GetValue, Complement, NO_VALUE, OK_VALUE
<1>4. named = {p.keyword}
  BY <1>1 DEF ResponseKeywords, GetKeywordStr
<1>5. p = Packet(p.keyword, p.value)
  BY DEF Packet
<1>6. parsed = {p}
  BY <1>1, <1>3, <1>4, <1>5
<1>7. ParseResponse(d) = IF d.form = "intact" /\ parsed # {}
                         THEN CHOOSE q \in parsed : TRUE
                         ELSE ErrorPacket
  BY DEF ParseResponse, ParseWith
<1> QED
  BY <1>1, <1>6, <1>7

LEMMA RefusalIsRead == ParseResponse(Refusal) = Packet("ERROR_RESPONSE", NO_VALUE)
<1> DEFINE p == Packet("ERROR_RESPONSE", NO_VALUE)
<1>1. p \in [keyword : ResponseKeywords, value : Int] /\ IsPacketValid(p)
  BY DEF Packet, ResponseKeywords, NO_VALUE, IsPacketValid
<1> HIDE DEF p
<1>2. ParseResponse(FormatMessage(Client, p)) = p
  BY <1>1, ReplyRoundTrip
<1> QED
  BY <1>2 DEF Refusal, p

LEMMA AcknowledgementIsRead ==
    ASSUME NEW p, Acknowledges(p)
    PROVE  /\ ParseResponse(FormatMessage(Client, p)) = p
           /\ FormatMessage(Client, p) # Refusal
<1>1. ParseResponse(FormatMessage(Client, p)) = p
  BY ReplyRoundTrip DEF Acknowledges
<1>2. p.keyword # "ERROR_RESPONSE"
  BY DEF Acknowledges
<1> QED
  BY <1>1, <1>2, RefusalIsRead DEF Packet

(* The awaited command is valid, and answered by what the client expects.  *)
LEMMA AwaitedCommand ==
    ASSUME LimitsInv, update_state \in UpdateStates, CommandFitsState, TankTypes,
           waiting_answer
    PROVE  /\ command_packet \in [keyword : CommandKeywords, value : Int]
           /\ IsPacketValid(command_packet)
           /\ Acknowledges(Answer(command_packet))
<1> USE MaxValueAssumption
<1>1. /\ command_packet \in [keyword : CommandKeywords, value : Int]
      /\ IsPacketValid(command_packet)
  <2> USE DEF CommandKeywords, IsPacketValid, Packet
  <2>1. CASE update_state = "SETTING_INPUT_VALVE"
    <3>1. command_packet = SetValvePacketSetup(tank_before)
      BY <2>1 DEF LimitsInv, ValveCommandFits
    <3>2. tank_before \in -MAX_VALUE .. MAX_VALUE
      BY <2>1 DEF LimitsInv, LimitTypes, ClientLimits, ValveCommandFits
    <3> QED
      BY <3>1, <3>2 DEF SetValvePacketSetup, MIN_VALUE
  <2>2. CASE update_state # "SETTING_INPUT_VALVE"
    BY <2>2 DEF UpdateStates, CommandFitsState, NO_VALUE
  <2> QED
    BY <2>1, <2>2
<1>2. server_tank.level \in MIN_VALUE .. MAX_VALUE
  BY DEF TankTypes
<1>3. CASE command_packet.keyword = "GET_LEVEL"
  <2>1. Answer(command_packet) = Packet("GET_LEVEL_RESPONSE", server_tank.level)
    BY <1>3 DEF Answer
  <2> DEFINE p == Answer(command_packet)
  <2>2. p.keyword = "GET_LEVEL_RESPONSE" /\ p.value = server_tank.level
        /\ p = Packet("GET_LEVEL_RESPONSE", p.value)
    BY <2>1 DEF Packet
  <2> HIDE DEF p
  <2>3. ExpectedPacket(p) = p
    BY <1>3, <2>2 DEF ExpectedPacket, ResponseTo
  <2>4. p \in [keyword : ResponseKeywords \ {"ERROR_RESPONSE"}, value : Int] /\ IsPacketValid(p)
    BY <1>2, <2>2 DEF Packet, ResponseKeywords, IsPacketValid, MIN_VALUE
  <2> QED
    BY <1>1, <2>3, <2>4 DEF Acknowledges, p
<1>4. CASE command_packet.keyword \in {"COMM_TEST", "START"}
  <2>1. Answer(command_packet) = Packet(ResponseTo[command_packet.keyword], OK_VALUE)
    BY <1>4 DEF Answer
  <2> QED
    BY <1>1, <1>4, <2>1
       DEF Acknowledges, Packet, ExpectedPacket, ResponseTo, ResponseKeywords, IsPacketValid,
           OK_VALUE
<1>5. CASE command_packet.keyword \in {"OPEN_VALVE", "CLOSE_VALVE", "SET_MAX"}
  <2>1. Answer(command_packet) = Packet(ResponseTo[command_packet.keyword], command_packet.value)
    BY <1>5 DEF Answer
  <2>2. command_packet.value \in MIN_VALUE .. MAX_VALUE
    BY <1>1, <1>5 DEF IsPacketValid
  <2> QED
    BY <1>1, <1>5, <2>1, <2>2
       DEF Acknowledges, Packet, ExpectedPacket, ResponseTo, ResponseKeywords, IsPacketValid,
           MIN_VALUE
<1> QED
  BY <1>1, <1>3, <1>4, <1>5 DEF CommandKeywords

(* What is not intact is refused, and changes nothing.                     *)
LEMMA SpoiltIsRefused ==
    ASSUME NEW d, d.form # "intact"
    PROVE  /\ ParseCommand(d) = ErrorPacket
           /\ TankAfter(ErrorPacket) = server_tank
           /\ Answer(ErrorPacket) = Packet("ERROR_RESPONSE", NO_VALUE)
BY DEF ParseCommand, ParseWith, TankAfter, Answer, ErrorPacket, Packet

-----------------------------------------------------------------------------
(* AgreementInv is kept by every step. *)

LEMMA AgreementInit ==
    ASSUME Init
    PROVE  AgreementInv
<1> USE MaxValueAssumption, TankAssumption
<1>1. LimitsInv
  BY LimitsInit
<1>2. update_state = "TESTING_COMM" /\ ~waiting_answer
      /\ CommandFitsState /\ OneUnderWay /\ NothingGivenUp
  BY DEF Init, ClientInit, NetworkInit, CommandFitsState, OneUnderWay, NoTraffic, NothingGivenUp
<1>3. ~Executed /\ ~Regulating /\ ~CarriedOut
  BY <1>2 DEF Executed, Regulating, CarriedOut
<1>4. StartAgrees
  BY <1>2, <1>3 DEF Init, ClientInit, StartAgrees
<1>5. TankTypes
  <2>1. CASE server_tank = [input |-> 0, level |-> 0, delta |-> 0, max |-> 0]
    BY <2>1 DEF TankTypes, MIN_VALUE
  <2>2. ASSUME NEW input \in MIN_VALUE .. MAX_VALUE, NEW target \in MIN_VALUE .. MAX_VALUE,
               server_tank = [StartedTank EXCEPT !.input = input, !.delta = target - input]
        PROVE  TankTypes
    <3>1. server_tank = [input |-> input, level |-> INITIAL_LEVEL,
                         delta |-> target - input, max |-> MAX_VALUE]
      BY <2>2 DEF StartedTank
    <3> QED
      BY <3>1 DEF TankTypes, MIN_VALUE
  <2> QED
    BY <2>1, <2>2 DEF Init, ServerInit
<1> QED
  BY <1>1, <1>2, <1>3, <1>4, <1>5
     DEF AgreementInv, UpdateStates, AcknowledgedByStartedPlant, ExactAccounting

\* Steps that leave the protocol, its datagrams and the valve alone.
LEMMA AgreementAside ==
    ASSUME AgreementInv, LimitsInv',
           UNCHANGED <<networkVars, server_tank, plant_started, update_state, waiting_answer,
                       command_packet, tank_before, max_u, min_u>>,
           client_tank'.input = client_tank.input
    PROVE  AgreementInv'
<1> USE DEF networkVars
<1>1. (update_state \in UpdateStates)' /\ CommandFitsState' /\ TankTypes' /\ NothingGivenUp'
  BY DEF AgreementInv, CommandFitsState, TankTypes, NothingGivenUp
<1>2. OneUnderWay'
  BY DEF AgreementInv, OneUnderWay, NoTraffic, CommandUnderWay, ReplyUnderWay, Travelling,
         ReplyTo, Acknowledges, ExpectedPacket, Sent
<1>3. Executed' = Executed /\ Regulating' = Regulating /\ CarriedOut' = CarriedOut
  BY DEF Executed, Regulating, CarriedOut
<1>4. AcknowledgedByStartedPlant' /\ StartAgrees' /\ ExactAccounting'
  BY <1>3 DEF AgreementInv, AcknowledgedByStartedPlant, StartAgrees, ExactAccounting,
              Outstanding, Unbooked, Commanded
<1> QED
  BY <1>1, <1>2, <1>4 DEF AgreementInv

LEMMA AgreementControl ==
    ASSUME AgreementInv, ControlStart \/ UpdateController \/ ClientDrawGraph,
           UNCHANGED serverVars
    PROVE  AgreementInv'
<1>1. LimitsInv'
  BY LimitsControl DEF AgreementInv
<1>2. UNCHANGED <<networkVars, update_state, waiting_answer, command_packet, tank_before,
                  max_u, min_u, server_tank, plant_started>>
  BY DEF ControlStart, UpdateController, ClientDrawGraph, protocolVars, serverVars
<1>3. client_tank'.input = client_tank.input
  BY DEF ControlStart, UpdateController, ClientDrawGraph, AgreementInv, LimitsInv, LimitTypes
<1> QED
  BY <1>1, <1>2, <1>3, AgreementAside

LEMMA AgreementSendCommand ==
    ASSUME PeriodsKept, AgreementInv, SendCommand, UNCHANGED serverVars
    PROVE  AgreementInv'
<1>1. LimitsInv'
  BY LimitsSendCommand DEF AgreementInv
<1>2. NoTraffic /\ ~waiting_answer
  BY DEF AgreementInv, OneUnderWay, SendCommand
<1>3. UNCHANGED <<server_socket, responses, client_socket, update_state, client_tank,
                  max_u, min_u, server_tank, plant_started>>
  BY DEF SendCommand, serverVars
<1>4. \/ commands' = <<Sent'>> /\ waiting_answer' = TRUE
      \/ commands' = <<>> /\ waiting_answer' = FALSE
  BY <1>2, ShortSequences DEF SendCommand, NoTraffic, Sent
<1>0. Sent' \in Datagrams
  <2>1. client_tank.delta \in Int
    BY DEF AgreementInv, LimitsInv, LimitTypes
  <2>2. CommandToSend \in [keyword : Keywords, value : Int]
    BY <2>1 DEF AgreementInv, UpdateStates, CommandToSend, SetValvePacketSetup, Packet,
                Keywords, CommandKeywords, NO_VALUE
  <2> QED
    BY <2>2, FormattedMessage DEF SendCommand, Sent, Peers
<1>5. OneUnderWay'
  BY <1>0, <1>2, <1>3, <1>4, ShortSequences
     DEF OneUnderWay, NoTraffic, CommandUnderWay, Travelling
<1>6. ~Executed /\ ~Executed' /\ ~CarriedOut /\ ~CarriedOut' /\ Regulating' = Regulating
  BY <1>2, <1>3, <1>4, ShortSequences DEF Executed, CarriedOut, Regulating
<1>7. CommandFitsState'
  BY <1>3 DEF SendCommand, CommandToSend, CommandFitsState
<1>8. (update_state \in UpdateStates)' /\ TankTypes' /\ NothingGivenUp'
  BY <1>3 DEF AgreementInv, TankTypes, NothingGivenUp
<1>9. AcknowledgedByStartedPlant' /\ StartAgrees' /\ ExactAccounting'
  BY <1>3, <1>6 DEF AgreementInv, AcknowledgedByStartedPlant, StartAgrees, ExactAccounting,
                    Outstanding, Unbooked, Commanded
<1> QED
  BY <1>1, <1>5, <1>7, <1>8, <1>9 DEF AgreementInv

(* A reply is awaited until it is there, and then it is the refusal of the *)
(* command or the reply that was expected.                                 *)
LEMMA AnswerIsClear ==
    ASSUME OnlyRefusals, AgreementInv, ReceiveAnswer \/ AnswerTimeout
    PROVE  /\ Executed /\ plant_started /\ waiting_answer' = FALSE /\ NoTraffic'
           /\ UNCHANGED <<command_packet, tank_before>>
           /\ \/ /\ ~CarriedOut
                 /\ UNCHANGED <<update_state, client_tank, max_u, min_u>>
              \/ /\ CarriedOut
                 /\ UNCHANGED <<max_u, min_u>>
                 /\ \E p : AnswerOK(p)
<1>1. ReceiveAnswer /\ ReplyUnderWay(responses, client_socket)
  <2>1. /\ waiting_answer
        /\ client_socket # <<>> \/ (NothingInTransit /\ client_socket = <<>>)
    BY DEF ReceiveAnswer, AnswerTimeout, OnlyRefusals
  <2>2. ~(NothingInTransit /\ client_socket = <<>>)
    BY <2>1, ShortSequences
       DEF AgreementInv, OneUnderWay, CommandUnderWay, ReplyUnderWay, NothingInTransit
  <2> QED
    BY <2>1, <2>2 DEF AnswerTimeout, AgreementInv, OneUnderWay, CommandUnderWay
<1>2. PICK d : ReplyTo(d) /\ client_socket = <<d>> /\ responses = <<>>
               /\ commands = <<>> /\ server_socket = <<>>
  BY <1>1 DEF ReceiveAnswer, ReplyUnderWay
<1>3. /\ Executed /\ plant_started /\ waiting_answer' = FALSE /\ NoTraffic'
      /\ UNCHANGED <<command_packet, tank_before>>
      /\ TreatAnswer(d)
  BY <1>1, <1>2, ShortSequences
     DEF ReceiveAnswer, Executed, NoTraffic, Drained, Received, AgreementInv,
         AcknowledgedByStartedPlant
<1>4. CarriedOut <=> d # Refusal
  BY <1>2, <1>3, ShortSequences DEF CarriedOut
<1>5. CASE d = Refusal
  <2>1. ParseResponse(d).keyword = "ERROR_RESPONSE"
    BY <1>5, RefusalIsRead DEF Packet
  <2>2. ParseResponse(d) # ExpectedPacket(ParseResponse(d))
    <3>1. /\ command_packet \in [keyword : CommandKeywords, value : Int]
          /\ Executed => waiting_answer
      BY <1>3, AwaitedCommand DEF AgreementInv, Executed
    <3>2. ExpectedPacket(ParseResponse(d)).keyword = ResponseTo[command_packet.keyword]
      BY DEF ExpectedPacket, Packet
    <3> QED
      BY <2>1, <3>1, <3>2 DEF ResponseTo, CommandKeywords
  <2>3. UNCHANGED <<update_state, client_tank, max_u, min_u>>
    BY <1>3, <2>1, <2>2 DEF TreatAnswer
  <2> QED
    BY <1>3, <1>4, <1>5, <2>3
<1>6. CASE d # Refusal
  <2>1. PICK p : Acknowledges(p) /\ d = FormatMessage(Client, p)
    BY <1>2, <1>6 DEF ReplyTo
  <2>2. ParseResponse(d) = p /\ p = ExpectedPacket(p)
    BY <2>1, AcknowledgementIsRead DEF Acknowledges
  <2>3. AnswerOK(p) /\ UNCHANGED <<max_u, min_u>>
    BY <1>3, <2>2 DEF TreatAnswer
  <2> QED
    BY <1>3, <1>4, <1>6, <2>3
<1> QED
  BY <1>5, <1>6

LEMMA AgreementTreatAnswer ==
    ASSUME OnlyRefusals, AgreementInv, ReceiveAnswer \/ AnswerTimeout, UNCHANGED serverVars
    PROVE  AgreementInv'
<1> USE MaxValueAssumption, TankAssumption
<1>1. LimitsInv'
  BY LimitsTreatAnswer DEF AgreementInv
<1>2. /\ Executed /\ plant_started /\ waiting_answer' = FALSE /\ NoTraffic'
      /\ UNCHANGED <<command_packet, tank_before>>
      /\ \/ /\ ~CarriedOut
            /\ UNCHANGED <<update_state, client_tank, max_u, min_u>>
         \/ /\ CarriedOut
            /\ UNCHANGED <<max_u, min_u>>
            /\ \E p : AnswerOK(p)
  BY AnswerIsClear
<1>3. UNCHANGED <<server_tank, plant_started, max_u, min_u>> /\ Commanded' = Commanded
  BY <1>2 DEF serverVars, Commanded
<1>4. ~Executed' /\ ~CarriedOut' /\ OneUnderWay' /\ CommandFitsState'
  BY <1>2 DEF Executed, CarriedOut, OneUnderWay, CommandFitsState
<1>5. TankTypes' /\ NothingGivenUp' /\ AcknowledgedByStartedPlant'
  BY <1>2, <1>3, <1>4 DEF AgreementInv, TankTypes, NothingGivenUp, AcknowledgedByStartedPlant
<1>6. (update_state \in UpdateStates)' /\ StartAgrees' /\ ExactAccounting'
  <2>1. CASE ~CarriedOut /\ UNCHANGED <<update_state, client_tank>>
    BY <1>3, <1>4, <2>1
       DEF AgreementInv, StartAgrees, ExactAccounting, Regulating, Outstanding, Unbooked
  <2>2. ASSUME NEW p, CarriedOut, AnswerOK(p)
        PROVE  (update_state \in UpdateStates)' /\ StartAgrees' /\ ExactAccounting'
    <3> USE DEF AgreementInv, LimitsInv, LimitTypes, TankTypes, UpdateStates
    <3>1. CASE update_state \in {"TESTING_COMM", "STARTING_TANK", "GETTING_LEVEL"}
      <4>1. client_tank'.input = client_tank.input
        BY <2>2, <3>1 DEF AnswerOK
      <4>2. \/ update_state = "TESTING_COMM" /\ update_state' = "STARTING_TANK"
            \/ update_state = "STARTING_TANK" /\ update_state' = "GETTING_LEVEL"
            \/ update_state = "GETTING_LEVEL" /\ update_state' = "SETTING_INPUT_VALVE"
        BY <2>2, <3>1 DEF AnswerOK, OnlyRefusals
      <4>3. update_state = "STARTING_TANK" => Unbooked' = 0
        BY <1>3, <2>2, <4>1 DEF StartAgrees, Regulating, Unbooked
      <4>4. update_state = "GETTING_LEVEL" => Unbooked' = 0
        BY <1>3, <4>1 DEF ExactAccounting, Regulating, Outstanding, Unbooked
      <4> QED
        BY <1>4, <4>1, <4>2, <4>3, <4>4 DEF StartAgrees, ExactAccounting, Regulating, Outstanding
    <3>2. CASE update_state = "SETTING_INPUT_VALVE"
      <4>1. InputValveSet
        BY <2>2, <3>2 DEF AnswerOK
      <4>2. client_tank'.input = client_tank.input + tank_before
        <5> DEFINE moved == [client_tank EXCEPT !.input = client_tank.input + tank_before]
        <5>1. moved \in [input : Int, level : Int, delta : Int]
              /\ moved.input = client_tank.input + tank_before
          OBVIOUS
        <5>2. client_tank' = [moved EXCEPT !.delta = client_tank.delta - tank_before]
          BY <4>1 DEF InputValveSet
        <5> HIDE DEF moved
        <5> QED
          BY <5>1, <5>2
      <4>3. Unbooked = tank_before
        BY <2>2, <3>2 DEF ExactAccounting, Regulating, Outstanding
      <4>4. Unbooked' = 0
        BY <1>3, <4>2, <4>3 DEF Unbooked, Commanded
      <4> QED
        BY <1>4, <4>1, <4>4 DEF InputValveSet, StartAgrees, ExactAccounting, Regulating, Outstanding
    <3> QED
      BY <3>1, <3>2
  <2> QED
    BY <1>2, <2>1, <2>2
<1> QED
  BY <1>1, <1>4, <1>5, <1>6 DEF AgreementInv

LEMMA AgreementPlantStart ==
    ASSUME AgreementInv, PlantStart, UNCHANGED clientVars
    PROVE  AgreementInv'
<1> USE MaxValueAssumption, TankAssumption
<1>1. LimitsInv'
  BY LimitsUnchanged DEF AgreementInv
<1>2. ~Executed /\ ~Regulating /\ server_tank' = StartedTank /\ plant_started'
  BY DEF AgreementInv, AcknowledgedByStartedPlant, PlantStart
<1>3. UNCHANGED <<commands, server_socket, responses, client_socket, update_state,
                  waiting_answer, command_packet, client_tank, max_u, min_u>>
  BY DEF PlantStart, networkVars, clientVars, protocolVars
<1>4. ~Executed' /\ ~Regulating' /\ ~CarriedOut'
  BY <1>2, <1>3 DEF Executed, Regulating, CarriedOut
<1>5. TankTypes'
  BY <1>2 DEF StartedTank, TankTypes, MIN_VALUE
<1>6. OneUnderWay'
  BY <1>3 DEF AgreementInv, OneUnderWay, NoTraffic, CommandUnderWay, ReplyUnderWay, Travelling,
              ReplyTo, Acknowledges, ExpectedPacket, Sent
<1>7. CommandFitsState' /\ (update_state \in UpdateStates)' /\ NothingGivenUp'
  BY <1>3 DEF AgreementInv, CommandFitsState, NothingGivenUp
<1>8. AcknowledgedByStartedPlant' /\ StartAgrees' /\ ExactAccounting'
  BY <1>2, <1>3, <1>4 DEF AgreementInv, AcknowledgedByStartedPlant, StartAgrees,
                          ExactAccounting
<1> QED
  BY <1>1, <1>5, <1>6, <1>7, <1>8 DEF AgreementInv

\* A step of the plant leaves the opening it was told to reach alone.
LEMMA PlantKeepsCommanded ==
    ASSUME TankTypes, TankTimeStep
    PROVE  TankTypes' /\ Commanded' = Commanded
<1> USE MaxValueAssumption, ServerAssumption
<1>1. PICK step \in 1 .. PlantRate, raw \in RawLevels :
          server_tank' = [UpdateInputAngle(server_tank, step) EXCEPT
                              !.level = TankLevelSaturation(raw)]
  BY DEF TankTimeStep
<1> DEFINE i == server_tank.input
           e == server_tank.delta
           moved == UpdateInputAngle(server_tank, step)
<1>2. i \in Int /\ e \in Int /\ step \in Int
  BY DEF TankTypes
<1>3. moved \in [input : Int, level : MIN_VALUE .. MAX_VALUE, delta : Int,
                 max : MIN_VALUE .. MAX_VALUE]
      /\ moved.input + moved.delta = i + e
  <2> DEFINE SetTo(j, f) == [server_tank EXCEPT !.input = j, !.delta = f]
  <2>1. ASSUME NEW j \in Int, NEW f \in Int
        PROVE  /\ SetTo(j, f) \in [input : Int, level : MIN_VALUE .. MAX_VALUE, delta : Int,
                                   max : MIN_VALUE .. MAX_VALUE]
               /\ SetTo(j, f).input = j /\ SetTo(j, f).delta = f
    <3> DEFINE half == [server_tank EXCEPT !.input = j]
    <3>1. half \in [input : Int, level : MIN_VALUE .. MAX_VALUE, delta : Int,
                    max : MIN_VALUE .. MAX_VALUE] /\ half.input = j
      BY DEF TankTypes
    <3> HIDE DEF half
    <3>2. [half EXCEPT !.delta = f] \in [input : Int, level : MIN_VALUE .. MAX_VALUE,
                                         delta : Int, max : MIN_VALUE .. MAX_VALUE]
          /\ [half EXCEPT !.delta = f].input = j /\ [half EXCEPT !.delta = f].delta = f
      BY <3>1
    <3> QED
      BY <3>2 DEF half
  <2>2. \/ moved = server_tank
        \/ moved = SetTo(i + e, 0)
        \/ moved = SetTo(i + step, e - step)
        \/ moved = SetTo(i - step, e + step)
    BY DEF UpdateInputAngle
  <2>3. CASE moved = server_tank
    BY <2>3 DEF TankTypes
  <2> HIDE DEF moved, SetTo, i, e
  <2>0. /\ i + e \in Int /\ i + step \in Int /\ e - step \in Int
        /\ i - step \in Int /\ e + step \in Int
        /\ (i + e) + 0 = i + e
        /\ (i + step) + (e - step) = i + e
        /\ (i - step) + (e + step) = i + e
    BY <1>2
  <2>4. CASE moved = SetTo(i + e, 0)
    BY <2>0, <2>1, <2>4
  <2>5. CASE moved = SetTo(i + step, e - step)
    BY <2>0, <2>1, <2>5
  <2>6. CASE moved = SetTo(i - step, e + step)
    BY <2>0, <2>1, <2>6
  <2> QED
    BY <2>2, <2>3, <2>4, <2>5, <2>6
<1>4. TankLevelSaturation(raw) \in MIN_VALUE .. MAX_VALUE
  BY DEF TankLevelSaturation, MIN_VALUE
<1>5. server_tank' = [moved EXCEPT !.level = TankLevelSaturation(raw)]
  BY <1>1
<1> HIDE DEF moved
<1> QED
  BY <1>3, <1>4, <1>5 DEF TankTypes, Commanded

LEMMA AgreementTankTimeStep ==
    ASSUME AgreementInv, TankTimeStep, UNCHANGED clientVars
    PROVE  AgreementInv'
<1>1. LimitsInv'
  BY LimitsUnchanged DEF AgreementInv
<1>2. UNCHANGED <<commands, server_socket, responses, client_socket, plant_started, update_state,
                  waiting_answer, command_packet, tank_before, client_tank, max_u, min_u>>
  BY DEF TankTimeStep, networkVars, clientVars, protocolVars
<1>3. TankTypes' /\ Commanded' = Commanded
  BY PlantKeepsCommanded DEF AgreementInv
<1>4. Executed' = Executed /\ Regulating' = Regulating /\ CarriedOut' = CarriedOut
  BY <1>2 DEF Executed, Regulating, CarriedOut
<1>5. OneUnderWay'
  BY <1>2 DEF AgreementInv, OneUnderWay, NoTraffic, CommandUnderWay, ReplyUnderWay, Travelling,
              ReplyTo, Acknowledges, ExpectedPacket, Sent
<1>6. CommandFitsState' /\ (update_state \in UpdateStates)' /\ NothingGivenUp'
  BY <1>2 DEF AgreementInv, CommandFitsState, NothingGivenUp
<1>7. AcknowledgedByStartedPlant' /\ StartAgrees' /\ ExactAccounting'
  BY <1>2, <1>3, <1>4 DEF AgreementInv, AcknowledgedByStartedPlant, StartAgrees,
                          ExactAccounting, Outstanding, Unbooked
<1> QED
  BY <1>1, <1>3, <1>5, <1>6, <1>7 DEF AgreementInv

(* The server refuses a spoilt command and carries the other one out.      *)
LEMMA ServeOrRefuse ==
    ASSUME OnlyRefusals, AgreementInv, ServeCommand
    PROVE  /\ waiting_answer /\ commands = <<>> /\ client_socket = <<>> /\ plant_started
           /\ server_socket # <<>>
           /\ \/ /\ server_tank' = server_tank
                 /\ responses' = <<Refusal>>
              \/ /\ server_tank' = TankAfter(command_packet)
                 /\ responses' # <<Refusal>>
                 /\ \E d : ReplyTo(d) /\ responses' = <<d>>
<1>1. /\ waiting_answer /\ commands = <<>> /\ client_socket = <<>> /\ responses = <<>>
      /\ server_socket # <<>> /\ server_socket = <<Head(server_socket)>>
      /\ Travelling(Head(server_socket)) /\ plant_started
  BY DEF ServeCommand, ServerTurn, OnlyRefusals, AgreementInv, OneUnderWay, NoTraffic,
         CommandUnderWay, ReplyUnderWay
<1>2. PICK d : server_socket = <<d>> /\ Travelling(d)
  BY <1>1
<1>3. Received(server_socket) = d /\ LastSender(server_socket) = Client
  <2>1. d.peer = Client
    BY <1>2 DEF Travelling, Datagrams, Peers, OnlyRefusals
  <2> QED
    BY <1>2, <2>1, ShortSequences DEF Received, LastSender
<1>4. /\ server_tank' = TankAfter(ParseCommand(d))
      /\ responses' = <<FormatMessage(Client, Answer(ParseCommand(d)))>>
  BY <1>1, <1>3, ShortSequences DEF ServeCommand
<1>5. CASE d.form # "intact"
  <2>1. /\ TankAfter(ParseCommand(d)) = server_tank
        /\ FormatMessage(Client, Answer(ParseCommand(d))) = Refusal
    BY <1>5, SpoiltIsRefused DEF Refusal
  <2> QED
    BY <1>1, <1>4, <2>1
<1>6. CASE d = Sent
  <2>1. /\ command_packet \in [keyword : CommandKeywords, value : Int]
        /\ IsPacketValid(command_packet)
        /\ Acknowledges(Answer(command_packet))
    BY <1>1, AwaitedCommand DEF AgreementInv
  <2>2. ParseCommand(d) = command_packet
    BY <1>6, <2>1, CommandRoundTrip DEF Sent
  <2> DEFINE reply == FormatMessage(Client, Answer(command_packet))
  <2>3. ReplyTo(reply) /\ reply # Refusal
    BY <2>1, AcknowledgementIsRead DEF ReplyTo
  <2>4. responses' = <<reply>> /\ server_tank' = TankAfter(command_packet)
    BY <1>4, <2>2
  <2> HIDE DEF reply
  <2>5. responses' # <<Refusal>>
    BY <2>3, <2>4
  <2> QED
    BY <1>1, <2>3, <2>4, <2>5
<1> QED
  BY <1>2, <1>5, <1>6 DEF Travelling

LEMMA AgreementServeCommand ==
    ASSUME OnlyRefusals, AgreementInv, ServeCommand, UNCHANGED clientVars
    PROVE  AgreementInv'
<1> USE MaxValueAssumption, TankAssumption
<1>1. LimitsInv'
  BY LimitsUnchanged DEF AgreementInv
<1>2. /\ UNCHANGED <<update_state, waiting_answer, command_packet, tank_before, client_tank,
                     max_u, min_u>>
      /\ UNCHANGED <<commands, client_socket, plant_started>> /\ server_socket' = <<>>
  BY DEF ServeCommand, Drained, clientVars, protocolVars
<1>3. /\ waiting_answer /\ commands = <<>> /\ client_socket = <<>> /\ plant_started
      /\ server_socket # <<>>
      /\ \/ /\ server_tank' = server_tank
            /\ responses' = <<Refusal>>
         \/ /\ server_tank' = TankAfter(command_packet)
            /\ responses' # <<Refusal>>
            /\ \E d : ReplyTo(d) /\ responses' = <<d>>
  BY ServeOrRefuse
<1>4. PICK d : ReplyTo(d) /\ responses' = <<d>>
  BY <1>3 DEF ReplyTo
<1>5. ReplyTo(d)'
  BY <1>2, <1>4 DEF ReplyTo, Acknowledges, ExpectedPacket
<1>6. OneUnderWay'
  BY <1>2, <1>3, <1>4, <1>5, ShortSequences DEF OneUnderWay, ReplyUnderWay
<1>7. /\ ~Executed /\ Executed' /\ ~CarriedOut /\ Regulating' = Regulating
      /\ CarriedOut' <=> responses' # <<Refusal>>
  BY <1>2, <1>3 DEF Executed, CarriedOut, Regulating
<1>8. (update_state \in UpdateStates)' /\ CommandFitsState' /\ NothingGivenUp'
      /\ AcknowledgedByStartedPlant'
  BY <1>2, <1>3 DEF AgreementInv, CommandFitsState, NothingGivenUp, AcknowledgedByStartedPlant
<1>9. TankTypes' /\ StartAgrees' /\ ExactAccounting'
  <2>1. CASE server_tank' = server_tank /\ ~CarriedOut'
    BY <1>2, <1>7, <2>1 DEF AgreementInv, TankTypes, StartAgrees, ExactAccounting, Outstanding,
                            Unbooked, Commanded
  <2>2. CASE server_tank' = TankAfter(command_packet) /\ CarriedOut'
    <3>1. CASE update_state \in {"TESTING_COMM", "GETTING_LEVEL"}
      <4>1. command_packet.keyword \in {"COMM_TEST", "GET_LEVEL"}
        BY <1>3, <3>1 DEF AgreementInv, CommandFitsState, Packet
      <4>2. server_tank' = server_tank
        BY <2>2, <4>1 DEF TankAfter
      <4> QED
        BY <1>2, <1>7, <3>1, <4>2
           DEF AgreementInv, TankTypes, StartAgrees, ExactAccounting, Outstanding, Unbooked,
               Commanded
    <3>2. CASE update_state = "STARTING_TANK"
      <4>1. command_packet.keyword = "START"
        BY <1>3, <3>2 DEF AgreementInv, CommandFitsState, Packet
      <4>2. server_tank' = StartedTank
        BY <2>2, <4>1 DEF TankAfter
      <4>3. TankTypes' /\ Commanded' = INITIAL_INPUT
        BY <4>2 DEF TankTypes, StartedTank, Commanded, MIN_VALUE
      <4> QED
        BY <1>2, <3>2, <4>3 DEF AgreementInv, StartAgrees, ExactAccounting, Regulating
    <3>3. CASE update_state = "SETTING_INPUT_VALVE"
      <4>1. command_packet = SetValvePacketSetup(tank_before) /\ tank_before \in Int
        BY <1>3, <3>3 DEF AgreementInv, LimitsInv, LimitTypes, ValveCommandFits
      <4>2. server_tank' = [server_tank EXCEPT !.delta = server_tank.delta + tank_before]
        <5>1. CASE tank_before >= 0
          BY <2>2, <4>1, <5>1 DEF SetValvePacketSetup, TankAfter, Packet
        <5>2. CASE tank_before < 0
          <6>1. server_tank.delta - (-tank_before) = server_tank.delta + tank_before
            BY <4>1 DEF AgreementInv, TankTypes
          <6> QED
            BY <2>2, <4>1, <5>2, <6>1 DEF SetValvePacketSetup, TankAfter, Packet
        <5> QED
          BY <4>1, <5>1, <5>2
      <4>3. TankTypes' /\ Commanded' = Commanded + tank_before /\ Commanded \in Int
        BY <4>1, <4>2 DEF AgreementInv, TankTypes, Commanded
      <4>4. Unbooked = 0 /\ client_tank.input \in Int
        BY <1>7, <3>3 DEF AgreementInv, ExactAccounting, Regulating, Outstanding, LimitsInv,
                          LimitTypes
      <4>5. Unbooked' = tank_before
        BY <1>2, <4>1, <4>3, <4>4 DEF Unbooked
      <4> QED
        BY <1>2, <2>2, <3>3, <4>3, <4>5
           DEF StartAgrees, ExactAccounting, Outstanding, Regulating
    <3> QED
      BY <3>1, <3>2, <3>3 DEF AgreementInv, UpdateStates
  <2> QED
    BY <1>3, <1>7, <2>1, <2>2
<1> QED
  BY <1>1, <1>6, <1>8, <1>9 DEF AgreementInv

\* Steps that only move or spoil the datagram.
LEMMA AgreementOnTheWay ==
    ASSUME AgreementInv, OneUnderWay', Executed' = Executed, CarriedOut' = CarriedOut,
           UNCHANGED <<clientVars, server_tank, plant_started>>
    PROVE  AgreementInv'
<1>1. LimitsInv'
  BY LimitsUnchanged DEF AgreementInv
<1>2. UNCHANGED <<update_state, waiting_answer, command_packet, tank_before, client_tank,
                  max_u, min_u>>
  BY DEF clientVars, protocolVars
<1>3. (update_state \in UpdateStates)' /\ CommandFitsState' /\ TankTypes' /\ NothingGivenUp'
  BY <1>2 DEF AgreementInv, CommandFitsState, TankTypes, NothingGivenUp
<1>4. AcknowledgedByStartedPlant' /\ StartAgrees' /\ ExactAccounting'
  BY <1>2 DEF AgreementInv, AcknowledgedByStartedPlant, StartAgrees, ExactAccounting,
              Outstanding, Regulating, Unbooked, Commanded
<1> QED
  BY <1>1, <1>3, <1>4 DEF AgreementInv

LEMMA AgreementNetwork ==
    ASSUME OnlyRefusals, AgreementInv, NetworkStep
    PROVE  AgreementInv'
<1>1. /\ UNCHANGED <<clientVars, server_tank, plant_started, waiting_answer, command_packet>>
      /\ Sent' = Sent
  BY DEF NetworkStep, serverVars, clientVars, protocolVars, Sent
<1>2. /\ \A d : Travelling(d) => Travelling(d)'
      /\ \A d : ReplyTo(d) => ReplyTo(d)'
  BY <1>1 DEF Travelling, ReplyTo, Acknowledges, ExpectedPacket
<1>3. waiting_answer /\ (commands # <<>> \/ responses # <<>>)
      => \/ /\ commands = <<Head(commands)>> /\ Travelling(Head(commands))
            /\ server_socket = <<>> /\ responses = <<>> /\ client_socket = <<>>
         \/ /\ responses = <<Head(responses)>> /\ ReplyTo(Head(responses))
            /\ client_socket = <<>> /\ commands = <<>> /\ server_socket = <<>>
  BY DEF AgreementInv, OneUnderWay, CommandUnderWay, ReplyUnderWay
<1>4. ~waiting_answer => commands = <<>> /\ responses = <<>>
  BY DEF AgreementInv, OneUnderWay, NoTraffic
<1>5. CASE DeliverCommand
  <2>1. PICK i \in DOMAIN commands :
            /\ server_socket' = Append(server_socket, commands[i])
            /\ commands' = RemoveAt(commands, i)
            /\ UNCHANGED <<responses, client_socket>>
    BY <1>5 DEF DeliverCommand, Deliverable
  <2>2. PICK d : /\ commands = <<d>> /\ Travelling(d) /\ server_socket = <<>>
                 /\ responses = <<>> /\ client_socket = <<>> /\ waiting_answer
    BY <1>3, <1>4, <2>1
  <2>3. server_socket' = <<d>> /\ commands' = <<>>
    BY <2>1, <2>2, OneDatagram, ShortSequences
  <2>4. OneUnderWay' /\ Executed' = Executed /\ CarriedOut' = CarriedOut
    BY <1>1, <1>2, <2>1, <2>2, <2>3, ShortSequences
       DEF OneUnderWay, CommandUnderWay, Executed, CarriedOut
  <2> QED
    BY <1>1, <2>4, AgreementOnTheWay
<1>6. CASE GarbleCommand
  <2>1. PICK i \in DOMAIN commands :
            /\ \E e \in Garbled(commands[i]) : commands' = ReplaceAt(commands, i, e)
            /\ UNCHANGED <<server_socket, responses, client_socket>>
    BY <1>6 DEF GarbleCommand, CorruptCommand
  <2>2. PICK d : /\ commands = <<d>> /\ Travelling(d) /\ server_socket = <<>>
                 /\ responses = <<>> /\ client_socket = <<>> /\ waiting_answer
    BY <1>3, <1>4, <2>1
  <2>3. PICK e \in Garbled(d) : commands' = <<e>>
    BY <2>1, <2>2, OneDatagram
  <2>4. Travelling(e)
    <3>1. d \in Datagrams
      BY <2>2 DEF Travelling
    <3>2. e \in Datagrams
      BY <3>1, SpoiltDatagram
    <3>3. e.form # "intact"
      BY <3>1 DEF Garbled, Datagrams
    <3> QED
      BY <3>2, <3>3 DEF Travelling
  <2>5. OneUnderWay' /\ Executed' = Executed /\ CarriedOut' = CarriedOut
    BY <1>1, <1>2, <2>1, <2>2, <2>3, <2>4, ShortSequences
       DEF OneUnderWay, CommandUnderWay, Executed, CarriedOut
  <2> QED
    BY <1>1, <2>5, AgreementOnTheWay
<1>7. CASE DeliverResponse
  <2>1. PICK i \in DOMAIN responses :
            /\ client_socket' = IF responses[i].peer = Client
                                THEN Append(client_socket, responses[i])
                                ELSE client_socket
            /\ responses' = RemoveAt(responses, i)
            /\ UNCHANGED <<commands, server_socket>>
    BY <1>7 DEF DeliverResponse, Deliverable
  <2>2. PICK d : /\ responses = <<d>> /\ ReplyTo(d) /\ client_socket = <<>>
                 /\ commands = <<>> /\ server_socket = <<>> /\ waiting_answer
    BY <1>3, <1>4, <2>1
  <2>3. d.peer = Client
    BY <2>2 DEF ReplyTo, Refusal, FormatMessage
  <2>4. client_socket' = <<d>> /\ responses' = <<>>
    BY <2>1, <2>2, <2>3, OneDatagram, ShortSequences
  <2>5. OneUnderWay' /\ Executed' = Executed /\ CarriedOut' = CarriedOut
    BY <1>1, <1>2, <2>1, <2>2, <2>4, ShortSequences
       DEF OneUnderWay, ReplyUnderWay, Executed, CarriedOut
  <2> QED
    BY <1>1, <2>5, AgreementOnTheWay
<1>8. DeliverCommand \/ GarbleCommand \/ DeliverResponse
  BY DEF NetworkStep, NetworkNext, LoseCommand, AlterCommand, LoseResponse, GarbleResponse,
         AlterResponse, OnlyRefusals
<1> QED
  BY <1>5, <1>6, <1>7, <1>8

LEMMA AgreementNext ==
    ASSUME OnlyRefusals, AgreementInv, [Next]_vars
    PROVE  AgreementInv'
<1>1. CASE ClientStep
  BY <1>1, AgreementControl, AgreementSendCommand, AgreementTreatAnswer
     DEF ClientStep, ClientNext, OnlyRefusals
<1>2. CASE ServerStep
  <2>1. CASE ServerDrawGraph
    <3>1. /\ UNCHANGED <<networkVars, server_tank, plant_started, update_state, waiting_answer,
                         command_packet, tank_before, max_u, min_u, client_tank>>
          /\ UNCHANGED clientVars
      BY <1>2, <2>1 DEF ServerStep, ServerDrawGraph, clientVars, protocolVars
    <3> QED
      BY <3>1, LimitsUnchanged, AgreementAside DEF AgreementInv
  <2> QED
    BY <1>2, <2>1, AgreementPlantStart, AgreementTankTimeStep, AgreementServeCommand
       DEF ServerStep, ServerNext
<1>3. CASE NetworkStep
  BY <1>3, AgreementNetwork
<1>4. CASE OtherClientSends
  BY <1>4 DEF OtherClientSends, OnlyRefusals
<1>5. CASE UNCHANGED vars
  <2>1. /\ UNCHANGED <<networkVars, server_tank, plant_started, update_state, waiting_answer,
                       command_packet, tank_before, max_u, min_u, client_tank>>
        /\ UNCHANGED clientVars
    BY <1>5 DEF vars, serverVars, clientVars, protocolVars
  <2> QED
    BY <2>1, LimitsUnchanged, AgreementAside DEF AgreementInv
<1> QED
  BY <1>1, <1>2, <1>3, <1>4, <1>5 DEF Next

(* If commands are at worst spoilt and refused, and every reply arrives,   *)
(* the client's belief is exact between two commands and its limits stay   *)
(* where they were: a refused command is sent again and counted once       *)
(* (treat_answer in client/ip.c, command_action in server/ip.c).           *)
THEOREM AgreementIsExact ==
    ASSUME OnlyRefusals
    PROVE  Spec => []ExactAgreement
<1>1. Init => AgreementInv
  BY AgreementInit
<1>2. AgreementInv /\ [Next]_vars => AgreementInv'
  BY AgreementNext
<1>3. AgreementInv => ExactAgreement
  <2> SUFFICES ASSUME AgreementInv, Settled
               PROVE  Unbooked = 0 /\ max_u = MAX_VALUE /\ min_u = 0
    BY DEF ExactAgreement
  <2>1. Outstanding = 0 /\ Regulating
    BY DEF Settled, Outstanding, CarriedOut, Executed, Regulating
  <2> QED
    BY <2>1 DEF AgreementInv, ExactAccounting, NothingGivenUp
<1> QED
  BY <1>1, <1>2, <1>3, PTL DEF Spec

-----------------------------------------------------------------------------
(* The valve under refusals.                                               *)

RefusedRangeInv == AgreementInv /\ ValveWithinRange

(* A command that is carried out restarts the plant, or moves what the     *)
(* client believes, which is then where the server is, within the limits.  *)
LEMMA RefusedServeEffect ==
    ASSUME OnlyRefusals, AgreementInv, ServeCommand
    PROVE  \/ server_tank' = server_tank
           \/ server_tank' = StartedTank
           \/ /\ server_tank'.input = server_tank.input
              /\ Commanded' = Commanded + tank_before
              /\ tank_before \in -MAX_DELTA .. MAX_DELTA
              /\ Commanded' \in 0 .. MAX_VALUE
<1> USE MaxValueAssumption, ClientAssumption
<1>1. /\ waiting_answer /\ server_socket # <<>>
      /\ server_tank' = server_tank \/ server_tank' = TankAfter(command_packet)
  BY ServeOrRefuse
<1>2. CASE update_state \in {"TESTING_COMM", "GETTING_LEVEL"}
  <2>1. command_packet.keyword \in {"COMM_TEST", "GET_LEVEL"}
    BY <1>1, <1>2 DEF AgreementInv, CommandFitsState, Packet
  <2> QED
    BY <1>1, <2>1 DEF TankAfter
<1>3. CASE update_state = "STARTING_TANK"
  <2>1. command_packet.keyword = "START"
    BY <1>1, <1>3 DEF AgreementInv, CommandFitsState, Packet
  <2> QED
    BY <1>1, <2>1 DEF TankAfter
<1>4. CASE update_state = "SETTING_INPUT_VALVE" /\ server_tank' = TankAfter(command_packet)
  <2>1. /\ command_packet = SetValvePacketSetup(tank_before)
        /\ client_tank.input + tank_before \in min_u .. max_u
        /\ tank_before \in -MAX_DELTA .. MAX_DELTA /\ tank_before \in Int
    BY <1>1, <1>4 DEF AgreementInv, LimitsInv, LimitTypes, ValveCommandFits
  <2>2. server_tank' = [server_tank EXCEPT !.delta = server_tank.delta + tank_before]
    <3>1. CASE tank_before >= 0
      BY <1>4, <2>1, <3>1 DEF SetValvePacketSetup, TankAfter, Packet
    <3>2. CASE tank_before < 0
      <4>1. server_tank.delta - (-tank_before) = server_tank.delta + tank_before
        BY <2>1 DEF AgreementInv, TankTypes
      <4> QED
        BY <1>4, <2>1, <3>2, <4>1 DEF SetValvePacketSetup, TankAfter, Packet
    <3> QED
      BY <2>1, <3>1, <3>2
  <2>3. server_tank'.input = server_tank.input /\ Commanded' = Commanded + tank_before
    BY <2>1, <2>2 DEF AgreementInv, TankTypes, Commanded
  <2>4. Commanded = client_tank.input
    <3>1. Unbooked = 0
      BY <1>1, <1>4 DEF AgreementInv, ExactAccounting, Regulating, Outstanding, CarriedOut,
                        Executed
    <3> QED
      BY <3>1 DEF Unbooked, Commanded, AgreementInv, TankTypes, LimitsInv, LimitTypes
  <2> QED
    BY <2>1, <2>3, <2>4 DEF AgreementInv, NothingGivenUp
<1> QED
  BY <1>1, <1>2, <1>3, <1>4 DEF AgreementInv, UpdateStates

LEMMA RefusedServerSteps ==
    ASSUME [Next]_vars
    PROVE  UNCHANGED server_tank \/ PlantStart \/ TankTimeStep \/ ServeCommand
BY DEF Next, vars, serverVars, ClientStep, ServerStep, ServerNext, ServerDrawGraph,
       NetworkStep, OtherClientSends

LEMMA RefusedRangeInit ==
    ASSUME Init
    PROVE  RefusedRangeInv
<1> USE MaxValueAssumption, TankAssumption
<1>1. CASE server_tank = [input |-> 0, level |-> 0, delta |-> 0, max |-> 0]
  BY <1>1, AgreementInit DEF RefusedRangeInv, ValveWithinRange, Commanded, MIN_VALUE
<1>2. ASSUME NEW input \in MIN_VALUE .. MAX_VALUE, NEW target \in MIN_VALUE .. MAX_VALUE,
             server_tank = [StartedTank EXCEPT !.input = input, !.delta = target - input]
      PROVE  RefusedRangeInv
  <2>1. server_tank = [input |-> input, level |-> INITIAL_LEVEL,
                       delta |-> target - input, max |-> MAX_VALUE]
    BY <1>2 DEF StartedTank
  <2> QED
    BY <2>1, AgreementInit DEF RefusedRangeInv, ValveWithinRange, Commanded, MIN_VALUE
<1> QED
  BY <1>1, <1>2 DEF Init, ServerInit

LEMMA RefusedRangeNext ==
    ASSUME OnlyRefusals, RefusedRangeInv, [Next]_vars
    PROVE  RefusedRangeInv'
<1> USE MaxValueAssumption, TankAssumption
<1>1. AgreementInv'
  BY AgreementNext DEF RefusedRangeInv
<1>2. CASE UNCHANGED server_tank
  BY <1>1, <1>2 DEF RefusedRangeInv, ValveWithinRange, Commanded
<1>3. CASE server_tank' = StartedTank
  BY <1>1, <1>3 DEF RefusedRangeInv, StartedTank, ValveWithinRange, Commanded, MIN_VALUE
<1>4. CASE TankTimeStep
  BY <1>1, <1>4, PlantMoves DEF RefusedRangeInv, AgreementInv, TankTypes, ValveWithinRange
<1>5. CASE ServeCommand
  BY <1>1, <1>2, <1>3, <1>5, RefusedServeEffect DEF RefusedRangeInv, ValveWithinRange
<1> QED
  BY <1>2, <1>3, <1>4, <1>5, RefusedServerSteps DEF PlantStart

(* Spoilt commands do not take the valve out of range either: what the     *)
(* server refuses it does not carry out, and what it carries out fits the  *)
(* client's limits, the belief being exact (command_action,                *)
(* set_max_min_opening).                                                   *)
THEOREM RefusalsKeepValveInRange ==
    ASSUME OnlyRefusals
    PROVE  Spec => []ValveWithinRange
<1>1. Init => RefusedRangeInv
  BY RefusedRangeInit
<1>2. RefusedRangeInv /\ [Next]_vars => RefusedRangeInv'
  BY RefusedRangeNext
<1>3. RefusedRangeInv => ValveWithinRange
  BY DEF RefusedRangeInv
<1> QED
  BY <1>1, <1>2, <1>3, PTL DEF Spec

LEMMA RefusedValveStep ==
    ASSUME OnlyRefusals, RefusedRangeInv, [Next]_vars
    PROVE  [AbstractValve!Next]_<<server_tank.input, Commanded>>
<1> USE ClientAssumption, TankAssumption, MaxValueAssumption
<1> USE DEF AbstractValve!Next, AbstractValve!Retarget, AbstractValve!Restart,
            AbstractValve!Move, AbstractValve!Openings
<1>1. CASE UNCHANGED server_tank
  BY <1>1 DEF Commanded
<1>2. CASE server_tank' = StartedTank
  BY <1>2 DEF StartedTank, Commanded, MIN_VALUE
<1>3. CASE TankTimeStep
  BY <1>3, PlantMoves DEF RefusedRangeInv, AgreementInv
<1>4. CASE ServeCommand
  <2>1. ASSUME server_tank'.input = server_tank.input,
               Commanded' = Commanded + tank_before,
               tank_before \in -MAX_DELTA .. MAX_DELTA,
               Commanded' \in 0 .. MAX_VALUE
        PROVE  AbstractValve!Retarget
    BY <2>1 DEF RefusedRangeInv, ValveWithinRange
  <2> QED
    BY <1>1, <1>2, <1>4, <2>1, RefusedServeEffect DEF RefusedRangeInv
<1> QED
  BY <1>1, <1>2, <1>3, <1>4, RefusedServerSteps DEF PlantStart

(* Under refusals, too, the protocol moves the valve as the abstract       *)
(* machine of Valve does: a command that is sent again after it was        *)
(* refused moves the valve once (command_action, update_input_angle).      *)
THEOREM RefusalsImplementValve ==
    ASSUME OnlyRefusals
    PROVE  Spec => ImplementsValve
<1>1. Init => RefusedRangeInv
  BY RefusedRangeInit
<1>2. RefusedRangeInv /\ [Next]_vars => RefusedRangeInv'
  BY RefusedRangeNext
<1>3. RefusedRangeInv => AbstractValve!Init
  BY DEF RefusedRangeInv, ValveWithinRange, AbstractValve!Init, AbstractValve!Openings
<1>4. RefusedRangeInv /\ [Next]_vars => [AbstractValve!Next]_<<server_tank.input, Commanded>>
  BY RefusedValveStep
<1>5. <<server_tank.input, Commanded>> = AbstractValve!valveVars
  BY DEF AbstractValve!valveVars
<1> QED
  BY <1>1, <1>2, <1>3, <1>4, <1>5, PTL
     DEF Spec, ImplementsValve, AbstractValve!Spec, AbstractValve!valveVars

=============================================================================
