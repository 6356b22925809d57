----------------------------- MODULE FlagProofs -----------------------------
(***************************************************************************)
(* The flag that remembers a valve reply with the wrong value outlives the *)
(* call of treat_answer that sets it only from the handshake, and is spent *)
(* by the first change given up, whatever the network, its faults and the  *)
(* other clients do.                                                       *)
(***************************************************************************)
EXTENDS TypeProofs

(* The flag can be set in the two states before the first valve command,   *)
(* where nothing has been given up; in GETTING_LEVEL any value counts as   *)
(* expected; SETTING_INPUT_VALVE clears it with every change it gives up.  *)
Early == update_state \in {"TESTING_COMM", "STARTING_TANK"}

NothingGivenUp == max_u = MAX_VALUE /\ min_u = 0

FlagInv == TypeInv /\ WrongValueFlagSpentOnce /\ (Early => NothingGivenUp)

-----------------------------------------------------------------------------

LEMMA FlagInit == Init => FlagInv
BY TypeInit DEF Init, ClientInit, FlagInv, WrongValueFlagSpentOnce, NothingGivenUp

\* Once the tank is started, only SETTING_INPUT_VALVE can set the flag.
LEMMA AnyLevelIsExpected ==
    ASSUME FlagInv, waiting_answer, update_state = "GETTING_LEVEL", NEW response
    PROVE  ~WrongValveOpening(response)
<1>1. command_packet = Packet("GET_LEVEL", NO_VALUE)
  BY DEF FlagInv, TypeInv, CommandFitsState
<1>2. ExpectedPacket(response).value = response.value
  BY <1>1 DEF ExpectedPacket, Packet
<1> QED
  BY <1>2 DEF WrongValveOpening

LEMMA FlagTreatAnswer ==
    ASSUME FlagInv, ReceiveAnswer \/ AnswerTimeout, TypeInv'
    PROVE  FlagInv'
<1>1. waiting_answer /\ \E datagram : TreatAnswer(datagram)
  BY DEF ReceiveAnswer, AnswerTimeout
<1>2. PICK datagram : TreatAnswer(datagram)
  BY <1>1
<1> DEFINE response == ParseResponse(datagram)
           wrongOpening == \/ received_valve_opening_with_wrong_value
                           \/ WrongValveOpening(response)
<1>3. Early' => Early
  BY <1>2 DEF TreatAnswer, AnswerOK, AssumeOK, MaybeReceived, InputValveSet, Early
<1>4. CASE UNCHANGED <<received_valve_opening_with_wrong_value, max_u, min_u>>
  BY <1>3, <1>4 DEF FlagInv, WrongValueFlagSpentOnce, NothingGivenUp
<1>5. CASE MaybeReceived(wrongOpening)
  <2>1. CASE update_state = "SETTING_INPUT_VALVE"
    <3>1. received_valve_opening_with_wrong_value' = FALSE /\ ~Early'
      BY <1>3, <1>5, <2>1 DEF MaybeReceived, Early
    <3> QED
      BY <3>1 DEF FlagInv, WrongValueFlagSpentOnce
  <2>2. CASE Early
    BY <1>5, <2>2 DEF MaybeReceived, Early, FlagInv, WrongValueFlagSpentOnce, NothingGivenUp
  <2>3. CASE update_state = "GETTING_LEVEL"
    <3>1. ~WrongValveOpening(response)
      BY <1>1, <2>3, AnyLevelIsExpected
    <3>2. /\ received_valve_opening_with_wrong_value' = wrongOpening
          /\ UNCHANGED <<max_u, min_u, update_state>>
      BY <1>5, <2>3 DEF MaybeReceived
    <3> QED
      BY <2>3, <3>1, <3>2 DEF FlagInv, WrongValueFlagSpentOnce, Early
  <2> QED
    BY <2>1, <2>2, <2>3 DEF FlagInv, TypeInv, TypeOK, ClientTypeOK, UpdateStates, Early
<1> QED
  BY <1>2, <1>4, <1>5 DEF TreatAnswer

LEMMA FlagUntouched ==
    ASSUME FlagInv, TypeInv',
           UNCHANGED <<update_state, received_valve_opening_with_wrong_value, max_u, min_u>>
    PROVE  FlagInv'
BY DEF FlagInv, WrongValueFlagSpentOnce, NothingGivenUp, Early

LEMMA FlagNext ==
    ASSUME FlagInv, [Next]_vars
    PROVE  FlagInv'
<1>1. TypeInv'
  BY TypeNext DEF FlagInv
<1>2. CASE ClientStep
  <2>1. CASE ControlStart \/ UpdateController \/ ClientDrawGraph \/ SendCommand
    BY <1>1, <2>1, FlagUntouched
       DEF ControlStart, UpdateController, ClientDrawGraph, SendCommand, protocolVars
  <2> QED
    BY <1>1, <1>2, <2>1, FlagTreatAnswer DEF ClientStep, ClientNext
<1>3. CASE ServerStep \/ NetworkStep \/ OtherClientSends \/ UNCHANGED vars
  BY <1>1, <1>3, FlagUntouched
     DEF ServerStep, NetworkStep, OtherClientSends, vars, clientVars, protocolVars
<1> QED
  BY <1>2, <1>3 DEF Next

(* A reply is judged by the value of an earlier one at most once, and then *)
(* before anything was given up: for every network and every fault, late,  *)
(* reordered and corrupted replies included, and whatever other clients    *)
(* command the same server (treat_answer in client/ip.c).                  *)
THEOREM WrongValueFlagIsSpentOnce == Spec => []WrongValueFlagSpentOnce
<1>1. Init => FlagInv
  BY FlagInit
<1>2. FlagInv /\ [Next]_vars => FlagInv'
  BY FlagNext
<1>3. FlagInv => WrongValueFlagSpentOnce
  BY DEF FlagInv
<1> QED
  BY <1>1, <1>2, <1>3, PTL DEF Spec

=============================================================================
