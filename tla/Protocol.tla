------------------------------ MODULE Protocol ------------------------------
(***************************************************************************)
(* The message format shared by the client and the server (comm.h,         *)
(* comm_protocol.c) and the similarity test the client applies to replies  *)
(* it cannot parse (comm_corruption.c).                                    *)
(*                                                                         *)
(* A packet is the parsed form: a keyword and a value.  A datagram is the  *)
(* text that travels: "word#complement!", with the peer it comes from or   *)
(* goes to.  Characters are abstracted to what the code can tell apart:    *)
(* the word, the complement, and whether the text is                       *)
(*   - "intact": it has the form word#complement! or word!;                *)
(*   - "near": it no longer parses, but its distance to a reply with this  *)
(*     word is within CORRUPTION_TOLERANCE;                                *)
(*   - "far": it no longer parses and resembles nothing (its word is "").   *)
(***************************************************************************)
EXTENDS Integers

CONSTANT MAX_VALUE      \* the largest opening, 100 in comm.h

ASSUME MaxValueAssumption == MAX_VALUE \in Nat \ {0}

MIN_VALUE == 0
NO_VALUE == -1
OK_VALUE == -2
INVALID_VALUE == -3

CommandKeywords ==
    {"OPEN_VALVE", "CLOSE_VALVE", "GET_LEVEL", "COMM_TEST", "SET_MAX", "START"}

\* The keyword a reply to each command carries.
ResponseTo ==
    [OPEN_VALVE |-> "OPEN_VALVE_RESPONSE", CLOSE_VALVE |-> "CLOSE_VALVE_RESPONSE",
     GET_LEVEL  |-> "GET_LEVEL_RESPONSE",  COMM_TEST   |-> "COMM_TEST_RESPONSE",
     SET_MAX    |-> "SET_MAX_RESPONSE",    START       |-> "START_RESPONSE"]

ResponseKeywords ==
    {"OPEN_VALVE_RESPONSE", "CLOSE_VALVE_RESPONSE", "GET_LEVEL_RESPONSE",
     "COMM_TEST_RESPONSE", "SET_MAX_RESPONSE", "START_RESPONSE", "ERROR_RESPONSE"}

Keywords == CommandKeywords \cup ResponseKeywords \cup {"ERROR"}

Packet(keyword, value) == [keyword |-> keyword, value |-> value]

ErrorPacket == Packet("ERROR", INVALID_VALUE)

(* The word each keyword is written as: START and START_RESPONSE share one. *)
GetKeywordStr ==
    [OPEN_VALVE  |-> "OpenValve",  OPEN_VALVE_RESPONSE  |-> "Open",
     CLOSE_VALVE |-> "CloseValve", CLOSE_VALVE_RESPONSE |-> "Close",
     GET_LEVEL   |-> "GetLevel",   GET_LEVEL_RESPONSE   |-> "Level",
     COMM_TEST   |-> "CommTest",   COMM_TEST_RESPONSE   |-> "Comm",
     SET_MAX     |-> "SetMax",     SET_MAX_RESPONSE     |-> "Max",
     START       |-> "Start",      START_RESPONSE       |-> "Start",
     ERROR       |-> "Err",        ERROR_RESPONSE       |-> "Err"]

Words == {GetKeywordStr[k] : k \in Keywords}

ResponseWords == {GetKeywordStr[k] : k \in ResponseKeywords}

Complements == [kind : {"number", "ok", "none", "text"}, number : Int]

(* What format_message writes after the word, and what get_value reads     *)
(* back: text that is not a number is read as 0.                           *)
Complement(value) ==
    CASE value = OK_VALUE -> [kind |-> "ok", number |-> 0]
      [] value = NO_VALUE -> [kind |-> "none", number |-> 0]
      [] OTHER            -> [kind |-> "number", number |-> value]

Unreadable == [kind |-> "text", number |-> 0]

GetValue(complement) ==
    CASE complement.kind = "number" ->
            IF complement.number < 0 THEN INVALID_VALUE ELSE complement.number
      [] complement.kind = "ok"     -> OK_VALUE
      [] complement.kind = "none"   -> NO_VALUE
      [] OTHER                      -> 0

FormatMessage(peer, packet) ==
    [peer       |-> peer,
     word       |-> GetKeywordStr[packet.keyword],
     complement |-> Complement(packet.value),
     form       |-> "intact"]

\* Mutant: the range of the value is not checked.
IsPacketValidUnbounded(packet) ==
    \/ /\ packet.keyword \in {"OPEN_VALVE", "OPEN_VALVE_RESPONSE", "CLOSE_VALVE",
                              "CLOSE_VALVE_RESPONSE", "GET_LEVEL_RESPONSE",
                              "SET_MAX", "SET_MAX_RESPONSE"}
       /\ packet.value >= MIN_VALUE
    \/ /\ packet.keyword \in {"GET_LEVEL", "COMM_TEST", "START", "ERROR_RESPONSE"}
       /\ packet.value = NO_VALUE
    \/ /\ packet.keyword \in {"COMM_TEST_RESPONSE", "START_RESPONSE"}
       /\ packet.value = OK_VALUE

\* Mutant: the case of the error reply is forgotten.
IsPacketValidNoErrorReply(packet) ==
    \/ /\ packet.keyword \in {"OPEN_VALVE", "OPEN_VALVE_RESPONSE", "CLOSE_VALVE",
                              "CLOSE_VALVE_RESPONSE", "GET_LEVEL_RESPONSE",
                              "SET_MAX", "SET_MAX_RESPONSE"}
       /\ packet.value \in MIN_VALUE .. MAX_VALUE
    \/ /\ packet.keyword \in {"GET_LEVEL", "COMM_TEST", "START"}
       /\ packet.value = NO_VALUE
    \/ /\ packet.keyword \in {"COMM_TEST_RESPONSE", "START_RESPONSE"}
       /\ packet.value = OK_VALUE

IsPacketValid(packet) ==
    \/ /\ packet.keyword \in {"OPEN_VALVE", "OPEN_VALVE_RESPONSE", "CLOSE_VALVE",
                              "CLOSE_VALVE_RESPONSE", "GET_LEVEL_RESPONSE",
                              "SET_MAX", "SET_MAX_RESPONSE"}
       /\ packet.value \in MIN_VALUE .. MAX_VALUE
    \/ /\ packet.keyword \in {"GET_LEVEL", "COMM_TEST", "START", "ERROR_RESPONSE"}
       /\ packet.value = NO_VALUE
    \/ /\ packet.keyword \in {"COMM_TEST_RESPONSE", "START_RESPONSE"}
       /\ packet.value = OK_VALUE

(* Reading a text against one of the two keyword tables: a text that is no *)
(* longer intact, an unknown word or an unfit value give the error packet. *)
ParseWith(keywords, datagram) ==
    LET named  == {k \in keywords : GetKeywordStr[k] = datagram.word}
        parsed == {p \in {Packet(k, GetValue(datagram.complement)) : k \in named} :
                      IsPacketValid(p)}
    IN  IF datagram.form = "intact" /\ parsed # {}
        THEN CHOOSE p \in parsed : TRUE
        ELSE ErrorPacket

ParseCommand(datagram)  == ParseWith(CommandKeywords, datagram)
ParseResponse(datagram) == ParseWith(ResponseKeywords, datagram)

(* The empty buffer receive_message leaves when there is nothing to read.  *)
NoDatagram ==
    [peer |-> "none", word |-> "", complement |-> Unreadable, form |-> "far"]

HasReceivedDatagram(datagram) == datagram # NoDatagram

(* is_packet_similar: min() in comm_corruption.c returns the largest of its *)
(* arguments, so two texts are within the tolerance only when they agree up *)
(* to their last characters, that is when the word is the expected one.     *)
IsPacketSimilar(datagram, expected) ==
    /\ datagram.form # "far"
    /\ datagram.word = GetKeywordStr[expected.keyword]

-----------------------------------------------------------------------------
(* What the relay makes of a datagram it corrupts.  corrupt_bytes replaces *)
(* any number of the characters by letters and digits: it can take the     *)
(* separators # and ! away, and it can put none in.                        *)

WordLength ==
    [OpenValve |-> 9, CloseValve |-> 10, GetLevel |-> 8, CommTest |-> 8, SetMax |-> 6,
     Open |-> 4, Close |-> 5, Level |-> 5, Comm |-> 4, Max |-> 3, Start |-> 5, Err |-> 3]

(* Most often the text no longer parses.  What is left of it may resemble  *)
(* any reply, whatever it was, or none.                                    *)
Garbled(datagram) ==
    {[datagram EXCEPT !.form = "near", !.complement = Unreadable, !.word = word] :
         word \in ResponseWords}
    \cup {[datagram EXCEPT !.form = "far", !.complement = Unreadable, !.word = ""]}

(* The text can become that of another packet.  The word that is read has  *)
(* as many characters as before, and a complement only if it had one, a    *)
(* number (0 for letters) or OK; or, with the # gone, the complement has   *)
(* become a part of the word, which has that many characters more.         *)
Respelt(datagram, packet) ==
    LET more     == WordLength[GetKeywordStr[packet.keyword]] - WordLength[datagram.word]
        followed == datagram.complement.kind # "none"
    IN  \/ more = 0 /\ (packet.value # NO_VALUE <=> followed)
        \/ more \in 2 .. 4 /\ packet.value = NO_VALUE /\ followed

\* Values in range, one beyond it, and OK.
OtherPackets ==
    [keyword : Keywords, value : MIN_VALUE .. MAX_VALUE + 1 \cup {OK_VALUE, NO_VALUE}]

Altered(datagram) ==
    IF datagram.form = "intact"
    THEN {FormatMessage(datagram.peer, packet) :
              packet \in {p \in OtherPackets : Respelt(datagram, p)}}
    ELSE {}

=============================================================================
