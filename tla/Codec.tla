-------------------------------- MODULE Codec --------------------------------
(***************************************************************************)
(* The texts behind the datagrams of Protocol, character by character: how *)
(* a packet is written into the buffer that is sent (format_message,       *)
(* send_message), what the relay may make of that buffer, how it is read   *)
(* (receive_message, get_keyword_value, get_value) and how far it is from  *)
(* another one (comm_corruption.c).  It shows that Protocol tells as much  *)
(* of a text as the programs do.                                           *)
(***************************************************************************)
EXTENDS Protocol, Sequences, SequencesExt

CONSTANTS
    Values,         \* bound: the openings and levels that are sent
    Characters,     \* bound: what the relay puts in the place of a character
    Replacements    \* bound: which bytes it replaces, and by what

BUFFER_LENGTH == 16

(* Openings have VALUE_MAX_LENGTH digits.  The relay writes letters and    *)
(* digits; it replaces as many of the bytes as its draws have it.          *)
ASSUME CodecAssumption ==
    /\ MAX_VALUE < 1000
    /\ Values \subseteq MIN_VALUE .. MAX_VALUE
    /\ Characters \cap {"#", "!", "-", ""} = {}
    /\ \A replaced \in Replacements :
          \A i \in DOMAIN replaced : i \in 1 .. BUFFER_LENGTH /\ replaced[i] \in Characters

VARIABLES
    packet,     \* the packet that was sent
    buffer,     \* the bytes of the datagram
    corrupted   \* whether the relay has corrupted it

codecVars == <<packet, buffer, corrupted>>

KEYWORD_MAX_LENGTH == 10
VALUE_MAX_LENGTH == 3
CORRUPTION_TOLERANCE == 4

NUL == ""

Letters ==
    [OpenValve  |-> <<"O", "p", "e", "n", "V", "a", "l", "v", "e">>,
     CloseValve |-> <<"C", "l", "o", "s", "e", "V", "a", "l", "v", "e">>,
     GetLevel   |-> <<"G", "e", "t", "L", "e", "v", "e", "l">>,
     CommTest   |-> <<"C", "o", "m", "m", "T", "e", "s", "t">>,
     SetMax     |-> <<"S", "e", "t", "M", "a", "x">>,
     Open       |-> <<"O", "p", "e", "n">>,
     Close      |-> <<"C", "l", "o", "s", "e">>,
     Level      |-> <<"L", "e", "v", "e", "l">>,
     Comm       |-> <<"C", "o", "m", "m">>,
     Max        |-> <<"M", "a", "x">>,
     Start      |-> <<"S", "t", "a", "r", "t">>,
     Err        |-> <<"E", "r", "r">>]

DigitCharacters == <<"0", "1", "2", "3", "4", "5", "6", "7", "8", "9">>

\* As many as VALUE_MAX_LENGTH of them, without leading zeros.
Digits(number) ==
    LET digit(unit) == <<DigitCharacters[((number \div unit) % 10) + 1]>>
    IN  (IF number >= 100 THEN digit(100) ELSE <<>>)
        \o (IF number >= 10 THEN digit(10) ELSE <<>>)
        \o digit(1)

-----------------------------------------------------------------------------
(* Writing. *)

AtMost(n, text) == IF Len(text) <= n THEN text ELSE SubSeq(text, 1, n)

\* Mutant: a buffer as long as the longest text, without its end.
WrittenShort(text) == AtMost(BUFFER_LENGTH - 2, text)

\* snprintf writes at most BUFFER_LENGTH - 1 characters and ends the string.
Written(text) == AtMost(BUFFER_LENGTH - 1, text)

ComplementText(value) ==
    IF value = OK_VALUE THEN <<"#", "O", "K">>
    ELSE IF value = NO_VALUE THEN <<>>
    ELSE <<"#">> \o (IF value < 0 THEN <<"-">> \o Digits(-value) ELSE Digits(value))

FormatText(p) ==
    Written(Letters[GetKeywordStr[p.keyword]] \o ComplementText(p.value) \o <<"!">>)

\* send_message: the rest of the buffer is cleared, and sent too.
SentBuffer(text) ==
    [i \in 1 .. BUFFER_LENGTH |-> IF i <= Len(text) THEN text[i] ELSE NUL]

-----------------------------------------------------------------------------
(* Reading. *)

\* How many characters there are before the first one in stops.
LengthBefore(stops, text) ==
    CHOOSE n \in 0 .. Len(text) :
        /\ n = Len(text) \/ text[n + 1] \in stops
        /\ \A i \in 1 .. n : text[i] \notin stops

\* receive_message ends the string where the bytes do.
ReceivedText(bytes) == SubSeq(bytes, 1, LengthBefore({NUL}, bytes))

\* sscanf with "%<max>[^<stop>]".
Scan(text, max, stop) ==
    AtMost(max, SubSeq(text, 1, LengthBefore({stop}, text)))

NothingRead == [word |-> <<>>, value |-> <<>>]

(* get_keyword_value.  A token after the last conversion that was asked    *)
(* for need not be there, as long as the text has one somewhere.           *)
GetKeywordValue(text) ==
    LET keyword == Scan(text, KEYWORD_MAX_LENGTH, IF Contains(text, "#") THEN "#" ELSE "!")
        after   == SubSeq(text, Len(keyword) + 1, Len(text))
        value   == Scan(Tail(after), VALUE_MAX_LENGTH, "!")
    IN  IF ~Contains(text, "!") \/ keyword = <<>> THEN NothingRead
        ELSE IF ~Contains(text, "#") THEN [word |-> keyword, value |-> <<>>]
        ELSE IF Head(after) = "#" /\ value # <<>> THEN [word |-> keyword, value |-> value]
        ELSE NothingRead

\* atoi, of a text without a sign: no character the relay writes is one.
Atoi(text) ==
    LET digit(c) == CHOOSE d \in 0 .. 9 : DigitCharacters[d + 1] = c
        length   == LengthBefore({c \in ToSet(text) : ~Contains(DigitCharacters, c)}, text)
        number[n \in 0 .. length] ==
            IF n = 0 THEN 0 ELSE 10 * number[n - 1] + digit(text[n])
    IN  number[length]

GetTextValue(text) ==
    CASE text = <<"O", "K">> -> OK_VALUE
      [] text = <<>>         -> NO_VALUE
      [] OTHER               -> Atoi(text)

ParseText(keywords, text) ==
    LET read   == GetKeywordValue(text)
        named  == {k \in keywords : Letters[GetKeywordStr[k]] = read.word}
        parsed == {p \in {Packet(k, GetTextValue(read.value)) : k \in named} :
                      IsPacketValid(p)}
    IN  IF parsed # {} THEN CHOOSE p \in parsed : TRUE ELSE ErrorPacket

-----------------------------------------------------------------------------
(* Resemblance. *)

\* Mutant: the smallest of the three.
SmallestOf(a, b, c) ==
    IF a <= b /\ a <= c THEN a ELSE IF b <= c THEN b ELSE c

\* The function min of comm_corruption.c.
min(a, b, c) ==
    IF a < b THEN IF b < c THEN c ELSE b
             ELSE IF a < c THEN c ELSE a

(* levenshtein_distance.  The recursion of the code is over the ends of    *)
(* both strings; the l + 1st entry of a row is the distance of one end of  *)
(* str_1 from the last l characters of str_2.  The next row is for the end *)
(* that has one more character, c, in front.                               *)
NextRow(c, str_2, row) ==
    LET cells[l \in 0 .. Len(str_2)] ==
            IF l = 0
            THEN <<row[1] + 1>>
            ELSE LET shorter == cells[l - 1]
                 IN  Append(shorter, IF c = str_2[Len(str_2) + 1 - l]
                                     THEN row[l]
                                     ELSE min(row[l + 1], shorter[l], row[l]))
    IN  cells[Len(str_2)]

LevenshteinDistance(str_1, str_2) ==
    LET rows[k \in 0 .. Len(str_1)] ==
            IF k = 0
            THEN [j \in 1 .. Len(str_2) + 1 |-> j - 1]
            ELSE NextRow(str_1[Len(str_1) + 1 - k], str_2, rows[k - 1])
    IN  rows[Len(str_1)][Len(str_2) + 1]

IsTextSimilar(text, expected) ==
    LevenshteinDistance(text, FormatText(expected)) <= CORRUPTION_TOLERANCE

-----------------------------------------------------------------------------
(* A packet on its way. *)

\* What the programs send: valid packets, for some of the values.
SentPackets ==
    {p \in [keyword : Keywords, value : Values \cup {NO_VALUE, OK_VALUE}] : IsPacketValid(p)}

Init ==
    /\ packet \in SentPackets
    /\ buffer = SentBuffer(FormatText(packet))
    /\ corrupted = FALSE

\* corrupt_bytes of the relay, which a datagram goes through at most once.
CorruptBytes ==
    /\ ~corrupted
    /\ \E replaced \in Replacements :
           buffer' = [i \in 1 .. BUFFER_LENGTH |->
                         IF i \in DOMAIN replaced THEN replaced[i] ELSE buffer[i]]
    /\ corrupted' = TRUE
    /\ UNCHANGED packet

Next == CorruptBytes

Spec == Init /\ [][Next]_codecVars

-----------------------------------------------------------------------------

\* The table the receiver of the packet looks it up in.
ReceiverKeywords ==
    IF packet.keyword \in CommandKeywords THEN CommandKeywords ELSE ResponseKeywords

Parsed == ParseText(ReceiverKeywords, ReceivedText(buffer))

(* A packet that reaches the other program as it was sent is read back as  *)
(* itself, in the buffer's 16 bytes, whatever its keyword and value        *)
(* (format_message, send_message, receive_message, parse_command,          *)
(* parse_response).                                                        *)
RoundTrip == ~corrupted => Parsed = packet

\* What check_valid_response may expect after the commands the client sends.
ExpectedPackets ==
    {p \in SentPackets : p.keyword \in {"OPEN_VALVE_RESPONSE", "CLOSE_VALVE_RESPONSE",
                                        "COMM_TEST_RESPONSE", "START_RESPONSE"}}
    \cup {Packet("GET_LEVEL_RESPONSE", Parsed.value)}

(* Whatever the relay makes of a text, however many of its bytes it        *)
(* replaces, the programs take it for what they would take one of the      *)
(* datagrams of Protocol for: the one that was sent, or, once it is        *)
(* corrupted, one that is garbled or altered                               *)
(* (get_keyword_value, get_value, is_packet_valid, levenshtein_distance).  *)
(* They take both for the same if both are parsed as the same packet and,  *)
(* where the client looks for a resemblance, both or neither have one.     *)
CorruptionCovered ==
    LET sent   == FormatMessage("peer", packet)
        parsed == Parsed
        text   == ReceivedText(buffer)
    IN  \A expected \in ExpectedPackets :
            LET matters == /\ packet.keyword \in ResponseKeywords
                           /\ parsed.keyword # expected.keyword
                similar == IsTextSimilar(text, expected)
                TakenFor(datagram) ==
                    /\ ParseWith(ReceiverKeywords, datagram) = parsed
                    /\ matters => (IsPacketSimilar(datagram, expected) <=> similar)
            IN  \/ TakenFor(sent)
                \/ /\ corrupted
                   /\ \/ \E datagram \in Garbled(sent) : TakenFor(datagram)
                      \/ \E datagram \in Altered(sent) : TakenFor(datagram)

=============================================================================
