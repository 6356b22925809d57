------------------------------- MODULE MCCodec -------------------------------
(* The values sent have one, two and three digits.  The bytes replaced are *)
(* no more than two, by digits that keep or break the range and letters    *)
(* of the complement OK, or as many as one likes, by the characters of a   *)
(* text that a corrupted one may be turned into, in part or altogether.    *)
EXTENDS Codec

MCValues == {0, 40, 100}

Targets ==
    {<<"O", "p", "e", "n", "7", "7", "7", "7">>,
     <<"O", "p", "e", "n", "V", "a", "l", "v", "e", "7", "0">>,
     <<"C", "l", "o", "s", "e", "4", "0", "7">>,
     <<"L", "e", "v", "e", "l", "7", "0", "K">>,
     <<"C", "o", "m", "m", "0", "O", "K">>,
     <<"S", "t", "a", "r", "t", "7", "O", "K">>,
     <<"C", "o", "m", "m", "T", "e", "s", "t">>,
     <<"G", "e", "t", "L", "e", "v", "e", "l">>,
     <<"E", "r", "r">>}

MCCharacters == {"0", "7", "O", "K"} \cup UNION {ToSet(text) : text \in Targets}

Few == {positions \in SUBSET (1 .. BUFFER_LENGTH) : Cardinality(positions) <= 2}

MCReplacements ==
    UNION {[positions -> {"0", "7", "O", "K"}] : positions \in Few}
    \cup UNION {{[i \in positions |-> text[i]] : positions \in SUBSET (DOMAIN text)} :
                   text \in Targets}

=============================================================================
