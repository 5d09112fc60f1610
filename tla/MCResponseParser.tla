-------------------------- MODULE MCResponseParser --------------------------
(* Instances of ResponseParser for TLC. *)
EXTENDS ResponseParser

SomeBytes == {"CR", "LF", "0", "1", "X:", " chunked", TE}

Texts(chars, longest) == UNION {[1..n -> chars] : n \in 1..longest}

Other    == <<"X:", " chunked">>
Encoding == <<TE, " chunked">>

\* Chunks that look like line ends, sizes and the last chunk, and one whose
\* size has two digits.
Pieces == Texts({"CR", "LF", "0"}, 2) \cup {<<"1", "CR", "LF", "0">>, [i \in 1..17 |-> "0"]}

ChunkedBodies == {<<>>} \cup {<<p>> : p \in Pieces} \cup {<<p, q>> : p, q \in Pieces}

\* Plain bodies that look like the end of the headers, and like a header.
PlainBodies ==
    {<<>>} \cup Texts({"CR", "LF", "0"}, 4) \cup {CRLF \o Encoding \o CRLF, Encoding \o CRLF}

AllAnswers ==
    [status : {0, 200}, headers : {<<Encoding>>, <<Other, Encoding>>, <<Encoding, Other>>},
     pieces : ChunkedBodies]
    \cup
    [status : {0, 100, 404}, headers : {<<>>, <<Other>>},
     pieces : {[i \in DOMAIN b |-> <<b[i]>>] : b \in PlainBodies}]

=============================================================================
