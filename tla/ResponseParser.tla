--------------------------- MODULE ResponseParser ---------------------------
(***************************************************************************)
(* receive_response, parse_headers and decode_chunked                      *)
(* (src/src/network/http_client.c) over the bytes of an answer, of which   *)
(* any beginning may have arrived when recv runs dry.                      *)
(*                                                                         *)
(* HttpClient counts the same bytes in tokens; TokensSuffice says that it  *)
(* loses nothing.  A byte is a character; the words of the protocol that   *)
(* the parsers compare as a whole are one character each.                  *)
(***************************************************************************)
EXTENDS Integers, FiniteSetsExt, SequencesExt

CONSTANTS
    Byte,        \* what bodies and header lines are made of; a NUL is not
    Answers,     \* what servers answer
    BufferSize,  \* sizeof(buffer) - 1: what one recv takes at most
    SizeMod      \* SIZE_MAX + 1, where size_t wraps

CRLF   == <<"CR", "LF">>
Digits == <<"0", "1", "2", "3", "4", "5", "6", "7", "8", "9", "a", "b", "c", "d", "e", "f">>
HTTP   == "HTTP/1.1 "
TE     == "Transfer-Encoding:"

-----------------------------------------------------------------------------
(* The server.  An answer has a status, 0 when its first line is not HTTP; *)
(* header lines; and its body in pieces: the chunks when it is chunked,    *)
(* and else the single bytes.  A transfer coding ends in "chunked", as     *)
(* HTTP wants it of an answer to such a client.                            *)

Word   == Byte \ {"CR", "LF"}
Header == {h \in Seq(Word) \ {<<>>} : h[1] = TE => \E i \in DOMAIN h : h[i] = " chunked"}

Answer == [status : {0} \cup 100..999, headers : Seq(Header), pieces : Seq(Seq(Byte) \ {<<>>})]

Chunked(a) == \E i \in DOMAIN a.headers : a.headers[i][1] = TE

ASSUME BufferAssumption == BufferSize \in Nat \ {0}
ASSUME AnswersAssumption ==
    \A a \in Answers :
      /\ a \in Answer
      /\ Chunked(a) \/ \A i \in DOMAIN a.pieces : Len(a.pieces[i]) = 1

Numeral(n, base) ==
    LET printed[m \in 0..n] ==
          LET digit == Digits[(m % base) + 1]
          IN  IF m < base THEN <<digit>> ELSE Append(printed[m \div base], digit)
    IN  printed[n]

StatusLine(a) == (IF a.status = 0 THEN <<>> ELSE <<HTTP>>) \o Numeral(a.status, 10) \o CRLF
Preamble(a)   == StatusLine(a) \o FlattenSeq([i \in DOMAIN a.headers |-> a.headers[i] \o CRLF]) \o CRLF

\* The size line of a chunk may carry an extension.
Size(piece)  == Numeral(Len(piece), 16) \o IF Len(piece) = 2 THEN <<"ext">> ELSE <<>>
Chunk(piece) == Size(piece) \o CRLF \o piece \o CRLF

Content(a, n) == FlattenSeq(SubSeq(a.pieces, 1, n))
Chunks(a, n)  == FlattenSeq([i \in 1..n |-> Chunk(a.pieces[i])])

Units(a) == Len(a.pieces)
Bytes(a) ==
    Preamble(a) \o IF Chunked(a) THEN Chunks(a, Units(a)) \o <<"0">> \o CRLF \o CRLF
                             ELSE Content(a, Units(a))

\* An answer fits into memory.
ASSUME SizeAssumption == SizeMod \in Nat /\ \A a \in Answers : Len(Bytes(a)) < SizeMod

-----------------------------------------------------------------------------
VARIABLES
    pc,         \* "recv", "headers", "chunks" or "done"
    answer,     \* the answer on the connection
    received,   \* full_response
    status,     \* client->status_code
    pos,        \* where decode_chunked stands in full_response
    body,       \* buf, and then response_body
    result      \* "none", "ok" or "fail"

vars == <<pc, answer, received, status, pos, body, result>>

Init ==
    /\ pc = "recv"
    /\ answer \in Answers
    /\ received = <<>>
    /\ status = 0
    /\ pos = 0
    /\ body = <<>>
    /\ result = "none"

\* The first place from which text continues with part, or 0: strstr.
Find(text, part, from) ==
    LET at == {i \in from..(Len(text) - Len(part) + 1) :
                 SubSeq(text, i, i + Len(part) - 1) = part}
    IN  IF at = {} THEN 0 ELSE Min(at)

\* The leading digits of a text and what they stand for; no digits, no
\* number: %d of sscanf, and strtoul.
NotANumber == -1

DigitValue(c) == (CHOOSE d \in 1..16 : Digits[d] = c) - 1

Number(text, base) ==
    LET IsDigit(c) == \E d \in 1..base : Digits[d] = c
        places == Max({n \in 0..Len(text) : \A i \in 1..n : IsDigit(text[i])})
        value[n \in 0..places] ==
            IF n = 0 THEN 0 ELSE base * value[n - 1] + DigitValue(text[n])
    IN  IF places = 0 THEN NotANumber ELSE value[places]

Done(outcome) == pc' = "done" /\ result' = outcome

-----------------------------------------------------------------------------
(* receive_response                                                        *)

Receive ==
    /\ pc = "recv"
    /\ \E n \in 1..BufferSize :
         /\ Len(received) + n <= Len(Bytes(answer))
         /\ received' = SubSeq(Bytes(answer), 1, Len(received) + n)
    /\ UNCHANGED <<pc, answer, status, pos, body, result>>

\* recv would block: the loop ends.
Drained ==
    /\ pc = "recv"
    /\ IF received = <<>> THEN Done("fail")
                          ELSE pc' = "headers" /\ UNCHANGED result
    /\ UNCHANGED <<answer, received, status, pos, body>>

\* The lines that parse_headers looks at: they end, and no empty one is
\* before them.
HeaderLines ==
    LET blank == Find(received, CRLF \o CRLF, 1)
    IN  {i \in 3..Len(received) :
           /\ SubSeq(received, i - 2, i - 1) = CRLF
           /\ blank # 0 => i < blank + 2
           /\ Find(received, CRLF, i) # 0}

StatusCode ==
    IF received[1] # HTTP THEN 0 ELSE Max({0, Number(Tail(received), 10)})

IsChunkedAnywhere == Find(received, <<" chunked">>, 1) # 0

\* strstr does not stop at the end of the line.
IsChunked ==
    \E i \in HeaderLines : received[i] = TE /\ Find(received, <<" chunked">>, i) # 0

\* parse_headers, and where the body begins.
ParseHeaders ==
    /\ pc = "headers"
    /\ status' = IF Find(received, CRLF, 1) = 0 THEN 0 ELSE StatusCode
    /\ LET blank == Find(received, CRLF \o CRLF, 1)
       IN  IF status' = 0 \/ blank = 0
             THEN Done("fail") /\ UNCHANGED <<pos, body>>
           ELSE /\ pos' = blank + 4
                /\ IF IsChunked
                     THEN pc' = "chunks" /\ UNCHANGED <<body, result>>
                     ELSE Done("ok") /\ body' = SubSeq(received, blank + 4, Len(received))
    /\ UNCHANGED <<answer, received>>

-----------------------------------------------------------------------------
(* decode_chunked, one turn of its loop a step.                            *)

LineEnd   == Find(received, CRLF, pos)
SizeLine  == SubSeq(received, pos, LineEnd - 1)
Data      == LineEnd + 2

\* strtoul stops at the largest unsigned long.
ChunkSize ==
    LET number == Number(SizeLine, 16) IN IF number >= SizeMod THEN SizeMod - 1 ELSE number

\* decode_chunked counts from where the body begins, and pos + chunk_size
\* may wrap.
BodyStart == Find(received, CRLF \o CRLF, 1) + 4
DataEnd   == BodyStart + ((Data - BodyStart + ChunkSize) % SizeMod)

\* There is a size line, and it begins with a number.
HasSize == LineEnd # 0 /\ SizeLine # <<>> /\ ChunkSize # NotANumber

\* The chunk and the line end after it have arrived.
WholeChunkUnended == DataEnd <= Len(received) + 1

WholeChunk ==
    /\ DataEnd + 1 <= Len(received)
    /\ SubSeq(received, DataEnd, DataEnd + 1) = CRLF

DecodeChunk ==
    /\ pc = "chunks"
    /\ pos <= Len(received)
    /\ HasSize
    /\ ChunkSize # 0
    /\ WholeChunk
    /\ body' = body \o SubSeq(received, Data, Data + ChunkSize - 1)
    /\ pos' = DataEnd + 2
    /\ UNCHANGED <<pc, answer, received, status, result>>

\* The input ends after a chunk, or the last chunk is there.
DecodeEnds ==
    /\ pc = "chunks"
    /\ pos > Len(received) \/ (HasSize /\ ChunkSize = 0)
    /\ Done("ok")
    /\ UNCHANGED <<answer, received, status, pos, body>>

DecodeFails ==
    /\ pc = "chunks"
    /\ pos <= Len(received)
    /\ HasSize => ChunkSize # 0 /\ ~WholeChunk
    /\ Done("fail")
    /\ UNCHANGED <<answer, received, status, pos, body>>

Next == Receive \/ Drained \/ ParseHeaders \/ DecodeChunk \/ DecodeEnds \/ DecodeFails

Spec == Init /\ [][Next]_vars

-----------------------------------------------------------------------------
(* Properties                                                              *)

\* Where the first i chunks end.
End(a, i) == Len(Preamble(a)) + Len(Chunks(a, i))

\* The tokens of HttpClient that the first n bytes amount to.
TokensIn(a, n) ==
    LET head  == Len(Preamble(a))
        whole == Max({i \in 0..Units(a) : End(a, i) <= n})
        rest  == IF n = End(a, whole) THEN 0 ELSE IF n < End(a, Units(a)) + 3 THEN 1 ELSE 2
    IN  CASE n = 0                               -> 0
          [] 0 < n /\ n < Len(StatusLine(a))     -> 1
          [] Len(StatusLine(a)) <= n /\ n < head -> 2
          [] head <= n /\ ~Chunked(a)            -> 3 + (n - head)
          [] head <= n /\ Chunked(a)             -> 3 + 2 * whole + rest

Tokens == TokensIn(answer, Len(received))

\* What HttpClient makes of so many tokens.
Http == INSTANCE HttpClient WITH
    resp <- [status |-> answer.status, chunked |-> Chunked(answer), units |-> Units(answer)],
    got <- Tokens, sent <- Tokens, req <- 1, statusOf <- 1, size <- Len(body),
    fd <- 3, state <- "connected", sockets <- <<>>, dropped <- FALSE, asked <- FALSE,
    Fds <- {3}, Responses <- {}, MaxRequests <- 1, AllocFails <- FALSE, NoBody <- <<>>

\* Whatever beginning of an answer has arrived, the bytes of the body and
\* the headers among it never change what the parsers make of it: HttpClient
\* foretells success and status from the count of its tokens alone.
TokensSuffice ==
    pc = "done" =>
      /\ status = Http!StatusRead
      /\ result = IF Tokens > 0 /\ Http!HasHeaders /\ Http!WellEnded THEN "ok" ELSE "fail"

\* A body that is handed out is the beginning of the one the server sent, as
\* many whole units as have arrived, even if it looks like size lines, line
\* ends or headers; and it is all of it once the answer is complete.
BodyIsSent ==
    pc = "done" /\ result = "ok" => body = Content(answer, Http!Decoded.units)

=============================================================================
