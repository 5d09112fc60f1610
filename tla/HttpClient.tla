----------------------------- MODULE HttpClient -----------------------------
(***************************************************************************)
(* The HTTP client (src/src/network/http_client.c) over ClientTcp.  One    *)
(* call of http_client_get is several actions, one per call of the TCP     *)
(* client that reaches the kernel, because the connection, the peer's data *)
(* and its end change between them.                                        *)
(*                                                                         *)
(* A response is its status, its framing and its number of body units.     *)
(* The peer's bytes are counted in tokens, so that every place where the   *)
(* parsers tell a prefix from the next one lies between two tokens:        *)
(*   1  the beginning of the status line   2  the rest of it               *)
(*   3  the headers and the empty line                                     *)
(*   4, 5, ...  the units of a plain body; or for a chunked one a size     *)
(*   line and a chunk for each unit, then "0" and the two line ends.       *)
(***************************************************************************)
EXTENDS ClientTcp

CONSTANTS
    Responses,    \* what servers may answer: a subset of Response
    MaxRequests,  \* bound: calls of http_client_get per client
    AllocFails,   \* TRUE when malloc and realloc may return NULL
    NoBody        \* response_body is NULL

\* Status 0 stands for a first line that sscanf cannot read.
Response == [status : 0..999, chunked : BOOLEAN, units : Nat]

ASSUME ResponsesAssumption == Responses \subseteq Response
ASSUME MaxRequestsAssumption == MaxRequests \in Nat
ASSUME AllocFailsAssumption == AllocFails \in BOOLEAN
ASSUME NoBodyAssumption == NoBody \notin [req : Nat, units : Nat]

Tokens(r) == 3 + (IF r.chunked THEN 2 * r.units + 2 ELSE r.units)

VARIABLES
    pc,         \* where the call is: "idle" between calls, "send", "recv"
    req,        \* the number of the current or last call
    resp,       \* the response the peer is sending on the connection
    sent,       \* tokens of it that have arrived
    got,        \* tokens of it in full_response
    status,     \* client->status_code
    statusOf,   \* history: the call whose response set it
    body,       \* client->response_body: NoBody, or which call's and how much
    size,       \* client->response_size
    dropped,    \* history: malloc failed for a plain body, and no body
                \* has been stored since
    asked,      \* history: the current call's request went to the kernel
    result      \* what the last call returned: "none", "ok", "fail"

answer   == <<status, statusOf, body, size, dropped>>
exchange == <<req, resp, sent>>
vars     == <<tcpVars, exchange, answer, pc, got, asked, result>>

Bodies == [req : 1..MaxRequests, units : Nat]

Init ==
    /\ TcpInit
    /\ pc = "idle" /\ req = 0
    /\ resp \in Responses /\ sent = 0 /\ got = 0
    /\ status = 0 /\ statusOf = 0
    /\ body = NoBody /\ size = 0 /\ dropped = FALSE
    /\ asked = FALSE /\ result = "none"

Return(outcome) == pc' = "idle" /\ result' = outcome

-----------------------------------------------------------------------------
(* http_client_get, up to the connection.                                  *)

StartCall ==
    /\ pc = "idle"
    /\ req < MaxRequests
    /\ req' = req + 1
    /\ resp' \in Responses
    /\ sent' = 0 /\ got' = 0 /\ asked' = FALSE

\* The URL does not parse, or client_tcp_connect_async returns -1 or 1: the
\* same error either way, and the descriptor is not closed.
GetWithoutConnection ==
    /\ StartCall
    /\ ConnectFails \/ ConnectInProgress
    /\ Return("fail")
    /\ UNCHANGED answer

GetConnects ==
    /\ StartCall
    /\ ConnectNow
    /\ pc' = "send"
    /\ UNCHANGED <<answer, result>>

-----------------------------------------------------------------------------
(* send_request returns what client_tcp_send_async returns, and anything   *)
(* but 0 is taken for a failure.                                           *)

SendFails ==
    /\ pc = "send"
    /\ asked' \in {FALSE} \cup (IF CanSend /\ sockets[fd] # "reset" THEN {TRUE} ELSE {})
    /\ Close
    /\ Return("fail")
    /\ UNCHANGED <<exchange, answer, got>>

\* The socket takes nothing (EAGAIN): 0, which is taken for success.
SendWouldBlock ==
    /\ pc = "send"
    /\ CanSend
    /\ pc' = "recv"
    /\ UNCHANGED <<tcpVars, exchange, answer, got, asked, result>>

-----------------------------------------------------------------------------
(* receive_response.                                                       *)

\* recv returns some of what has arrived.
RecvData ==
    /\ pc = "recv"
    /\ sockets[fd] # "reset"
    /\ got' \in (got + 1)..sent
    /\ UNCHANGED <<tcpVars, exchange, answer, pc, asked, result>>

FailAndForget ==
    /\ Return("fail")
    /\ UNCHANGED <<tcpVars, exchange, answer, got, asked>>

FailAndClose ==
    /\ Close
    /\ Return("fail")
    /\ UNCHANGED <<exchange, answer, got, asked>>

\* realloc fails, or recv does: what was received is thrown away.
RecvFails ==
    /\ pc = "recv"
    /\ (AllocFails /\ got < sent) \/ sockets[fd] = "reset"
    /\ FailAndClose

\* The peer has closed: the response is thrown away although it is complete.
RecvEnd ==
    /\ pc = "recv"
    /\ got = sent
    /\ RecvFin
    /\ pc' = "close"
    /\ UNCHANGED <<exchange, answer, got, asked, result>>

CloseAfterEnd ==
    /\ pc = "close"
    /\ FailAndClose

DrainedRetries == FALSE

\* Nothing more has arrived: recv returns 0, the loop ends, and what there
\* is becomes the response.
Drained ==
    /\ pc = "recv"
    /\ got = sent
    /\ sockets[fd] \notin {"fin", "reset"}

Finish(outcome) ==
    /\ Close
    /\ Return(outcome)
    /\ UNCHANGED <<exchange, got, asked>>

\* parse_headers sets the status as soon as it has the whole first line,
\* and 0 when it has only part of it.
StatusRead == IF got > 1 THEN resp.status ELSE 0

SetStatus == status' = StatusRead /\ statusOf' = req

\* The units of the body that got tokens hold, once the headers are there:
\* decode_chunked accepts a chunked body that ends after any chunk, and none
\* that ends inside one.
UnitsOffByOne == IF resp.chunked THEN (got - 3) \div 2 ELSE got - 4

Units     == IF resp.chunked THEN (got - 3) \div 2 ELSE got - 3
WellEnded == resp.chunked => (got - 3) % 2 = 0
Decoded   == [req |-> req, units |-> IF Units > resp.units THEN resp.units ELSE Units]

HasHeaders == got >= 3 /\ StatusRead # 0

FinishEmptyOk ==
    /\ Drained
    /\ got = 0
    /\ Finish("ok")
    /\ UNCHANGED answer

FinishEmpty ==
    /\ Drained
    /\ got = 0
    /\ Finish("fail")
    /\ UNCHANGED answer

FinishUnparsedSetsSize ==
    /\ Drained
    /\ got > 0
    /\ ~HasHeaders \/ ~WellEnded \/ (AllocFails /\ resp.chunked)
    /\ SetStatus
    /\ size' = got
    /\ Finish("fail")
    /\ UNCHANGED <<body, dropped>>

FinishUnparsed ==
    /\ Drained
    /\ got > 0
    /\ ~HasHeaders \/ ~WellEnded \/ (AllocFails /\ resp.chunked)
    /\ SetStatus
    /\ Finish("fail")
    /\ UNCHANGED <<body, size, dropped>>

\* malloc of a plain body fails, and its NULL is already response_body: the
\* size that the body before it had stays.
FinishOutOfMemory ==
    /\ Drained
    /\ AllocFails
    /\ HasHeaders
    /\ ~resp.chunked
    /\ SetStatus
    /\ body' = NoBody
    /\ dropped' = TRUE
    /\ Finish("fail")
    /\ UNCHANGED size

FinishAnyStatus ==
    /\ Drained
    /\ HasHeaders
    /\ WellEnded
    /\ SetStatus
    /\ body' = Decoded
    /\ size' = Decoded.units
    /\ dropped' = FALSE
    /\ Finish("ok")

\* The body is stored, over the pointer to the previous one; a status out of
\* range fails the call after that.
FinishDecoded ==
    /\ Drained
    /\ HasHeaders
    /\ WellEnded
    /\ SetStatus
    /\ body' = Decoded
    /\ size' = Decoded.units
    /\ dropped' = FALSE
    /\ Finish(IF status' \in 200..599 THEN "ok" ELSE "fail")

\* http_client_destroy, which frees the last body only, and the
\* http_client_create of the next client.
Destroy ==
    /\ pc = "idle"
    /\ Recreate
    /\ req' = 0 /\ status' = 0 /\ statusOf' = 0
    /\ body' = NoBody /\ size' = 0 /\ dropped' = FALSE
    /\ asked' = FALSE /\ result' = "none"
    /\ UNCHANGED <<pc, resp, sent, got>>

-----------------------------------------------------------------------------
(* The peer, external: it may send before the request reaches it, as a     *)
(* server does that gives up waiting, and may close or reset at any point. *)

PeerSends ==
    /\ fd # -1
    /\ sockets[fd] = "connected"
    /\ sent < Tokens(resp)
    /\ sent' = sent + 1
    /\ UNCHANGED <<tcpVars, req, resp, answer, pc, got, asked, result>>

Kernel ==
    /\ Establish \/ PeerFin \/ PeerReset
    /\ UNCHANGED <<exchange, answer, pc, got, asked, result>>

Receive ==
    \/ RecvData \/ RecvFails \/ RecvEnd \/ CloseAfterEnd
    \/ FinishEmpty \/ FinishUnparsed \/ FinishOutOfMemory \/ FinishDecoded

\* The steps of a call that has begun.
Continue == SendFails \/ SendWouldBlock \/ Receive

Next ==
    \/ GetWithoutConnection \/ GetConnects
    \/ Continue
    \/ Destroy
    \/ PeerSends \/ Kernel

\* The client runs: no call of it waits, because the socket never blocks.
Spec     == Init /\ [][Next]_vars
FairSpec == Spec /\ WF_vars(Continue)

-----------------------------------------------------------------------------
(* Properties                                                              *)

\* Every variable has its type.
TypeOK ==
    /\ TcpTypeOK
    /\ pc \in {"idle", "send", "recv", "close"}
    /\ req \in 0..MaxRequests
    /\ resp \in Responses
    /\ got \in 0..sent /\ sent \in 0..Tokens(resp)
    /\ status \in Nat /\ statusOf \in 0..req
    /\ body \in Bodies \cup {NoBody}
    /\ size \in Nat
    /\ dropped \in BOOLEAN
    /\ asked \in BOOLEAN
    /\ result \in {"none", "ok", "fail"}

\* Of all the ways out of http_client_get, only the one that leaves a
\* connect in progress leaves a descriptor open.
OnlyConnectingOutlivesCall ==
    pc = "idle" /\ fd # -1 => state = "CONNECTING"

\* A call that returns 0 leaves its own status and its own body, and never
\* those of an earlier call that used the same client.
SuccessIsOwn ==
    pc = "idle" /\ result = "ok" =>
        /\ body # NoBody /\ body.req = req
        /\ statusOf = req /\ status \in 200..599

\* http_client_get_body_size is the size of http_client_get_body after every
\* sequence of calls, failed ones included, and 0 when there is no body,
\* except from a malloc that failed for a plain body to the next body that is
\* stored: the body is then NULL and the size that of an earlier one
\* (http_client.c:272-275), where http_client.h:214-215 promises the size of
\* the body, or 0 without a successful request.
SizeMatchesBody ==
    /\ body # NoBody => size = body.units
    /\ body = NoBody /\ ~dropped => size = 0

\* Every call of http_client_get returns, even if the peer never sends
\* anything, never closes, or sends its answer a byte at a time.
CallsReturn == pc # "idle" ~> pc = "idle"

\* The promise of HttpContract, liveness included: no way of cutting an
\* answer into reads, and no failure in a later call, shows a caller a
\* success whose body is not the beginning of the answer to its own call.
Contract == INSTANCE HttpContract WITH busy <- pc # "idle"

ImplementsContract == Contract!FairSpec

-----------------------------------------------------------------------------
(* What http_client.h says, and the code does not do.                      *)

\* "This function blocks until the complete response is received or an error
\* occurs" (http_client.h:122).
SuccessIsComplete == pc = "idle" /\ result = "ok" => got = Tokens(resp)

\* "Sends HTTP/1.1 GET request" and "0 Request completed successfully"
\* (http_client.h:91, :107).
SuccessWasAsked == pc = "idle" /\ result = "ok" => asked

=============================================================================
