-------------------------- MODULE HttpClientProofs --------------------------
(***************************************************************************)
(* Proofs about HttpClient, for any servers, descriptors and number of     *)
(* requests, whether or not memory may be exhausted:                       *)
(*   - the TCP client alone, in whatever order its operations are called;  *)
(*   - each of its steps is a step of ClientTcp or leaves it alone, so     *)
(*     that what is proved of the TCP client holds of every call;          *)
(*   - its inductive invariant;                                            *)
(*   - each of its steps is a step of HttpContract or leaves it alone.     *)
(***************************************************************************)
EXTENDS HttpClient, TLAPS

-----------------------------------------------------------------------------
(* The TCP client alone, for any set of descriptors.                       *)

TcpInv == TcpTypeOK /\ NoDescriptorLost /\ SendsOnlyWhenConnected

\* The invariant holds of a new client and is kept by every call and by
\* every move of the kernel: the three parts need each other, because a move
\* may only touch the one open descriptor.
LEMMA TcpInitially == TcpInit => TcpInv
  BY FdsAssumption DEF TcpInit, TcpInv, TcpTypeOK, NoDescriptorLost, SendsOnlyWhenConnected,
                       Open, States, SocketStates, CanSend

LEMMA TcpPreserved == TcpInv /\ [TcpNext]_tcpVars => TcpInv'
<1> SUFFICES ASSUME TcpInv, [TcpNext]_tcpVars PROVE TcpInv'
  OBVIOUS
<1> USE FdsAssumption
        DEF TcpInv, TcpTypeOK, NoDescriptorLost, SendsOnlyWhenConnected, Open, States,
            SocketStates, CanSend
<1>1. CASE ConnectFails
  BY <1>1 DEF ConnectFails, tcpVars
<1>2. CASE ConnectNow
  BY <1>2 DEF ConnectNow, ConnectInto
<1>3. CASE ConnectInProgress
  BY <1>3 DEF ConnectInProgress, ConnectInto
<1>4. CASE RecvFin
  BY <1>4 DEF RecvFin
<1>5. CASE Close
  BY <1>5 DEF Close, tcpVars
<1>6. CASE Recreate
  BY <1>6 DEF Recreate
<1>7. CASE Establish
  BY <1>7 DEF Establish, Moves
<1>8. CASE PeerFin
  BY <1>8 DEF PeerFin, Moves
<1>9. CASE PeerReset
  BY <1>9 DEF PeerReset, Moves
<1>10. CASE UNCHANGED tcpVars
  BY <1>10 DEF tcpVars
<1> QED
  BY <1>1, <1>2, <1>3, <1>4, <1>5, <1>6, <1>7, <1>8, <1>9, <1>10 DEF TcpNext

\* No order of connects, closes, destroys and moves of the kernel makes the
\* client forget an open descriptor, keep a closed one, or send on a socket
\* whose handshake is under way.
THEOREM TcpCorrect == TcpSpec => []TcpInv
<1>1. TcpInit => TcpInv
  BY TcpInitially
<1>2. TcpInv /\ [TcpNext]_tcpVars => TcpInv'
  BY TcpPreserved
<1> QED
  BY <1>1, <1>2, PTL DEF TcpSpec

USE FdsAssumption, ResponsesAssumption, MaxRequestsAssumption, NoBodyAssumption

-----------------------------------------------------------------------------
(* The TCP client inside.                                                  *)

\* Every step of the HTTP client is one of the TCP client, or leaves the
\* connection as it is.
LEMMA StepsAreTcpSteps == [Next]_vars => [TcpNext]_tcpVars
<1> SUFFICES ASSUME [Next]_vars PROVE [TcpNext]_tcpVars
  OBVIOUS
<1>1. CASE GetWithoutConnection
  BY <1>1 DEF GetWithoutConnection, TcpNext
<1>2. CASE GetConnects
  BY <1>2 DEF GetConnects, TcpNext
<1>3. CASE SendFails
  BY <1>3 DEF SendFails, TcpNext
<1>4. CASE SendWouldBlock
  BY <1>4 DEF SendWouldBlock
<1>5. CASE RecvData
  BY <1>5 DEF RecvData
<1>6. CASE RecvFails
  BY <1>6 DEF RecvFails, FailAndClose, TcpNext
<1>7. CASE RecvEnd
  BY <1>7 DEF RecvEnd, TcpNext
<1>8. CASE CloseAfterEnd
  BY <1>8 DEF CloseAfterEnd, FailAndClose, TcpNext
<1>9. CASE FinishEmpty
  BY <1>9 DEF FinishEmpty, Finish, TcpNext
<1>10. CASE FinishUnparsed
  BY <1>10 DEF FinishUnparsed, Finish, TcpNext
<1>11. CASE FinishOutOfMemory
  BY <1>11 DEF FinishOutOfMemory, Finish, TcpNext
<1>12. CASE FinishDecoded
  BY <1>12 DEF FinishDecoded, Finish, TcpNext
<1>13. CASE Destroy
  BY <1>13 DEF Destroy, TcpNext
<1>14. CASE PeerSends
  BY <1>14 DEF PeerSends
<1>15. CASE Kernel
  BY <1>15 DEF Kernel, TcpNext
<1>16. CASE UNCHANGED vars
  BY <1>16 DEF vars
<1> QED
  BY <1>1, <1>2, <1>3, <1>4, <1>5, <1>6, <1>7, <1>8, <1>9, <1>10, <1>11, <1>12, <1>13,
     <1>14, <1>15, <1>16 DEF Next, Continue, Receive

\* Any sequence of requests uses the TCP client as one of its own behaviours.
THEOREM UsesTcp == Spec => TcpSpec
<1>1. Init => TcpInit
  BY DEF Init
<1>2. [Next]_vars => [TcpNext]_tcpVars
  BY StepsAreTcpSteps
<1> QED
  BY <1>1, <1>2, PTL DEF Spec, TcpSpec

\* No request leaks a descriptor or uses a closed one: the one descriptor
\* that is open is the one that the client remembers.
THEOREM NoLeak == Spec => []NoDescriptorLost
<1>1. TcpInv => NoDescriptorLost
  BY DEF TcpInv
<1> QED
  BY <1>1, UsesTcp, TcpCorrect, PTL

\* A request is never sent on a socket whose handshake is under way.
THEOREM NoEarlySend == Spec => []SendsOnlyWhenConnected
<1>1. TcpInv => SendsOnlyWhenConnected
  BY DEF TcpInv
<1> QED
  BY <1>1, UsesTcp, TcpCorrect, PTL

-----------------------------------------------------------------------------
(* The inductive invariant.  The properties of HttpClient are about the    *)
(* client between calls; in the middle of one it holds a connection.       *)

InCall == pc # "idle" => fd # -1 /\ req # 0

HttpInv ==
    /\ TcpInv
    /\ TypeOK
    /\ InCall
    /\ OnlyConnectingOutlivesCall
    /\ SuccessIsOwn
    /\ SizeMatchesBody

\* The number of tokens of an answer, and of units of a body, is natural.
LEMMA TokensType ==
  ASSUME NEW r \in Response
  PROVE  Tokens(r) \in Nat
<1>1. r.units \in Nat
  BY DEF Response
<1>2. CASE r.chunked
  BY <1>1, <1>2 DEF Tokens
<1>3. CASE ~r.chunked
  BY <1>1, <1>3 DEF Tokens
<1> QED
  BY <1>2, <1>3

LEMMA DecodedType ==
  ASSUME TypeOK, HasHeaders, req # 0
  PROVE  /\ Decoded \in Bodies
         /\ Decoded.req = req
         /\ Decoded.units \in 0..resp.units
<1>1. got \in Nat /\ got >= 3 /\ resp.units \in Nat /\ resp.chunked \in BOOLEAN
  BY TokensType DEF TypeOK, HasHeaders, Response
<1>2. (got - 3) \div 2 \in Nat
  BY <1>1
<1>3. Units \in Nat
  BY <1>1, <1>2 DEF Units
<1>4. req \in 1..MaxRequests
  BY DEF TypeOK
<1> QED
  BY <1>1, <1>3, <1>4 DEF Decoded, Bodies

LEMMA HttpInitially == Init => HttpInv
<1> SUFFICES ASSUME Init PROVE HttpInv
  OBVIOUS
<1>1. TcpInv /\ TcpTypeOK
  BY TcpInitially DEF Init, TcpInv
<1>2. Tokens(resp) \in Nat
  BY TokensType DEF Init
<1>3. asked \in BOOLEAN /\ dropped \in BOOLEAN
  BY DEF Init
<1>4. TypeOK
  BY <1>1, <1>2, <1>3 DEF Init, TypeOK
<1>5. InCall /\ OnlyConnectingOutlivesCall /\ SuccessIsOwn
  BY DEF Init, TcpInit, InCall, OnlyConnectingOutlivesCall, SuccessIsOwn
<1>6. SizeMatchesBody
  BY DEF Init, SizeMatchesBody
<1> QED
  BY <1>1, <1>4, <1>5, <1>6 DEF HttpInv

\* The parts of the invariant that only look at the answer, when the answer
\* stays and no call returns "ok".
LEMMA AnswerStays ==
  ASSUME HttpInv, UNCHANGED answer
  PROVE  SizeMatchesBody'
  BY DEF HttpInv, answer, SizeMatchesBody

LEMMA CallPreserves ==
  ASSUME HttpInv, TcpInv', GetWithoutConnection \/ GetConnects
  PROVE  HttpInv'
<1> USE DEF HttpInv
<1>1. StartCall /\ UNCHANGED answer
  BY DEF GetWithoutConnection, GetConnects
<1>2. Tokens(resp)' \in Nat
  BY <1>1, TokensType DEF StartCall
<1>3. req \in Nat /\ req' \in 1..MaxRequests /\ req' = req + 1 /\ 0..req \subseteq 0..req'
  BY <1>1 DEF StartCall, TypeOK
<1>4. body' \in Bodies \cup {NoBody} /\ size' \in Nat /\ dropped' \in BOOLEAN
      /\ status' \in Nat /\ statusOf' \in 0..req'
  BY <1>1, <1>3 DEF answer, TypeOK, Bodies
<1>5. asked' \in BOOLEAN
  BY <1>1 DEF StartCall
<1>6. pc' \in {"idle", "send"} /\ result' \in {"none", "ok", "fail"}
  BY DEF GetWithoutConnection, GetConnects, Return, TypeOK
<1>7. TypeOK'
  BY <1>1, <1>2, <1>3, <1>4, <1>5, <1>6 DEF StartCall, TypeOK, TcpInv
<1>8. SizeMatchesBody'
  BY <1>1, AnswerStays
<1>9. CASE GetWithoutConnection
  BY <1>1, <1>7, <1>8, <1>9
     DEF GetWithoutConnection, StartCall, Return, ConnectFails, ConnectInProgress,
         ConnectInto, tcpVars, InCall, OnlyConnectingOutlivesCall, SuccessIsOwn
<1>10. CASE GetConnects
  BY <1>3, <1>7, <1>8, <1>10
     DEF GetConnects, ConnectNow, ConnectInto, InCall,
         OnlyConnectingOutlivesCall, SuccessIsOwn
<1> QED
  BY <1>9, <1>10

\* A call that fails with the answer as it was: the connection is closed.
LEMMA FailurePreserves ==
  ASSUME HttpInv, TcpInv', SendFails \/ RecvFails \/ CloseAfterEnd
  PROVE  HttpInv'
<1> USE DEF HttpInv
<1>1. Close /\ Return("fail") /\ UNCHANGED <<exchange, answer, got>>
  BY DEF SendFails, RecvFails, CloseAfterEnd, FailAndClose
<1>2. asked' \in BOOLEAN
  BY DEF SendFails, RecvFails, CloseAfterEnd, FailAndClose, TypeOK
<1>3. TypeOK'
  BY <1>1, <1>2 DEF Return, exchange, answer, TypeOK, TcpInv
<1>4. fd' = -1
  BY <1>1 DEF Close, tcpVars
<1>5. SizeMatchesBody'
  BY <1>1, AnswerStays
<1> QED
  BY <1>1, <1>3, <1>4, <1>5
     DEF Return, InCall, OnlyConnectingOutlivesCall, SuccessIsOwn

\* The steps that neither begin nor end a call.
LEMMA ProgressPreserves ==
  ASSUME HttpInv, TcpInv', SendWouldBlock \/ RecvData \/ RecvEnd \/ PeerSends \/ Kernel
  PROVE  HttpInv'
<1> USE DEF HttpInv
<1>1. UNCHANGED <<req, resp, answer, asked, result>> /\ fd' = fd
  BY DEF SendWouldBlock, RecvData, RecvEnd, PeerSends, Kernel, RecvFin, Establish,
         PeerFin, PeerReset, Moves, exchange, tcpVars
<1>2. pc' \in {"idle", "send", "recv", "close"} /\ (pc' = "idle" <=> pc = "idle")
  BY DEF SendWouldBlock, RecvData, RecvEnd, PeerSends, Kernel, TypeOK
<1>3. state' = state \/ pc' # "idle"
  BY DEF SendWouldBlock, RecvData, RecvEnd, PeerSends, Kernel, Establish, PeerFin,
         PeerReset, Moves, tcpVars
<1>4. got' \in 0..sent' /\ sent' \in 0..Tokens(resp)
  <2>1. Tokens(resp) \in Nat
    BY TokensType DEF TypeOK
  <2> QED
    BY <2>1 DEF SendWouldBlock, RecvData, RecvEnd, PeerSends, Kernel, exchange, TypeOK
<1>5. TypeOK'
  BY <1>1, <1>2, <1>4 DEF answer, TypeOK, TcpInv
<1>6. SizeMatchesBody'
  BY <1>1, AnswerStays
<1> QED
  BY <1>1, <1>2, <1>3, <1>5, <1>6
     DEF answer, InCall, OnlyConnectingOutlivesCall, SuccessIsOwn

LEMMA DestroyPreserves ==
  ASSUME HttpInv, TcpInv', Destroy
  PROVE  HttpInv'
<1> USE DEF HttpInv
<1>1. status' \in Nat /\ statusOf' \in 0..req' /\ req' \in 0..MaxRequests
  BY DEF Destroy
<1>2. asked' \in BOOLEAN /\ dropped' \in BOOLEAN
  BY DEF Destroy
<1>3. TypeOK'
  BY <1>1, <1>2 DEF Destroy, TypeOK, TcpInv
<1> QED
  BY <1>3 DEF Destroy, Recreate, InCall, OnlyConnectingOutlivesCall,
              SuccessIsOwn, SizeMatchesBody

\* The end of receive_response: what it read becomes the answer or is
\* dropped.  Only FinishDecoded returns "ok", with everything replaced.
LEMMA FinishPreserves ==
  ASSUME HttpInv, TcpInv',
         FinishEmpty \/ FinishUnparsed \/ FinishOutOfMemory \/ FinishDecoded
  PROVE  HttpInv'
<1> USE DEF HttpInv
<1>1. /\ pc = "recv" /\ pc' = "idle"
      /\ result' \in {"ok", "fail"}
      /\ UNCHANGED <<exchange, got, asked>>
      /\ Close
  BY DEF FinishEmpty, FinishUnparsed, FinishOutOfMemory, FinishDecoded, Finish, Return,
         Drained
<1>2. fd' = -1
  BY <1>1 DEF Close, tcpVars
<1>3. StatusRead \in Nat
  BY SMTT(30) DEF StatusRead, TypeOK, Response
<1>4. req # 0
  BY <1>1 DEF InCall
<1>5. /\ req' = req /\ resp' = resp /\ sent' = sent /\ got' = got /\ asked' = asked
      /\ pc' = "idle"
  BY <1>1 DEF exchange
<1>6. CASE FinishEmpty
  <2>1. UNCHANGED answer /\ result' = "fail"
    BY <1>6 DEF FinishEmpty, Finish, Return
  <2>2. TypeOK'
    BY <1>1, <1>5, <2>1 DEF answer, TypeOK, TcpInv
  <2> QED
    BY <1>2, <1>5, <2>1, <2>2, AnswerStays
       DEF InCall, OnlyConnectingOutlivesCall, SuccessIsOwn
<1>7. CASE FinishUnparsed \/ FinishOutOfMemory
  <2>1. /\ status' = StatusRead /\ statusOf' = req
        /\ \/ body' = body /\ dropped' = dropped
           \/ body' = NoBody /\ dropped' = TRUE
        /\ size' = size
        /\ result' = "fail"
    BY <1>7 DEF FinishUnparsed, FinishOutOfMemory, SetStatus, Finish, Return
  <2>2. TypeOK'
    <3>1. dropped' \in BOOLEAN /\ body' \in Bodies \cup {NoBody}
      BY <2>1 DEF TypeOK
    <3> QED
      BY <1>1, <1>3, <1>5, <2>1, <3>1 DEF TypeOK, TcpInv
  <2>3. SizeMatchesBody'
    BY <2>1 DEF SizeMatchesBody
  <2> QED
    BY <1>2, <1>5, <2>1, <2>2, <2>3 DEF InCall, OnlyConnectingOutlivesCall, SuccessIsOwn
<1>8. CASE FinishDecoded
  <2>1. /\ status' = StatusRead /\ statusOf' = req
        /\ body' = Decoded /\ size' = Decoded.units /\ dropped' = FALSE
        /\ result' = "ok" => status' \in 200..599
        /\ HasHeaders
    BY <1>8 DEF FinishDecoded, SetStatus, Finish, Return
  <2>2. Decoded \in Bodies /\ Decoded.req = req /\ Decoded.units \in Nat
    <3>1. resp.units \in Nat
      BY DEF TypeOK, Response
    <3> QED
      BY <1>4, <2>1, <3>1, DecodedType
  <2>3. req \in 0..req
    BY <1>4 DEF TypeOK
  <2>5. TypeOK'
    BY <1>1, <1>3, <1>5, <2>1, <2>2, <2>3 DEF TypeOK, TcpInv
  <2>6. Decoded # NoBody
    BY <2>2 DEF Bodies
  <2> QED
    BY <1>2, <1>5, <2>1, <2>2, <2>5, <2>6
       DEF InCall, OnlyConnectingOutlivesCall, SuccessIsOwn, SizeMatchesBody
<1> QED
  BY <1>6, <1>7, <1>8

LEMMA HttpPreserved == HttpInv /\ [Next]_vars => HttpInv'
<1> SUFFICES ASSUME HttpInv, [Next]_vars PROVE HttpInv'
  OBVIOUS
<1>1. TcpInv'
  BY StepsAreTcpSteps, TcpPreserved DEF HttpInv
<1>2. CASE UNCHANGED vars
  BY <1>2 DEF vars, tcpVars, exchange, answer, HttpInv, TcpInv, TcpTypeOK,
     NoDescriptorLost, Open, SendsOnlyWhenConnected, CanSend, TypeOK, InCall,
     OnlyConnectingOutlivesCall, SuccessIsOwn, SizeMatchesBody
<1>3. CASE GetWithoutConnection \/ GetConnects
  BY <1>1, <1>3, CallPreserves
<1>4. CASE SendFails \/ RecvFails \/ CloseAfterEnd
  BY <1>1, <1>4, FailurePreserves
<1>5. CASE SendWouldBlock \/ RecvData \/ RecvEnd \/ PeerSends \/ Kernel
  BY <1>1, <1>5, ProgressPreserves
<1>6. CASE FinishEmpty \/ FinishUnparsed \/ FinishOutOfMemory \/ FinishDecoded
  BY <1>1, <1>6, FinishPreserves
<1>7. CASE Destroy
  BY <1>1, <1>7, DestroyPreserves
<1> QED
  BY <1>2, <1>3, <1>4, <1>5, <1>6, <1>7 DEF Next, Continue, Receive

\* The inductive invariant of the HTTP client holds in every state.
THEOREM HttpInvariance == Spec => []HttpInv
<1>1. Init => HttpInv
  BY HttpInitially
<1>2. HttpInv /\ [Next]_vars => HttpInv'
  BY HttpPreserved
<1> QED
  BY <1>1, <1>2, PTL DEF Spec

\* Every variable keeps its type.
THEOREM TypeCorrect == Spec => []TypeOK
<1>1. HttpInv => TypeOK
  BY DEF HttpInv
<1> QED
  BY <1>1, HttpInvariance, PTL

\* Whatever ends a call, it leaves no descriptor open, unless the connect
\* itself was left in progress.
THEOREM OthersClose == Spec => []OnlyConnectingOutlivesCall
<1>1. HttpInv => OnlyConnectingOutlivesCall
  BY DEF HttpInv
<1> QED
  BY <1>1, HttpInvariance, PTL

\* What a successful call leaves is the status and the body of its own
\* answer, after any number of earlier calls and failures.
THEOREM OwnAnswer == Spec => []SuccessIsOwn
<1>1. HttpInv => SuccessIsOwn
  BY DEF HttpInv
<1> QED
  BY <1>1, HttpInvariance, PTL

\* After any calls, failed ones included, the size that the client reports is
\* that of the body it hands out, and 0 when it has none and did not run out
\* of memory for one since.
THEOREM BodyIsSound == Spec => []SizeMatchesBody
<1>1. HttpInv => SizeMatchesBody
  BY DEF HttpInv
<1> QED
  BY <1>1, HttpInvariance, PTL

-----------------------------------------------------------------------------
(* The contract: Spec implements HttpContract (its fairness is checked by  *)
(* TLC).                                                                   *)

LEMMA ContractInitially == Init => Contract!Init
  BY DEF Init, Contract!Init

\* What a call that ends leaves behind is what the contract allows.
LEMMA FinishMeetsContract ==
  ASSUME HttpInv, FinishEmpty \/ FinishUnparsed \/ FinishOutOfMemory \/ FinishDecoded
  PROVE  Contract!Succeed \/ Contract!Fail
<1>1. /\ pc # "idle" /\ pc' = "idle"
      /\ UNCHANGED <<req, resp>>
  BY DEF FinishEmpty, FinishUnparsed, FinishOutOfMemory, FinishDecoded, Finish, Return,
         Drained, exchange
<1>2. CASE FinishEmpty \/ FinishUnparsed \/ FinishOutOfMemory
  <2>1. body' \in {body, NoBody} /\ result' = "fail"
    BY <1>2 DEF FinishEmpty, FinishUnparsed, FinishOutOfMemory, Finish, Return, answer
  <2> QED
    BY <1>1, <2>1 DEF Contract!Fail
<1>3. CASE FinishDecoded
  <2>1. /\ body' = Decoded
        /\ result' = IF StatusRead \in 200..599 THEN "ok" ELSE "fail"
        /\ HasHeaders
    BY <1>3 DEF FinishDecoded, SetStatus, Finish, Return
  <2>2. Decoded.units \in 0..resp.units
    BY <1>1, <2>1, DecodedType DEF HttpInv, InCall
  <2>3. Decoded \in Contract!Beginnings
    BY <2>2 DEF Decoded, Contract!Beginnings
  <2>4. StatusRead = resp.status
    BY <2>1 DEF HasHeaders, StatusRead
  <2>5. CASE resp.status \in 200..599
    BY <1>1, <2>1, <2>3, <2>4, <2>5 DEF Contract!Succeed, Contract!InRange
  <2>6. CASE resp.status \notin 200..599
    BY <1>1, <2>1, <2>3, <2>4, <2>6 DEF Contract!Fail, Contract!InRange
  <2> QED
    BY <2>5, <2>6
<1> QED
  BY <1>2, <1>3

LEMMA StepsMeetContract == HttpInv /\ [Next]_vars => [Contract!Next]_(Contract!vars)
<1> SUFFICES ASSUME HttpInv, [Next]_vars PROVE [Contract!Next]_(Contract!vars)
  OBVIOUS
<1>1. CASE GetWithoutConnection
  <2>1. Contract!Refuse
    BY <1>1 DEF GetWithoutConnection, StartCall, Return, answer, Contract!Refuse,
                Contract!Call
  <2> QED
    BY <2>1 DEF Contract!Next
<1>2. CASE GetConnects
  <2>1. Contract!Begin
    BY <1>2 DEF GetConnects, StartCall, answer, Contract!Begin, Contract!Call
  <2> QED
    BY <2>1 DEF Contract!Next
<1>3. CASE SendFails \/ RecvFails \/ CloseAfterEnd
  <2>1. Contract!Fail
    BY <1>3 DEF SendFails, RecvFails, CloseAfterEnd, FailAndClose, Return, answer,
                exchange, Contract!Fail
  <2> QED
    BY <2>1 DEF Contract!Next
<1>4. CASE SendWouldBlock \/ RecvData \/ RecvEnd \/ PeerSends \/ Kernel
  BY <1>4 DEF SendWouldBlock, RecvData, RecvEnd, PeerSends, Kernel, answer, exchange,
              Contract!vars
<1>5. CASE FinishEmpty \/ FinishUnparsed \/ FinishOutOfMemory \/ FinishDecoded
  BY <1>5, FinishMeetsContract DEF Contract!Next
<1>6. CASE Destroy
  <2>1. Contract!Reset
    BY <1>6 DEF Destroy, Contract!Reset
  <2> QED
    BY <2>1 DEF Contract!Next
<1>7. CASE UNCHANGED vars
  BY <1>7 DEF vars, answer, exchange, Contract!vars
<1> QED
  BY <1>1, <1>2, <1>3, <1>4, <1>5, <1>6, <1>7 DEF Next, Continue, Receive

\* The HTTP client keeps the promise of HttpContract, whatever the peer
\* sends, withholds or cuts, and whatever the kernel and malloc do.
THEOREM MeetsContract == Spec => Contract!Spec
<1>1. Init => Contract!Init
  BY ContractInitially
<1>2. HttpInv /\ [Next]_vars => [Contract!Next]_(Contract!vars)
  BY StepsMeetContract
<1> QED
  BY <1>1, <1>2, HttpInvariance, PTL DEF Spec, Contract!Spec

=============================================================================
