---------------------------- MODULE HttpContract ----------------------------
(***************************************************************************)
(* What a caller of http_client_get may rely on, apart from how the HTTP   *)
(* client gets there: every call comes back, a call that returns 0 has     *)
(* stored the beginning of the answer to that very call, which had a       *)
(* status in range, and a call that fails has left the body of the last    *)
(* success alone, or dropped it, or stored an answer out of range.         *)
(*                                                                         *)
(* That the body is only the beginning of the answer is what the code      *)
(* gives: see SuccessIsComplete in HttpClient.                             *)
(***************************************************************************)
EXTENDS Integers

CONSTANTS
    Responses,    \* what servers may answer, with a status and body units
    MaxRequests,  \* bound: calls per client
    NoBody        \* there is no body

VARIABLES
    busy,    \* a call is under way
    req,     \* the number of the current or last call
    resp,    \* the server's answer to it
    body,    \* the body that the client holds: which call's, and how much
    result   \* what the last call returned

vars == <<busy, req, resp, body, result>>

InRange(status) == status \in 200..599

Beginnings == {[req |-> req, units |-> n] : n \in 0..resp.units}

Init ==
    /\ busy = FALSE
    /\ req = 0
    /\ resp \in Responses
    /\ body = NoBody
    /\ result = "none"

Call ==
    /\ ~busy
    /\ req < MaxRequests
    /\ req' = req + 1
    /\ resp' \in Responses

Begin ==
    /\ Call
    /\ busy' = TRUE
    /\ UNCHANGED <<body, result>>

\* The call fails before there is a connection.
Refuse ==
    /\ Call
    /\ result' = "fail"
    /\ UNCHANGED <<busy, body>>

Succeed ==
    /\ busy
    /\ InRange(resp.status)
    /\ body' \in Beginnings
    /\ busy' = FALSE /\ result' = "ok"
    /\ UNCHANGED <<req, resp>>

Fail ==
    /\ busy
    /\ body' \in {body, NoBody} \cup (IF InRange(resp.status) THEN {} ELSE Beginnings)
    /\ busy' = FALSE /\ result' = "fail"
    /\ UNCHANGED <<req, resp>>

\* The client is destroyed and another one created.
Reset ==
    /\ ~busy
    /\ req' = 0 /\ body' = NoBody /\ result' = "none"
    /\ UNCHANGED <<busy, resp>>

Next == Begin \/ Refuse \/ Succeed \/ Fail \/ Reset

Spec     == Init /\ [][Next]_vars
FairSpec == Spec /\ WF_vars(Succeed \/ Fail)

=============================================================================
