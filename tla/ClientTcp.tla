------------------------------ MODULE ClientTcp ------------------------------
(***************************************************************************)
(* The TCP client (src/src/network/client_tcp.c): one descriptor and a     *)
(* connection state, over the kernel's non-blocking sockets.               *)
(*                                                                         *)
(* Each operation is one action per outcome that the kernel may choose.    *)
(* The kernel and the peer move between them.  HttpClient calls the same   *)
(* actions in the order http_client_get does.                              *)
(***************************************************************************)
EXTENDS Integers

CONSTANT Fds  \* descriptors the kernel may hand out

ASSUME FdsAssumption == Fds \subseteq Nat

VARIABLES
    fd,       \* tcp->fd, -1 when there is none
    state,    \* tcp->state
    sockets   \* the kernel's side of each descriptor

tcpVars == <<fd, state, sockets>>

States       == {"DISCONNECTED", "CONNECTING", "CONNECTED"}
SocketStates == {"free", "connecting", "connected", "fin", "reset"}
Open         == {d \in Fds : sockets[d] # "free"}

TcpInit ==
    /\ fd = -1
    /\ state = "DISCONNECTED"
    /\ sockets = [d \in Fds |-> "free"]

-----------------------------------------------------------------------------
(* client_tcp_connect_async.  Only the first address is tried, and         *)
(* timeout_ms is not used.                                                 *)

\* A failure leaves no trace: the client already has a descriptor, no
\* address or socket is found, or connect fails and the socket is closed.
ConnectFails == UNCHANGED tcpVars

ConnectInto(d, kernel, st) ==
    /\ fd = -1
    /\ d \notin Open
    /\ fd' = d
    /\ state' = st
    /\ sockets' = [sockets EXCEPT ![d] = kernel]

\* connect returns 0 at once.
ConnectNow == \E d \in Fds : ConnectInto(d, "connected", "CONNECTED")

ConnectForgetsState == \E d \in Fds : ConnectInto(d, "connecting", state)

\* connect is in progress: the caller gets 1 and the descriptor is kept.
ConnectInProgress == \E d \in Fds : ConnectInto(d, "connecting", "CONNECTING")

\* client_tcp_send_async reaches the kernel only past its guard.
CanSend == fd # -1 /\ state = "CONNECTED"

\* client_tcp_recv at the end of the peer's stream: -1, and the descriptor
\* stays open.
RecvFin ==
    /\ fd # -1
    /\ sockets[fd] = "fin"
    /\ state' = "DISCONNECTED"
    /\ UNCHANGED <<fd, sockets>>

CloseKeepsSocket ==
    /\ fd # -1
    /\ fd' = -1
    /\ UNCHANGED <<state, sockets>>

\* client_tcp_close: the state is left as it was.
Close ==
    \/ /\ fd # -1
       /\ sockets' = [sockets EXCEPT ![fd] = "free"]
       /\ fd' = -1
       /\ UNCHANGED state
    \/ /\ fd = -1
       /\ UNCHANGED tcpVars

\* client_tcp_destroy, and the client_tcp_create of the next client.
Recreate ==
    /\ sockets' = [d \in Fds |-> IF d = fd THEN "free" ELSE sockets[d]]
    /\ fd' = -1
    /\ state' = "DISCONNECTED"

-----------------------------------------------------------------------------
(* The kernel and the peer.                                                *)

Moves(from, to) ==
    /\ \E d \in Fds :
         /\ sockets[d] \in from
         /\ sockets' = [sockets EXCEPT ![d] = to]
    /\ UNCHANGED <<fd, state>>

Establish == Moves({"connecting"}, "connected")
PeerFin   == Moves({"connected"}, "fin")
PeerReset == Moves({"connecting", "connected", "fin"}, "reset")

TcpNext ==
    \/ ConnectFails \/ ConnectNow \/ ConnectInProgress
    \/ RecvFin \/ Close \/ Recreate
    \/ Establish \/ PeerFin \/ PeerReset

TcpSpec == TcpInit /\ [][TcpNext]_tcpVars

-----------------------------------------------------------------------------
(* Properties                                                              *)

\* Every variable has its type.
TcpTypeOK ==
    /\ fd \in Fds \cup {-1}
    /\ state \in States
    /\ sockets \in [Fds -> SocketStates]

\* The one descriptor the client remembers is the one it has open, whatever
\* mixture of connects in progress, failures and closes came before: none
\* leaks and none is used after its close.
NoDescriptorLost == Open = (IF fd = -1 THEN {} ELSE {fd})

\* The guard of send is enough although close never resets the state: a
\* CONNECTED left over from an earlier connection is never taken for the
\* state of a socket whose handshake is still under way.
SendsOnlyWhenConnected == CanSend => sockets[fd] # "connecting"

=============================================================================
