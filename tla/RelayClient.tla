---------------------------- MODULE RelayClient ----------------------------
(***************************************************************************)
(* The life of one RelayClient object (transport/relay.ts): the socket it   *)
(* owns, the connect / authenticate / register handshake, requests matched   *)
(* to replies by rid, the outbound queue with its flush loops, and the       *)
(* reconnect timer.  The relay and the network are external; they are        *)
(* modelled by the frames the client relies on.                              *)
(*                                                                           *)
(* JavaScript runs one event handler at a time, so one action is one event   *)
(* together with the promise continuations it releases.  Each flush loop is  *)
(* suspended at its `await this.request(...)', hence a loop IS the "send"    *)
(* request it waits for: two loops are two such records in `pending'.        *)
(***************************************************************************)
EXTENDS Integers, Sequences

CONSTANTS
    NumEnvelopes,     \* sendEnvelope calls; an envelope is its call's number
    MaxFaults,        \* drops, refusals, slow replies and failed attestations
    InitRegistered,   \* the relay already knows this handle
    Enforcing,        \* the relay demands an attestation from new handles
    UserStops         \* the app may call stop()

ASSUME RelayClientAssumption ==
    /\ NumEnvelopes \in Nat
    /\ MaxFaults \in Nat
    /\ InitRegistered \in BOOLEAN
    /\ Enforcing \in BOOLEAN
    /\ UserStops \in BOOLEAN

Envelopes == 1..NumEnvelopes

VARIABLES
    status,          \* RelayStatus
    closedByUser,
    ws,              \* this.ws is not null
    reconnectTimer,  \* armed
    heartbeat,       \* heartbeatTimer is running
    ridCounter,
    pending,         \* requests awaiting a reply, a timeout or the close
    outbound,        \* queue of unsent envelopes
    promise,         \* what each sendEnvelope caller has seen
    pendingChallenge,
    didTryRegister,
    attesting,       \* challenges with an attestProvider call under way
    rpc,             \* one turnCredentials / report / deregister caller
    sock,            \* readyState of the newest WebSocket
    nextSock,        \* sockets opened so far; also the newest one's challenge
    c2s, s2c,        \* frames in flight on it
    authed,          \* relay: this socket is authenticated
    registered,      \* relay: the handle is registered
    accepted,        \* relay: envelopes in order of first acceptance
    faults           \* faults spent, at most MaxFaults

client == <<status, closedByUser, ws, reconnectTimer, heartbeat>>
requests == <<ridCounter, pending, c2s>>
queue == <<outbound, promise>>
handshake == <<pendingChallenge, didTryRegister, attesting>>
relay == <<authed, registered, accepted>>
vars == <<client, requests, queue, handshake, rpc, sock, nextSock, s2c, relay, faults>>

RequestTypes == {"send", "register", "attested", "rpc"}
Request == [type : {"send"}, rid : Nat, arg : Envelopes]
           \cup [type : RequestTypes \ {"send"}, rid : Nat, arg : Nat]
ClientFrame == Request \cup [type : {"connect", "authenticate"}, rid : {0}, arg : Nat]
ServerFrame == [type : {"connected", "authenticated", "ok", "error",
                        "attestationRequired", "notRegistered"}, rid : Nat, arg : Nat]

TypeOK ==
    /\ status \in {"disconnected", "connecting", "reconnecting", "connected"}
    /\ closedByUser \in BOOLEAN
    /\ ws \in BOOLEAN
    /\ reconnectTimer \in BOOLEAN
    /\ heartbeat \in BOOLEAN
    /\ ridCounter \in Nat
    /\ pending \subseteq Request
    /\ outbound \in Seq(Envelopes)
    /\ promise \in [Envelopes -> {"none", "pending", "resolved", "rejected"}]
    /\ pendingChallenge \in Nat
    /\ didTryRegister \in BOOLEAN
    /\ attesting \subseteq Nat
    /\ rpc \in {"idle", "waiting", "released", "inflight", "done", "failed"}
    /\ sock \in {"none", "connecting", "open", "closing"}
    /\ nextSock \in Nat
    /\ c2s \in Seq(ClientFrame)
    /\ s2c \in Seq(ServerFrame)
    /\ authed \in BOOLEAN
    /\ registered \in BOOLEAN
    /\ accepted \in Seq(Envelopes)
    /\ faults \in Nat

Init ==
    /\ status = "disconnected" /\ closedByUser = FALSE /\ ws = FALSE
    /\ reconnectTimer = FALSE /\ heartbeat = FALSE
    /\ ridCounter = 0 /\ pending = {} /\ outbound = <<>>
    /\ promise = [e \in Envelopes |-> "none"]
    /\ pendingChallenge = 0 /\ didTryRegister = FALSE /\ attesting = {}
    /\ rpc = "idle"
    /\ sock = "none" /\ nextSock = 0 /\ c2s = <<>> /\ s2c = <<>>
    /\ authed = FALSE /\ registered = InitRegistered /\ accepted = <<>>
    /\ faults = 0

Elems(s) == {s[i] : i \in 1..Len(s)}
Fault == faults < MaxFaults /\ faults' = faults + 1

----------------------------------------------------------------------------
(* Sending.  `gone' is the set of requests settled by the same event.        *)

\* ws?.send: nothing happens without a socket, or on one that is closing.
Transmit(frame) ==
    c2s' = IF ws /\ sock = "open" THEN Append(c2s, frame) ELSE c2s

\* Fault: the counter is decremented before its first use.
Ask_CountsDown(type, arg, gone) ==
    LET r == [type |-> type, rid |-> ridCounter - 1, arg |-> arg]
    IN  /\ ridCounter' = ridCounter - 1
        /\ pending' = (pending \ gone) \cup {r}
        /\ Transmit(r)

Ask(type, arg, gone) ==
    LET r == [type |-> type, rid |-> ridCounter + 1, arg |-> arg]
    IN  /\ ridCounter' = ridCounter + 1
        /\ pending' = (pending \ gone) \cup {r}
        /\ Transmit(r)

AskNothing(gone) == pending' = pending \ gone /\ UNCHANGED <<ridCounter, c2s>>

\* Array.shift: no effect on an empty queue.
Shift(q) == IF q = <<>> THEN q ELSE Tail(q)

\* One turn of flushOutbound's loop over queue q: request its head or end.
FlushTurn(q, gone) ==
    IF q # <<>> THEN Ask("send", Head(q), gone) ELSE AskNothing(gone)

\* A promise settles once: a second resolve or reject has no effect.
Settle(e, outcome) ==
    promise' = [promise EXCEPT ![e] = IF @ = "pending" THEN outcome ELSE @]

\* stop(): the socket is told to close, its pending requests wait for onclose.
Halt ==
    /\ closedByUser' = TRUE
    /\ heartbeat' = FALSE
    /\ reconnectTimer' = FALSE
    /\ ws' = FALSE
    /\ status' = "disconnected"
    /\ sock' = IF ws THEN "closing" ELSE sock

\* Fault: a refused registration leaves the socket open.
CloseSocket_LeavesOpen == UNCHANGED <<sock, client>>

CloseSocket == sock' = (IF ws THEN "closing" ELSE sock) /\ UNCHANGED client

\* openSocket.  A reopened socket always has reconnectAttempts > 0.
OpenSocket ==
    /\ reconnectTimer' = FALSE
    /\ status' = IF nextSock > 0 THEN "reconnecting" ELSE "connecting"
    /\ ws' = TRUE
    /\ sock' = "connecting"
    /\ nextSock' = nextSock + 1
    /\ UNCHANGED <<closedByUser, heartbeat, requests, queue, handshake, rpc,
                   s2c, relay, faults>>

----------------------------------------------------------------------------
(* Calls of the application.                                                 *)

Start == nextSock = 0 /\ ~closedByUser /\ OpenSocket

Stop ==
    /\ UserStops /\ nextSock > 0 /\ ~closedByUser
    /\ Halt
    /\ UNCHANGED <<requests, queue, handshake, rpc, nextSock, s2c, relay, faults>>

\* The k-th call of sendEnvelope.  When connected it starts one more loop,
\* which requests the head of the queue, whoever else is waiting for it.
SendEnvelope(e) ==
    /\ promise[e] = "none"
    /\ \A d \in 1..(e - 1) : promise[d] # "none"
    /\ outbound' = Append(outbound, e)
    /\ promise' = [promise EXCEPT ![e] = "pending"]
    /\ IF status = "connected" THEN FlushTurn(Append(outbound, e), {})
                               ELSE AskNothing({})
    /\ UNCHANGED <<client, handshake, rpc, sock, nextSock, s2c, relay, faults>>

RpcCall ==
    /\ rpc = "idle"
    /\ rpc' = IF status = "connected" THEN "released" ELSE "waiting"
    /\ UNCHANGED <<client, requests, queue, handshake, sock, nextSock, s2c, relay, faults>>

\* ensureReady's own timer.
RpcReadyTimeout ==
    /\ rpc = "waiting"
    /\ rpc' = "failed"
    /\ UNCHANGED <<client, requests, queue, handshake, sock, nextSock, s2c, relay, faults>>

RpcRequest ==
    /\ rpc = "released"
    /\ sock # "connecting"
    /\ rpc' = "inflight"
    /\ Ask("rpc", 0, {})
    /\ UNCHANGED <<client, queue, handshake, sock, nextSock, s2c, relay, faults>>

\* WebSocket.send throws while the socket is connecting: the request rejects.
RpcRequestThrows ==
    /\ rpc = "released"
    /\ sock = "connecting"
    /\ rpc' = "failed"
    /\ UNCHANGED <<client, requests, queue, handshake, sock, nextSock, s2c, relay, faults>>

----------------------------------------------------------------------------
(* Socket events.                                                            *)

SocketOpens ==
    /\ sock = "connecting"
    /\ sock' = "open"
    /\ c2s' = Append(c2s, [type |-> "connect", rid |-> 0, arg |-> 0])
    /\ UNCHANGED <<client, ridCounter, pending, queue, handshake, rpc, nextSock,
                   s2c, relay, faults>>

\* ws.onerror: the handler closes the socket, onclose follows.
SocketError ==
    /\ sock \in {"connecting", "open"}
    /\ Fault
    /\ CloseSocket
    /\ UNCHANGED <<requests, queue, handshake, rpc, nextSock, s2c, relay>>

\* The effect of onClose when `stopped' says whether the client ends here,
\* `rearm' whether a reconnect is scheduled, `call' what the rpc caller sees.
Close(stopped, rearm, call) ==
    /\ pending' = {}
    /\ closedByUser' = stopped
    /\ status' = IF stopped THEN "disconnected" ELSE "reconnecting"
    /\ reconnectTimer' = rearm
    /\ heartbeat' = FALSE
    /\ ws' = FALSE
    /\ rpc' = call
    /\ sock' = "none" /\ c2s' = <<>> /\ s2c' = <<>> /\ authed' = FALSE
    /\ UNCHANGED <<ridCounter, queue, handshake, nextSock, registered, accepted>>

AttestedCutOff == \E p \in pending : p.type = "attested"

\* Fault: pending requests are cleared without being rejected.
OnClose_ForgetsPending ==
    Close(closedByUser \/ AttestedCutOff, ~(closedByUser \/ AttestedCutOff), rpc)

\* onClose.  Every pending request rejects; the loops see status # "connected"
\* and return, keeping the queue; an attested registration that was cut off
\* reports AttestationFailed, on which the app stops this client.
OnClose ==
    LET stopped == closedByUser \/ AttestedCutOff
    IN  Close(stopped, ~stopped, IF rpc = "inflight" THEN "failed" ELSE rpc)

SocketClosed == sock = "closing" /\ OnClose /\ UNCHANGED faults
NetworkDrop == sock \in {"connecting", "open"} /\ Fault /\ OnClose

ReconnectFires == reconnectTimer /\ ~closedByUser /\ OpenSocket

----------------------------------------------------------------------------
(* Frames from the relay.  A frame may still arrive while the socket closes. *)

Arrives(type) ==
    /\ sock \in {"open", "closing"}
    /\ s2c # <<>>
    /\ Head(s2c).type = type
    /\ s2c' = Tail(s2c)

SendAuthenticate(challenge) ==
    Transmit([type |-> "authenticate", rid |-> 0, arg |-> challenge])

OnConnected ==
    /\ Arrives("connected")
    /\ pendingChallenge' = Head(s2c).arg
    /\ didTryRegister' = FALSE
    /\ SendAuthenticate(Head(s2c).arg)
    /\ UNCHANGED <<client, ridCounter, pending, queue, attesting, rpc, sock, nextSock,
                   relay, faults>>

OnAuthenticated ==
    /\ Arrives("authenticated")
    /\ status' = "connected"
    /\ heartbeat' = TRUE
    /\ rpc' = IF rpc = "waiting" THEN "released" ELSE rpc
    /\ FlushTurn(outbound, {})
    /\ UNCHANGED <<closedByUser, ws, reconnectTimer, queue, handshake, sock, nextSock,
                   relay, faults>>

\* registerThenAuthenticate, up to its request.
OnNotRegistered ==
    /\ Arrives("notRegistered")
    /\ IF didTryRegister THEN AskNothing({}) /\ UNCHANGED didTryRegister
                         ELSE Ask("register", 0, {}) /\ didTryRegister' = TRUE
    /\ UNCHANGED <<client, queue, pendingChallenge, attesting, rpc, sock, nextSock,
                   relay, faults>>

\* Fault: the item to settle is read again after the await.
SendResolved_SettlesHead(p) ==
    /\ outbound' = Shift(outbound)
    /\ IF outbound = <<>> THEN UNCHANGED promise ELSE Settle(Head(outbound), "resolved")
    /\ IF status = "connected" THEN FlushTurn(Shift(outbound), {p})
                               ELSE AskNothing({p})

\* flushOutbound after its await: shift() removes the CURRENT head, whatever
\* item this loop sent.
SendResolved(p) ==
    /\ outbound' = Shift(outbound)
    /\ Settle(p.arg, "resolved")
    /\ IF status = "connected" THEN FlushTurn(Shift(outbound), {p})
                               ELSE AskNothing({p})

\* The continuations of a request p that resolved.
Resolved(p) ==
    \/ p.type = "send" /\ SendResolved(p) /\ UNCHANGED rpc
    \/ /\ p.type \in {"register", "attested"}
       /\ SendAuthenticate(pendingChallenge)
       /\ pending' = pending \ {p}
       /\ UNCHANGED <<ridCounter, queue, rpc>>
    \/ /\ p.type = "rpc"
       /\ rpc' = "done"
       /\ AskNothing({p})
       /\ UNCHANGED queue

OnOk ==
    /\ Arrives("ok")
    /\ \/ \E p \in pending : p.rid = Head(s2c).rid /\ Resolved(p)
       \/ /\ \A p \in pending : p.rid # Head(s2c).rid
          /\ UNCHANGED <<requests, queue, rpc>>
    /\ UNCHANGED <<client, handshake, sock, nextSock, relay, faults>>

\* Fault: the refused item is rejected but stays queued.
SendRejected_KeepsHead(p) ==
    IF status = "connected"
    THEN /\ Settle(p.arg, "rejected")
         /\ FlushTurn(outbound, {p})
         /\ UNCHANGED outbound
    ELSE UNCHANGED queue /\ AskNothing({p})

\* flushOutbound's catch: offline keeps the item, online drops it and goes on.
SendRejected(p) ==
    IF status = "connected"
    THEN /\ outbound' = Shift(outbound)
         /\ Settle(p.arg, "rejected")
         /\ FlushTurn(Shift(outbound), {p})
    ELSE UNCHANGED queue /\ AskNothing({p})

\* The continuations of a request p that was refused or timed out.
Rejected(p, code) ==
    \/ p.type = "send" /\ SendRejected(p) /\ UNCHANGED <<client, sock, attesting, rpc>>
    \/ /\ p.type = "register" /\ code = "attestationRequired"
       /\ attesting' = attesting \cup {pendingChallenge}
       /\ AskNothing({p})
       /\ UNCHANGED <<client, sock, queue, rpc>>
    \/ /\ p.type = "register" /\ code # "attestationRequired"
       /\ CloseSocket
       /\ AskNothing({p})
       /\ UNCHANGED <<queue, attesting, rpc>>
    \/ /\ p.type = "attested"
       /\ Halt
       /\ AskNothing({p})
       /\ UNCHANGED <<queue, attesting, rpc>>
    \/ /\ p.type = "rpc"
       /\ rpc' = "failed"
       /\ AskNothing({p})
       /\ UNCHANGED <<client, sock, queue, attesting>>

OnError ==
    /\ \/ Arrives("error")
       \/ Arrives("attestationRequired")
    /\ \/ \E p \in pending : p.rid = Head(s2c).rid /\ Rejected(p, Head(s2c).type)
       \/ /\ \A p \in pending : p.rid # Head(s2c).rid
          /\ UNCHANGED <<client, sock, requests, queue, attesting, rpc>>
    /\ UNCHANGED <<pendingChallenge, didTryRegister, nextSock, relay, faults>>

\* No reply can come any more: the frame was never transmitted.
Unanswerable(p) ==
    /\ p \notin Elems(c2s)
    /\ \A i \in 1..Len(s2c) : s2c[i].rid # p.rid

\* The request's own timer: a fault when the relay is merely slow.
RequestTimeout(p) ==
    /\ IF Unanswerable(p) THEN UNCHANGED faults ELSE Fault
    /\ Rejected(p, "error")
    /\ UNCHANGED <<pendingChallenge, didTryRegister, nextSock, s2c, relay>>

----------------------------------------------------------------------------
(* The answer of attestProvider(challenge), whatever socket is current.      *)

AttestSucceeds(challenge) ==
    /\ challenge \in attesting
    /\ attesting' = attesting \ {challenge}
    /\ IF ws /\ sock = "connecting"
       THEN Halt /\ AskNothing({})
       ELSE Ask("attested", challenge, {}) /\ UNCHANGED <<client, sock>>
    /\ UNCHANGED <<queue, pendingChallenge, didTryRegister, rpc, nextSock, s2c, relay, faults>>

AttestFails(challenge) ==
    /\ challenge \in attesting
    /\ attesting' = attesting \ {challenge}
    /\ Fault
    /\ Halt
    /\ UNCHANGED <<requests, queue, pendingChallenge, didTryRegister, rpc, nextSock, s2c, relay>>

----------------------------------------------------------------------------
(* The relay (external): it takes frames in order and answers each.          *)

Answer(type, rid, arg) ==
    s2c' = Append(s2c, [type |-> type, rid |-> rid, arg |-> arg])

Serve(frame) ==
    \/ /\ frame.type = "connect"
       /\ Answer("connected", 0, nextSock)
       /\ UNCHANGED <<relay, faults>>
    \/ /\ frame.type = "authenticate" /\ frame.arg = nextSock
       /\ authed' = registered
       /\ Answer(IF registered THEN "authenticated" ELSE "notRegistered", 0, 0)
       /\ UNCHANGED <<registered, accepted, faults>>
    \/ /\ frame.type = "authenticate" /\ frame.arg # nextSock
       /\ Answer("error", 0, 0)
       /\ UNCHANGED <<relay, faults>>
    \/ /\ frame.type \in {"register", "attested"}
       /\ frame.type = "attested" => frame.arg = nextSock
       /\ frame.type = "register" => (registered \/ ~Enforcing)
       /\ registered' = TRUE
       /\ Answer("ok", frame.rid, 0)
       /\ UNCHANGED <<authed, accepted, faults>>
    \/ /\ frame.type = "register" /\ ~registered /\ Enforcing
       /\ Answer("attestationRequired", frame.rid, 0)
       /\ UNCHANGED <<relay, faults>>
    \/ /\ frame.type = "attested" /\ frame.arg # nextSock
       /\ Answer("error", frame.rid, 0)
       /\ UNCHANGED <<relay, faults>>
    \/ /\ frame.type = "send" /\ authed
       /\ accepted' = IF frame.arg \in Elems(accepted) THEN accepted
                                                       ELSE Append(accepted, frame.arg)
       /\ Answer("ok", frame.rid, 0)
       /\ UNCHANGED <<authed, registered, faults>>
    \/ /\ frame.type = "rpc"
       /\ Answer("ok", frame.rid, 0)
       /\ UNCHANGED <<relay, faults>>
    \/ /\ frame.type = "send" /\ ~authed
       /\ Answer("error", frame.rid, 0)
       /\ UNCHANGED <<relay, faults>>
    \/ /\ frame.type \in RequestTypes
       /\ Fault
       /\ Answer("error", frame.rid, 0)
       /\ UNCHANGED relay

RelayServes ==
    /\ sock \in {"open", "closing"}
    /\ c2s # <<>>
    /\ c2s' = Tail(c2s)
    /\ Serve(Head(c2s))
    /\ UNCHANGED <<client, ridCounter, pending, queue, handshake, rpc, sock, nextSock>>

----------------------------------------------------------------------------
Application == \/ Start \/ Stop \/ RpcCall \/ RpcReadyTimeout \/ RpcRequest \/ RpcRequestThrows
               \/ \E e \in Envelopes : SendEnvelope(e)
SocketEvents == \/ SocketOpens \/ SocketError \/ SocketClosed \/ NetworkDrop \/ ReconnectFires
Frames == \/ OnConnected \/ OnAuthenticated \/ OnNotRegistered \/ OnOk \/ OnError
Timers == \E p \in pending : RequestTimeout(p)
Attestation == \E c \in attesting : AttestSucceeds(c) \/ AttestFails(c)

Next == Application \/ SocketEvents \/ Frames \/ Timers \/ Attestation \/ RelayServes

Spec == Init /\ [][Next]_vars

\* Sockets open or close, the relay answers, timers fire, and the application
\* starts the client.  Nothing obliges a fault, a stop() or a send to happen.
Fairness ==
    /\ WF_vars(Start)
    /\ WF_vars(SocketOpens) /\ WF_vars(SocketClosed) /\ WF_vars(ReconnectFires)
    /\ WF_vars(Frames) /\ WF_vars(RelayServes)
    /\ WF_vars(\E p \in pending : Unanswerable(p) /\ RequestTimeout(p))
    /\ WF_vars(\E c \in attesting : AttestSucceeds(c))
    /\ WF_vars(RpcReadyTimeout) /\ WF_vars(RpcRequest) /\ WF_vars(RpcRequestThrows)

FairSpec == Spec /\ Fairness
----------------------------------------------------------------------------
(* Properties.                                                               *)

\* The client implements the contract of sendEnvelope: calls, first acceptances
\* in call order, success only after acceptance, one answer per call.
Contract == INSTANCE SendContract WITH
    NumEnvelopes <- NumEnvelopes, promise <- promise, accepted <- accepted
ImplementsContract == Contract!Spec

Sorted(q) == \A i, j \in 1..Len(q) : i < j => q[i] < q[j]

\* A sendEnvelope caller that sees success has an envelope the relay accepted,
\* although several loops request the same head and shift each other's items.
ResolvedWasAccepted ==
    \A e \in Envelopes : promise[e] = "resolved" => e \in Elems(accepted)

\* The relay first accepts envelopes in the order of the sendEnvelope calls,
\* across loops, reconnects, refusals and timeouts.
AcceptedInOrder == Sorted(accepted)

\* The queue never holds an envelope whose caller was already answered: such an
\* item would be sent again by the next flush.
QueueOnlyUnsettled == \A e \in Elems(outbound) : promise[e] = "pending"

\* A client that was not stopped always has something that will move it on: a
\* reconnect timer exactly when it has no socket (armed with one, it would open
\* a second and orphan the first), a handshake step on an open one.
NeverWedged ==
    nextSock > 0 /\ ~closedByUser =>
        /\ sock = "none" <=> reconnectTimer
        /\ sock = "open" /\ status # "connected" =>
              \/ c2s # <<>> \/ s2c # <<>>
              \/ \E p \in pending : p.type \in {"register", "attested"}
              \/ nextSock \in attesting

\* When faults cease the client gets, and stays, online, unless it was stopped.
EventuallyOnline == <>[](status = "connected" \/ closedByUser)

\* ... and drains its queue.
QueueDrains == <>[](outbound = <<>> \/ closedByUser)

\* A caller of turnCredentials, report or deregister is always answered.
RpcSettles == rpc = "waiting" ~> rpc \in {"done", "failed"}

\* Nothing the app asked of the relay stays open once faults cease: the client
\* comes back online, drains its queue and answers every request.
NothingStaysOpen == EventuallyOnline /\ QueueDrains /\ RpcSettles

\* What sendEnvelope's comment promises: an envelope not yet accepted is queued
\* while offline, to be flushed on reconnect.
QueuedWhileOffline ==
    sock = "none" => \A e \in Envelopes : promise[e] = "pending" => e \in Elems(outbound)

\* What registerWithAttestation's comment promises: the attestation a socket
\* carries is bound to that socket's challenge.
AttestationBoundToSocket ==
    \A f \in Elems(c2s) : f.type = "attested" => f.arg = nextSock

----------------------------------------------------------------------------
(* The inductive invariant behind the safety theorems.  Whatever is in        *)
(* flight, on the wire or accepted is at or before the head of the queue.     *)

\* Calls happen in order.
CallsInOrder ==
    \A d, e \in Envelopes : d < e /\ promise[e] # "none" => promise[d] # "none"

\* No send request of set R is behind an element of queue q.
NotBehind(R, q) == \A f \in R, e \in Elems(q) : f.type = "send" => f.arg <= e

Called(R) == \A f \in R : f.type = "send" => promise[f.arg] # "none"

\* Frames leave in queue order.
WireSorted(w) ==
    \A i, j \in 1..Len(w) :
        i < j /\ w[i].type = "send" /\ w[j].type = "send" => w[i].arg <= w[j].arg

AcceptedFirst ==
    \A a \in Elems(accepted) :
        /\ promise[a] # "none"
        /\ \A e \in Elems(outbound) : a <= e
        /\ \A f \in Elems(c2s) : f.type = "send" => a <= f.arg

\* A rid names one request.
RidsUnique ==
    /\ \A p \in pending : p.rid <= ridCounter
    /\ \A f \in Elems(c2s) : f.rid <= ridCounter
    /\ \A m \in Elems(s2c) : m.rid <= ridCounter
    /\ \A p \in pending : p.rid >= 1
    /\ \A p, q \in pending : p.rid = q.rid => p = q
    /\ \A p \in pending, f \in Elems(c2s) : p.rid = f.rid => p = f

\* An ok that answers a send request means the relay has the envelope.
RepliesTrue ==
    \A p \in pending, m \in Elems(s2c) :
        p.type = "send" /\ m.type = "ok" /\ m.rid = p.rid => p.arg \in Elems(accepted)

IInv ==
    /\ CallsInOrder
    /\ Sorted(outbound)
    /\ QueueOnlyUnsettled
    /\ NotBehind(pending, outbound) /\ Called(pending)
    /\ NotBehind(Elems(c2s), outbound) /\ Called(Elems(c2s))
    /\ WireSorted(c2s)
    /\ AcceptedFirst
    /\ AcceptedInOrder
    /\ RidsUnique
    /\ RepliesTrue
    /\ ResolvedWasAccepted
=============================================================================
