------------------------- MODULE RelayClientProofs -------------------------
(***************************************************************************)
(* Theorems about RelayClient for every number of envelopes and faults: its  *)
(* state is well typed, it implements SendContract (the inductive invariant  *)
(* IInv and the step simulation), and a client that is not stopped is never  *)
(* without a way on (HandshakeInv).                                          *)
(***************************************************************************)
EXTENDS RelayClient, TLAPS

\* The elements of a queue after push, shift and array consumption.
LEMMA ElemsAppend ==
    ASSUME NEW S, NEW s \in Seq(S), NEW x \in S
    PROVE  /\ Append(s, x) \in Seq(S)
           /\ Elems(Append(s, x)) = Elems(s) \cup {x}
BY DEF Elems

LEMMA ElemsTail ==
    ASSUME NEW S, NEW s \in Seq(S), s # <<>>
    PROVE  /\ Head(s) \in S /\ Head(s) \in Elems(s)
           /\ Tail(s) \in Seq(S)
           /\ Elems(Tail(s)) \subseteq Elems(s)
           /\ Len(Tail(s)) = Len(s) - 1
           /\ \A i \in 1..Len(Tail(s)) : Tail(s)[i] = s[i + 1]
BY DEF Elems

LEMMA HeadType ==
    ASSUME NEW S, NEW s \in Seq(S), s # <<>>
    PROVE  Head(s) \in S
OBVIOUS

LEMMA ShiftType ==
    ASSUME NEW S, NEW s \in Seq(S)
    PROVE  Shift(s) \in Seq(S) /\ Elems(Shift(s)) \subseteq Elems(s)
BY ElemsTail DEF Shift

----------------------------------------------------------------------------
(* Type correctness.                                                         *)

LEMMA TransmitType ==
    ASSUME TypeOK, NEW f \in ClientFrame, Transmit(f)
    PROVE  c2s' \in Seq(ClientFrame)
BY DEF TypeOK, Transmit

LEMMA AskType ==
    ASSUME TypeOK, NEW type \in RequestTypes, NEW arg \in Nat, NEW gone,
           type = "send" => arg \in Envelopes,
           Ask(type, arg, gone)
    PROVE  ridCounter' \in Nat /\ pending' \subseteq Request /\ c2s' \in Seq(ClientFrame)
<1> DEFINE r == [type |-> type, rid |-> ridCounter + 1, arg |-> arg]
<1>1. r \in Request
  BY DEF TypeOK, Request, RequestTypes
<1>2. r \in ClientFrame
  BY <1>1 DEF ClientFrame
<1>3. Transmit(r)
  BY DEF Ask
<1>4. c2s' \in Seq(ClientFrame)
  BY <1>2, <1>3, TransmitType
<1>5. QED
  BY <1>1, <1>4 DEF Ask, TypeOK

LEMMA AskNothingType ==
    ASSUME TypeOK, NEW gone, AskNothing(gone)
    PROVE  ridCounter' \in Nat /\ pending' \subseteq Request /\ c2s' \in Seq(ClientFrame)
BY DEF TypeOK, AskNothing

LEMMA FlushTurnType ==
    ASSUME TypeOK, NEW q \in Seq(Envelopes), NEW gone, FlushTurn(q, gone)
    PROVE  ridCounter' \in Nat /\ pending' \subseteq Request /\ c2s' \in Seq(ClientFrame)
<1>1. CASE q = <<>>
  BY <1>1, AskNothingType DEF FlushTurn
<1>2. CASE q # <<>>
  <2>0. Head(q) \in Envelopes
    BY <1>2, HeadType
  <2>1. Head(q) \in Nat
    BY <2>0, RelayClientAssumption DEF Envelopes
  <2>2. Ask("send", Head(q), gone)
    BY <1>2 DEF FlushTurn
  <2>3. QED
    BY <2>0, <2>1, <2>2, AskType DEF RequestTypes
<1>3. QED
  BY <1>1, <1>2

LEMMA SettleType ==
    ASSUME TypeOK, NEW e, NEW outcome \in {"resolved", "rejected"}, Settle(e, outcome)
    PROVE  promise' \in [Envelopes -> {"none", "pending", "resolved", "rejected"}]
BY DEF TypeOK, Settle

LEMMA SendResolvedType ==
    ASSUME TypeOK, NEW p, SendResolved(p)
    PROVE  /\ ridCounter' \in Nat /\ pending' \subseteq Request /\ c2s' \in Seq(ClientFrame)
           /\ outbound' \in Seq(Envelopes)
           /\ promise' \in [Envelopes -> {"none", "pending", "resolved", "rejected"}]
<1>1. Shift(outbound) \in Seq(Envelopes)
  BY ShiftType DEF TypeOK
<1>2. ridCounter' \in Nat /\ pending' \subseteq Request /\ c2s' \in Seq(ClientFrame)
  BY <1>1, FlushTurnType, AskNothingType DEF SendResolved
<1>3. QED
  BY <1>1, <1>2, SettleType DEF SendResolved

LEMMA SendRejectedType ==
    ASSUME TypeOK, NEW p, SendRejected(p)
    PROVE  /\ ridCounter' \in Nat /\ pending' \subseteq Request /\ c2s' \in Seq(ClientFrame)
           /\ outbound' \in Seq(Envelopes)
           /\ promise' \in [Envelopes -> {"none", "pending", "resolved", "rejected"}]
<1>1. Shift(outbound) \in Seq(Envelopes)
  BY ShiftType DEF TypeOK
<1>2. ridCounter' \in Nat /\ pending' \subseteq Request /\ c2s' \in Seq(ClientFrame)
  BY <1>1, FlushTurnType, AskNothingType DEF SendRejected
<1>3. CASE status = "connected"
  BY <1>1, <1>2, <1>3, SettleType DEF SendRejected
<1>4. CASE status # "connected"
  BY <1>2, <1>4 DEF SendRejected, TypeOK, queue
<1>5. QED
  BY <1>3, <1>4

\* The frames the client sends outside of requests.
LEMMA AuthenticateType ==
    ASSUME TypeOK, NEW c \in Nat, SendAuthenticate(c)
    PROVE  c2s' \in Seq(ClientFrame)
<1>1. [type |-> "authenticate", rid |-> 0, arg |-> c] \in ClientFrame
  BY DEF ClientFrame
<1>2. QED
  BY <1>1, TransmitType DEF SendAuthenticate

LEMMA ResolvedType ==
    ASSUME TypeOK, NEW p, Resolved(p)
    PROVE  /\ ridCounter' \in Nat /\ pending' \subseteq Request /\ c2s' \in Seq(ClientFrame)
           /\ outbound' \in Seq(Envelopes)
           /\ promise' \in [Envelopes -> {"none", "pending", "resolved", "rejected"}]
           /\ rpc' \in {"idle", "waiting", "released", "inflight", "done", "failed"}
<1>1. CASE p.type = "send" /\ SendResolved(p) /\ UNCHANGED rpc
  BY <1>1, SendResolvedType DEF TypeOK
<1>2. CASE /\ p.type \in {"register", "attested"}
           /\ SendAuthenticate(pendingChallenge)
           /\ pending' = pending \ {p}
           /\ UNCHANGED <<ridCounter, queue, rpc>>
  BY <1>2, AuthenticateType DEF TypeOK, queue
<1>3. CASE p.type = "rpc" /\ rpc' = "done" /\ AskNothing({p}) /\ UNCHANGED queue
  BY <1>3, AskNothingType DEF TypeOK, queue
<1>4. QED
  BY <1>1, <1>2, <1>3 DEF Resolved

LEMMA RejectedType ==
    ASSUME TypeOK, NEW p, NEW code, Rejected(p, code),
           UNCHANGED <<pendingChallenge, didTryRegister, nextSock, relay>>,
           s2c' \in Seq(ServerFrame), faults' \in Nat
    PROVE  TypeOK'
<1> USE DEF TypeOK, relay
<1>1. CASE p.type = "send" /\ SendRejected(p) /\ UNCHANGED <<client, sock, attesting, rpc>>
  BY <1>1, SendRejectedType DEF client
<1>2. CASE /\ attesting' = attesting \cup {pendingChallenge}
           /\ AskNothing({p})
           /\ UNCHANGED <<client, sock, queue, rpc>>
  BY <1>2, AskNothingType DEF client, queue
<1>3. CASE CloseSocket /\ AskNothing({p}) /\ UNCHANGED <<queue, attesting, rpc>>
  BY <1>3, AskNothingType DEF client, queue, CloseSocket
<1>4. CASE Halt /\ AskNothing({p}) /\ UNCHANGED <<queue, attesting, rpc>>
  BY <1>4, AskNothingType DEF queue, Halt
<1>5. CASE rpc' = "failed" /\ AskNothing({p}) /\ UNCHANGED <<client, sock, queue, attesting>>
  BY <1>5, AskNothingType DEF client, queue
<1>6. QED
  BY <1>1, <1>2, <1>3, <1>4, <1>5 DEF Rejected

\* A frame from the relay leaves a well-typed channel and is itself well typed.
LEMMA ArrivesType ==
    ASSUME TypeOK, NEW type, Arrives(type)
    PROVE  s2c' \in Seq(ServerFrame) /\ Head(s2c) \in ServerFrame
BY ElemsTail DEF TypeOK, Arrives

\* What the relay answers, and what it accepts.
LEMMA ServeType ==
    ASSUME TypeOK, NEW f \in ClientFrame, Serve(f)
    PROVE  /\ s2c' \in Seq(ServerFrame)
           /\ authed' \in BOOLEAN /\ registered' \in BOOLEAN
           /\ accepted' \in Seq(Envelopes) /\ faults' \in Nat
<1>1. f.rid \in Nat /\ f.arg \in Nat
  BY DEF ClientFrame, Request, Envelopes
<1>2. f.type = "send" => f.arg \in Envelopes
  BY DEF ClientFrame, Request
<1>3. ASSUME NEW type \in {"connected", "authenticated", "ok", "error",
                            "attestationRequired", "notRegistered"},
             NEW rid \in Nat, NEW arg \in Nat, Answer(type, rid, arg)
      PROVE  s2c' \in Seq(ServerFrame)
  BY <1>3 DEF Answer, ServerFrame, TypeOK
<1>4. s2c' \in Seq(ServerFrame)
  <2>1. nextSock \in Nat /\ 0 \in Nat
    BY DEF TypeOK
  <2>2. QED
    BY <1>1, <1>3, <2>1 DEF Serve
<1>5. /\ authed' \in BOOLEAN
      /\ registered' \in BOOLEAN
      /\ faults' \in Nat
  <2>1. registered \in BOOLEAN /\ authed \in BOOLEAN
    BY DEF TypeOK
  <2>2. authed' \in {authed, registered}
    BY DEF Serve, relay
  <2>3. registered' \in {TRUE, registered}
    BY DEF Serve, relay
  <2>4. faults' \in Nat
    BY DEF Serve, TypeOK, Fault
  <2>5. QED
    BY <2>1, <2>2, <2>3, <2>4
<1>6. accepted' \in Seq(Envelopes)
  <2>1. accepted' = accepted \/ (f.type = "send" /\ accepted' = Append(accepted, f.arg))
    BY DEF Serve, relay
  <2>2. accepted \in Seq(Envelopes)
    BY DEF TypeOK
  <2>3. QED
    BY <1>2, <2>1, <2>2, ElemsAppend
<1>7. QED
  BY <1>4, <1>5, <1>6

\* openSocket, halting and closing keep the state well typed.
LEMMA OpenSocketType == TypeOK /\ OpenSocket => TypeOK'
<1> SUFFICES ASSUME TypeOK, OpenSocket PROVE TypeOK'
  OBVIOUS
<1>1. /\ closedByUser' \in BOOLEAN /\ ws' \in BOOLEAN /\ reconnectTimer' \in BOOLEAN
      /\ heartbeat' \in BOOLEAN /\ authed' \in BOOLEAN /\ registered' \in BOOLEAN
      /\ didTryRegister' \in BOOLEAN
  BY DEF TypeOK, OpenSocket, handshake, relay
<1>2. /\ status' \in {"disconnected", "connecting", "reconnecting", "connected"}
      /\ sock' \in {"none", "connecting", "open", "closing"}
      /\ nextSock' \in Nat
  BY DEF TypeOK, OpenSocket
<1>3. QED
  BY <1>1, <1>2 DEF TypeOK, OpenSocket, requests, queue, handshake, relay

LEMMA HaltType ==
    ASSUME TypeOK, Halt
    PROVE  /\ status' \in {"disconnected", "connecting", "reconnecting", "connected"}
           /\ closedByUser' \in BOOLEAN /\ ws' \in BOOLEAN
           /\ reconnectTimer' \in BOOLEAN /\ heartbeat' \in BOOLEAN
           /\ sock' \in {"none", "connecting", "open", "closing"}
BY DEF TypeOK, Halt

LEMMA OnCloseType == TypeOK /\ OnClose /\ faults' \in Nat => TypeOK'
<1> SUFFICES ASSUME TypeOK, OnClose, faults' \in Nat PROVE TypeOK'
  OBVIOUS
<1>1. closedByUser' \in BOOLEAN /\ reconnectTimer' \in BOOLEAN
  BY DEF TypeOK, OnClose, Close, AttestedCutOff
<1>2. /\ ws' \in BOOLEAN /\ heartbeat' \in BOOLEAN /\ authed' \in BOOLEAN
      /\ registered' \in BOOLEAN /\ didTryRegister' \in BOOLEAN
  BY DEF TypeOK, OnClose, Close, handshake
<1>3. /\ status' \in {"disconnected", "connecting", "reconnecting", "connected"}
      /\ rpc' \in {"idle", "waiting", "released", "inflight", "done", "failed"}
      /\ sock' \in {"none", "connecting", "open", "closing"}
  BY DEF TypeOK, OnClose, Close
<1>4. QED
  BY <1>1, <1>2, <1>3 DEF TypeOK, OnClose, Close, queue, handshake

LEMMA InitType == Init => TypeOK
<1> SUFFICES ASSUME Init PROVE TypeOK
  OBVIOUS
<1>1. /\ closedByUser \in BOOLEAN /\ ws \in BOOLEAN /\ reconnectTimer \in BOOLEAN
      /\ heartbeat \in BOOLEAN /\ didTryRegister \in BOOLEAN /\ authed \in BOOLEAN
      /\ registered \in BOOLEAN
  BY RelayClientAssumption DEF Init
<1>2. QED
  BY <1>1 DEF Init, TypeOK

LEMMA ApplicationType == TypeOK /\ Application => TypeOK'
<1> SUFFICES ASSUME TypeOK, Application PROVE TypeOK'
  OBVIOUS
<1> USE DEF client, requests, queue, handshake, relay
<1>1. CASE Start
  BY <1>1, OpenSocketType DEF Start
<1>2. CASE Stop
  BY <1>2 DEF Stop, Halt, TypeOK
<1>3. CASE RpcCall
  BY <1>3 DEF RpcCall, TypeOK
<1>4. CASE RpcReadyTimeout
  BY <1>4 DEF RpcReadyTimeout, TypeOK
<1>5. CASE RpcRequest
  BY <1>5, AskType DEF RpcRequest, TypeOK, RequestTypes
<1>6. CASE RpcRequestThrows
  BY <1>6 DEF RpcRequestThrows, TypeOK
<1>7. ASSUME NEW e \in Envelopes, SendEnvelope(e)
      PROVE  TypeOK'
  <2>1. outbound' \in Seq(Envelopes) /\ Append(outbound, e) \in Seq(Envelopes)
    BY <1>7 DEF SendEnvelope, TypeOK
  <2>2. ridCounter' \in Nat /\ pending' \subseteq Request /\ c2s' \in Seq(ClientFrame)
    BY <1>7, <2>1, FlushTurnType, AskNothingType DEF SendEnvelope
  <2>3. QED
    BY <1>7, <2>1, <2>2 DEF SendEnvelope, TypeOK
<1>8. QED
  BY <1>1, <1>2, <1>3, <1>4, <1>5, <1>6, <1>7 DEF Application

LEMMA SocketEventsType == TypeOK /\ SocketEvents => TypeOK'
<1> SUFFICES ASSUME TypeOK, SocketEvents PROVE TypeOK'
  OBVIOUS
<1>1. CASE SocketOpens
  <2>1. [type |-> "connect", rid |-> 0, arg |-> 0] \in ClientFrame
    BY DEF ClientFrame
  <2>2. QED
    BY <1>1, <2>1 DEF SocketOpens, TypeOK, client, queue, handshake, relay
<1>2. CASE SocketError
  BY <1>2 DEF SocketError, Fault, CloseSocket, TypeOK, client, requests, queue, handshake, relay
<1>3. CASE SocketClosed
  BY <1>3, OnCloseType DEF SocketClosed, TypeOK
<1>4. CASE NetworkDrop
  BY <1>4, OnCloseType DEF NetworkDrop, TypeOK, Fault
<1>5. CASE ReconnectFires
  BY <1>5, OpenSocketType DEF ReconnectFires
<1>6. QED
  BY <1>1, <1>2, <1>3, <1>4, <1>5 DEF SocketEvents

LEMMA FramesType == TypeOK /\ Frames => TypeOK'
<1> SUFFICES ASSUME TypeOK, Frames PROVE TypeOK'
  OBVIOUS
<1> USE DEF client, requests, queue, handshake, relay
<1>1. CASE OnConnected
  <2>1. s2c' \in Seq(ServerFrame) /\ Head(s2c).arg \in Nat
    BY <1>1, ArrivesType DEF OnConnected, ServerFrame
  <2>2. c2s' \in Seq(ClientFrame)
    BY <1>1, <2>1, AuthenticateType DEF OnConnected
  <2>3. didTryRegister' \in BOOLEAN
    BY <1>1 DEF OnConnected
  <2>4. QED
    BY <1>1, <2>1, <2>2, <2>3 DEF OnConnected, TypeOK
<1>2. CASE OnAuthenticated
  <2>1. s2c' \in Seq(ServerFrame)
    BY <1>2, ArrivesType DEF OnAuthenticated
  <2>2. ridCounter' \in Nat /\ pending' \subseteq Request /\ c2s' \in Seq(ClientFrame)
    BY <1>2, FlushTurnType DEF OnAuthenticated, TypeOK
  <2>3. QED
    BY <1>2, <2>1, <2>2 DEF OnAuthenticated, TypeOK
<1>3. CASE OnNotRegistered
  <2>1. s2c' \in Seq(ServerFrame)
    BY <1>3, ArrivesType DEF OnNotRegistered
  <2>2. ridCounter' \in Nat /\ pending' \subseteq Request /\ c2s' \in Seq(ClientFrame)
    BY <1>3, AskType, AskNothingType DEF OnNotRegistered, RequestTypes
  <2>3. didTryRegister' \in BOOLEAN
    BY <1>3 DEF OnNotRegistered, TypeOK
  <2>4. QED
    BY <1>3, <2>1, <2>2, <2>3 DEF OnNotRegistered, TypeOK
<1>4. CASE OnOk
  <2>1. s2c' \in Seq(ServerFrame)
    BY <1>4, ArrivesType DEF OnOk
  <2>2. ASSUME NEW p, Resolved(p)
        PROVE  TypeOK'
    BY <1>4, <2>1, <2>2, ResolvedType DEF OnOk, TypeOK
  <2>3. CASE UNCHANGED <<requests, queue, rpc>>
    BY <1>4, <2>1, <2>3 DEF OnOk, TypeOK
  <2>4. QED
    BY <1>4, <2>2, <2>3 DEF OnOk
<1>5. CASE OnError
  <2>1. s2c' \in Seq(ServerFrame) /\ faults' \in Nat
    BY <1>5, ArrivesType DEF OnError, TypeOK
  <2>2. ASSUME NEW p, Rejected(p, Head(s2c).type)
        PROVE  TypeOK'
    BY <1>5, <2>1, <2>2, RejectedType DEF OnError
  <2>3. CASE UNCHANGED <<client, sock, requests, queue, attesting, rpc>>
    BY <1>5, <2>1, <2>3 DEF OnError, TypeOK
  <2>4. QED
    BY <1>5, <2>2, <2>3 DEF OnError
<1>6. QED
  BY <1>1, <1>2, <1>3, <1>4, <1>5 DEF Frames

LEMMA TimersType == TypeOK /\ Timers => TypeOK'
<1> SUFFICES ASSUME TypeOK, NEW p \in pending, RequestTimeout(p) PROVE TypeOK'
  BY DEF Timers
<1>1. faults' \in Nat /\ s2c' \in Seq(ServerFrame)
  BY DEF RequestTimeout, Fault, TypeOK
<1>2. QED
  BY <1>1, RejectedType DEF RequestTimeout

LEMMA AttestationType == TypeOK /\ Attestation => TypeOK'
<1> SUFFICES ASSUME TypeOK, NEW c \in attesting, AttestSucceeds(c) \/ AttestFails(c)
             PROVE  TypeOK'
  BY DEF Attestation
<1> USE DEF client, requests, queue, relay
<1>0. c \in Nat
  BY DEF TypeOK
<1>1. CASE AttestSucceeds(c)
  <2>1. ridCounter' \in Nat /\ pending' \subseteq Request /\ c2s' \in Seq(ClientFrame)
    BY <1>0, <1>1, AskType, AskNothingType DEF AttestSucceeds, RequestTypes
  <2>2. CASE Halt
    BY <1>1, <2>1, <2>2, HaltType DEF AttestSucceeds, TypeOK
  <2>3. CASE UNCHANGED <<client, sock>>
    BY <1>1, <2>1, <2>3 DEF AttestSucceeds, TypeOK
  <2>4. QED
    BY <1>1, <2>2, <2>3 DEF AttestSucceeds
<1>2. CASE AttestFails(c)
  BY <1>2, HaltType DEF AttestFails, Fault, TypeOK
<1>3. QED
  BY <1>1, <1>2

LEMMA RelayServesType == TypeOK /\ RelayServes => TypeOK'
<1> SUFFICES ASSUME TypeOK, RelayServes PROVE TypeOK'
  OBVIOUS
<1>1. Head(c2s) \in ClientFrame /\ c2s' \in Seq(ClientFrame)
  BY ElemsTail DEF RelayServes, TypeOK
<1>2. Serve(Head(c2s))
  BY DEF RelayServes
<1>3. QED
  BY <1>1, <1>2, ServeType DEF RelayServes, TypeOK, client, queue, handshake

\* The state is well typed in every reachable state.
THEOREM TypeCorrect == Spec => []TypeOK
<1>1. Init => TypeOK
  BY InitType
<1>2. TypeOK /\ [Next]_vars => TypeOK'
  <2>1. TypeOK /\ UNCHANGED vars => TypeOK'
    BY DEF TypeOK, vars, client, requests, queue, handshake, relay
  <2>2. QED
    BY <2>1, ApplicationType, SocketEventsType, FramesType, TimersType, AttestationType,
       RelayServesType DEF Next
<1>3. QED
  BY <1>1, <1>2, PTL DEF Spec

----------------------------------------------------------------------------
(* What a client step does to the requests.                                  *)

\* At most one frame f leaves; if f is a request its rid is fresh.
WireStep(f) ==
    /\ f \in ClientFrame
    /\ c2s' = c2s \/ c2s' = Append(c2s, f)
    /\ \/ f.rid = 0 /\ pending' \subseteq pending /\ ridCounter' = ridCounter
       \/ /\ f.rid = ridCounter + 1 /\ ridCounter' = ridCounter + 1
          /\ pending' \subseteq pending \cup {f}

ConnectFrame == [type |-> "connect", rid |-> 0, arg |-> 0]

LEMMA QuietStep ==
    ASSUME TypeOK, NEW gone, AskNothing(gone)
    PROVE  WireStep(ConnectFrame) /\ ConnectFrame.type # "send"
<1>1. ConnectFrame \in ClientFrame
  BY DEF ConnectFrame, ClientFrame
<1>2. QED
  BY <1>1 DEF WireStep, AskNothing, ConnectFrame

LEMMA AskStep ==
    ASSUME TypeOK, NEW type \in RequestTypes, NEW arg \in Nat, NEW gone,
           type = "send" => arg \in Envelopes,
           Ask(type, arg, gone)
    PROVE  \E f : WireStep(f) /\ f.type = type /\ f.arg = arg
<1> DEFINE r == [type |-> type, rid |-> ridCounter + 1, arg |-> arg]
<1>1. r \in ClientFrame
  BY DEF TypeOK, Request, RequestTypes, ClientFrame
<1>2. c2s' = c2s \/ c2s' = Append(c2s, r)
  BY DEF Ask, Transmit
<1>3. WireStep(r)
  BY <1>1, <1>2 DEF Ask, WireStep
<1>4. QED
  BY <1>3

LEMMA AuthenticateStep ==
    ASSUME TypeOK, NEW c \in Nat, SendAuthenticate(c),
           pending' \subseteq pending, ridCounter' = ridCounter
    PROVE  \E f : WireStep(f) /\ f.type # "send"
<1> DEFINE f == [type |-> "authenticate", rid |-> 0, arg |-> c]
<1>1. f \in ClientFrame
  BY DEF ClientFrame
<1>2. WireStep(f)
  BY <1>1 DEF WireStep, SendAuthenticate, Transmit
<1>3. QED
  BY <1>2

\* A flush turn over q leaves the requests alone or asks for the head of q.
LEMMA FlushTurnStep ==
    ASSUME TypeOK, NEW q \in Seq(Envelopes), NEW gone, FlushTurn(q, gone)
    PROVE  \E f : WireStep(f) /\ (f.type = "send" => q # <<>> /\ f.arg = Head(q))
<1>1. CASE q = <<>>
  BY <1>1, QuietStep DEF FlushTurn
<1>2. CASE q # <<>>
  <2>1. Head(q) \in Envelopes /\ Head(q) \in Nat
    <3>1. Head(q) \in Envelopes
      BY <1>2, HeadType
    <3>2. QED
      BY <3>1, RelayClientAssumption DEF Envelopes
  <2>2. \E f : WireStep(f) /\ f.type = "send" /\ f.arg = Head(q)
    BY <1>2, <2>1, AskStep DEF FlushTurn, RequestTypes
  <2>3. QED
    BY <1>2, <2>2
<1>3. QED
  BY <1>1, <1>2

----------------------------------------------------------------------------
(* Wire invariants across a WireStep.                                        *)

WireInv ==
    /\ NotBehind(pending, outbound) /\ Called(pending)
    /\ NotBehind(Elems(c2s), outbound) /\ Called(Elems(c2s))
    /\ WireSorted(c2s)
    /\ AcceptedFirst
    /\ RidsUnique
    /\ RepliesTrue

\* f may leave: it is at the front of the queue and nothing sent is after it.
MayLeave(f) ==
    f.type = "send" =>
        /\ promise'[f.arg] # "none"
        /\ \A e \in Elems(outbound') : f.arg <= e
        /\ \A g \in Elems(c2s) : g.type = "send" => g.arg <= f.arg
        /\ \A a \in Elems(accepted) : a <= f.arg

LEMMA WireStepInv ==
    ASSUME TypeOK, WireInv, NEW f, WireStep(f), MayLeave(f),
           accepted' = accepted, Elems(s2c') \subseteq Elems(s2c),
           \A e \in Envelopes : promise[e] # "none" => promise'[e] # "none",
           NotBehind(pending, outbound'), NotBehind(Elems(c2s), outbound'),
           \A a \in Elems(accepted), e \in Elems(outbound') : a <= e
    PROVE  WireInv'
<1>1. Elems(c2s') \subseteq Elems(c2s) \cup {f}
  <2>1. c2s \in Seq(ClientFrame) /\ f \in ClientFrame
    BY DEF TypeOK, WireStep
  <2>2. Elems(Append(c2s, f)) = Elems(c2s) \cup {f}
    BY <2>1, ElemsAppend
  <2>3. QED
    BY <2>2 DEF WireStep
<1>2. pending' \subseteq pending \cup {f}
  BY DEF WireStep
<1>3. /\ \A g \in Elems(c2s) : g \in ClientFrame
      /\ \A p \in pending : p \in Request
      /\ \A a \in Elems(accepted) : a \in Envelopes
      /\ \A m \in Elems(s2c) : m.rid \in Nat
  <2>1. /\ \A g \in Elems(c2s) : g \in ClientFrame
        /\ \A a \in Elems(accepted) : a \in Envelopes
        /\ \A m \in Elems(s2c) : m \in ServerFrame
    BY DEF TypeOK, Elems
  <2>2. \A m \in ServerFrame : m.rid \in Nat
    BY DEF ServerFrame
  <2>3. QED
    BY <2>1, <2>2 DEF TypeOK
<1>4. \A g \in ClientFrame : g.rid \in Nat /\ (g.type = "send" => g.arg \in Envelopes)
  BY DEF ClientFrame, Request
<1>5. \A p \in Request : p.rid \in Nat /\ (p.type = "send" => p.arg \in Envelopes)
  BY DEF Request
<1>6. f \in ClientFrame /\ ridCounter \in Nat
  BY DEF WireStep, TypeOK
<1>7. NotBehind(pending', outbound') /\ Called(pending)'
  BY <1>2, <1>3, <1>5 DEF MayLeave, NotBehind, Called, WireInv
<1>8. NotBehind(Elems(c2s'), outbound') /\ Called(Elems(c2s))'
  BY <1>1, <1>3, <1>4 DEF MayLeave, NotBehind, Called, WireInv
<1>9. WireSorted(c2s')
  <2>1. CASE c2s' = c2s
    BY <2>1 DEF WireInv, WireSorted
  <2>2. CASE c2s' = Append(c2s, f)
    <3>1. /\ Len(c2s') = Len(c2s) + 1
          /\ c2s'[Len(c2s) + 1] = f
          /\ \A i \in 1..Len(c2s) : c2s'[i] = c2s[i] /\ c2s[i] \in Elems(c2s)
          /\ Len(c2s) \in Nat
      BY <2>2, <1>6 DEF TypeOK, Elems
    <3>2. \A i \in 1..Len(c2s) : c2s[i].type = "send" /\ f.type = "send" => c2s[i].arg <= f.arg
      BY <3>1 DEF MayLeave
    <3>3. QED
      BY <3>1, <3>2 DEF WireInv, WireSorted
  <2>3. QED
    BY <2>1, <2>2 DEF WireStep
<1>10. AcceptedFirst'
  <2>1. \A a \in Elems(accepted) : promise'[a] # "none"
    BY <1>3 DEF WireInv, AcceptedFirst
  <2>2. \A a \in Elems(accepted) : \A g \in Elems(c2s') : g.type = "send" => a <= g.arg
    BY <1>1 DEF WireInv, AcceptedFirst, MayLeave
  <2>3. QED
    BY <2>1, <2>2 DEF AcceptedFirst, Elems
<1>11. RidsUnique'
  <2>1. ridCounter' >= ridCounter /\ ridCounter' \in Nat /\ f.rid <= ridCounter'
    BY <1>6 DEF WireStep
  <2>2. /\ \A p \in pending' : p.rid <= ridCounter' /\ p.rid >= 1
        /\ \A g \in Elems(c2s') : g.rid <= ridCounter'
        /\ \A m \in Elems(s2c') : m.rid <= ridCounter'
    BY <1>1, <1>2, <1>3, <1>4, <1>5, <1>6, <2>1 DEF WireInv, RidsUnique, WireStep
  <2>3. \A p, q \in pending' : p.rid = q.rid => p = q
    BY <1>2, <1>3, <1>5, <1>6 DEF WireInv, RidsUnique, WireStep
  <2>4. \A p \in pending', g \in Elems(c2s') : p.rid = g.rid => p = g
    BY <1>1, <1>2, <1>3, <1>4, <1>5, <1>6 DEF WireInv, RidsUnique, WireStep
  <2>5. QED
    BY <2>2, <2>3, <2>4 DEF RidsUnique, Elems
<1>12. RepliesTrue'
  <2>1. \A p \in pending' : p \in pending \/ p.rid = ridCounter + 1
    BY DEF WireStep
  <2>2. \A m \in Elems(s2c) : m.rid # ridCounter + 1
    BY <1>3, <1>6 DEF WireInv, RidsUnique
  <2>3. QED
    BY <2>1, <2>2, ZenonT(30) DEF WireInv, RepliesTrue, Elems
<1>13. QED
  BY <1>7, <1>8, <1>9, <1>10, <1>11, <1>12 DEF WireInv, NotBehind, Called, WireSorted, Elems

----------------------------------------------------------------------------
(* Each step keeps IInv and is a contract step or a stutter.                 *)

CStep == \/ \E e \in Envelopes : \/ Contract!Call(e) \/ Contract!Accept(e)
                                 \/ Contract!Resolve(e) \/ Contract!Reject(e)
         \/ UNCHANGED <<promise, accepted>>

LEMMA Parts == IInv <=> /\ WireInv /\ CallsInOrder /\ Sorted(outbound)
                        /\ QueueOnlyUnsettled /\ AcceptedInOrder /\ ResolvedWasAccepted
BY DEF IInv, WireInv

LEMMA PartsNext ==
    ASSUME WireInv', CallsInOrder', Sorted(outbound)', QueueOnlyUnsettled',
           AcceptedInOrder', ResolvedWasAccepted'
    PROVE  IInv'
BY DEF IInv, WireInv

\* The head of a sorted queue is its least element.
LEMMA SortedHead ==
    ASSUME NEW q \in Seq(Envelopes), q # <<>>, Sorted(q)
    PROVE  Head(q) \in Elems(q) /\ \A d \in Elems(q) : Head(q) <= d
<1>1. Head(q) = q[1] /\ 1 \in 1..Len(q)
  OBVIOUS
<1>2. \A i \in 1..Len(q) : q[i] \in Int
  <2>1. \A i \in 1..Len(q) : q[i] \in Envelopes
    OBVIOUS
  <2>2. QED
    BY <2>1 DEF Envelopes
<1>3. \A i \in 1..Len(q) : q[1] <= q[i]
  BY <1>1, <1>2 DEF Sorted
<1>4. QED
  BY <1>1, <1>3 DEF Elems

\* Every element after the head is greater than it.
LEMMA SortedShift ==
    ASSUME NEW q \in Seq(Envelopes), Sorted(q)
    PROVE  /\ Sorted(Shift(q))
           /\ \A d \in Elems(Shift(q)) : q # <<>> /\ Head(q) < d
<1>1. CASE q = <<>>
  BY <1>1 DEF Shift, Elems
<1>2. CASE q # <<>>
  <2>1. /\ Head(q) = q[1] /\ 1 \in 1..Len(q) /\ Len(q) \in Nat
        /\ Shift(q) = Tail(q)
        /\ Len(Tail(q)) = Len(q) - 1
        /\ \A i \in 1..Len(Tail(q)) : Tail(q)[i] = q[i + 1]
    BY <1>2, ElemsTail DEF Shift
  <2>2. \A i \in 1..Len(Tail(q)) : q[1] < Tail(q)[i]
    BY <2>1 DEF Sorted
  <2>3. \A i, j \in 1..Len(Tail(q)) : i < j => Tail(q)[i] < Tail(q)[j]
    BY <2>1 DEF Sorted
  <2>4. QED
    BY <1>2, <2>1, <2>2, <2>3 DEF Sorted, Elems
<1>3. QED
  BY <1>1, <1>2

\* A step that leaves queue, promises and store alone and sends no envelope.
LEMMA OtherStep ==
    ASSUME TypeOK, IInv, NEW f, WireStep(f), f.type # "send",
           UNCHANGED <<outbound, promise, accepted>>, Elems(s2c') \subseteq Elems(s2c)
    PROVE  IInv' /\ CStep
<1>1. WireInv
  BY Parts
<1>2. WireInv'
  <2>1. MayLeave(f)
    BY DEF MayLeave
  <2>2. /\ NotBehind(pending, outbound') /\ NotBehind(Elems(c2s), outbound')
        /\ \A a \in Elems(accepted), e \in Elems(outbound') : a <= e
    BY <1>1 DEF WireInv, AcceptedFirst
  <2>3. QED
    BY <1>1, <2>1, <2>2, WireStepInv
<1>3. /\ CallsInOrder' /\ Sorted(outbound)' /\ QueueOnlyUnsettled' /\ AcceptedInOrder'
      /\ ResolvedWasAccepted'
  BY Parts DEF CallsInOrder, Sorted, QueueOnlyUnsettled, AcceptedInOrder,
               ResolvedWasAccepted, Elems
<1>4. QED
  BY <1>2, <1>3, PartsNext DEF CStep

LEMMA SendEnvelopeStep ==
    ASSUME TypeOK, IInv, NEW e \in Envelopes, SendEnvelope(e)
    PROVE  IInv' /\ CStep
<1> DEFINE q == Append(outbound, e)
<1>0. /\ WireInv /\ CallsInOrder /\ Sorted(outbound) /\ QueueOnlyUnsettled
      /\ AcceptedInOrder /\ ResolvedWasAccepted
  BY Parts
<1>1. /\ q \in Seq(Envelopes) /\ q # <<>> /\ Elems(q) = Elems(outbound) \cup {e}
      /\ outbound \in Seq(Envelopes) /\ outbound' = q
  <2>1. outbound \in Seq(Envelopes)
    BY DEF TypeOK
  <2>2. q \in Seq(Envelopes) /\ Elems(q) = Elems(outbound) \cup {e}
    BY <2>1, ElemsAppend
  <2>3. q # <<>>
    <3>1. Len(q) = Len(outbound) + 1 /\ Len(outbound) \in Nat
      BY <2>1
    <3>2. Len(<<>>) = 0
      OBVIOUS
    <3>3. QED
      BY <3>1, <3>2
  <2>4. QED
    BY <2>1, <2>2, <2>3 DEF SendEnvelope
<1>2. \A d \in Envelopes : promise[d] # "none" => d < e
  BY <1>0 DEF CallsInOrder, SendEnvelope, Envelopes
<1>3. \A d \in Elems(outbound) : d \in Envelopes /\ promise[d] = "pending" /\ d < e
  BY <1>0, <1>1, <1>2 DEF QueueOnlyUnsettled, Elems
<1>4. promise' = [promise EXCEPT ![e] = "pending"] /\ promise \in [Envelopes -> {"none", "pending", "resolved", "rejected"}]
  BY DEF SendEnvelope, TypeOK
<1>5. Sorted(q)
  <2>1. \A i \in 1..Len(outbound) : q[i] = outbound[i] /\ outbound[i] < e
    BY <1>1, <1>3 DEF Elems
  <2>2. Len(q) = Len(outbound) + 1 /\ q[Len(q)] = e
    BY <1>1
  <2>3. QED
    BY <1>0, <1>1, <2>1, <2>2 DEF Sorted
<1>6. \E f : WireStep(f) /\ (f.type = "send" => f.arg = Head(q))
  BY <1>1, FlushTurnStep, QuietStep DEF SendEnvelope
<1>7. /\ \A f \in pending \cup Elems(c2s) : f.type = "send" => f.arg \in Envelopes /\ f.arg < e
      /\ \A a \in Elems(accepted) : a \in Envelopes /\ a < e
  <2>1. \A f \in pending \cup Elems(c2s) : f.type = "send" => f.arg \in Envelopes
    BY DEF TypeOK, Elems, ClientFrame, Request
  <2>2. \A a \in Elems(accepted) : a \in Envelopes
    BY DEF TypeOK, Elems
  <2>3. QED
    BY <1>0, <1>2, <2>1, <2>2 DEF WireInv, Called, AcceptedFirst
<1>8. /\ NotBehind(pending, q) /\ NotBehind(Elems(c2s), q)
      /\ \A a \in Elems(accepted), d \in Elems(q) : a <= d
  BY <1>0, <1>1, <1>7 DEF WireInv, NotBehind, AcceptedFirst, Envelopes
<1>9. Head(q) \in Elems(q) /\ \A d \in Elems(q) : Head(q) <= d
  BY <1>1, <1>5, SortedHead
<1>10. WireInv'
  <2>1. PICK f : WireStep(f) /\ (f.type = "send" => f.arg = Head(q))
    BY <1>6
  <2>2. promise'[Head(q)] # "none"
    BY <1>1, <1>3, <1>4, <1>9
  <2>3. MayLeave(f)
    BY <1>1, <1>8, <1>9, <2>1, <2>2 DEF MayLeave, NotBehind
  <2>4. /\ accepted' = accepted /\ Elems(s2c') \subseteq Elems(s2c)
        /\ \A d \in Envelopes : promise[d] # "none" => promise'[d] # "none"
    BY <1>4 DEF SendEnvelope, relay
  <2>5. QED
    BY <1>0, <1>1, <1>8, <2>1, <2>3, <2>4, WireStepInv
<1>11. CallsInOrder'
  BY <1>0, <1>4 DEF CallsInOrder, SendEnvelope, Envelopes
<1>12. QueueOnlyUnsettled'
  <2>1. \A d \in Elems(q) : promise'[d] = "pending"
    BY <1>1, <1>3, <1>4
  <2>2. QED
    BY <1>1, <2>1 DEF QueueOnlyUnsettled, Elems
<1>13. AcceptedInOrder' /\ ResolvedWasAccepted'
  BY <1>0, <1>4 DEF SendEnvelope, relay, AcceptedInOrder, Sorted, ResolvedWasAccepted, Elems
<1>14. Sorted(outbound)'
  BY <1>1, <1>5 DEF Sorted
<1>15. CStep
  BY DEF CStep, SendEnvelope, relay, Contract!Call
<1>16. QED
  BY <1>10, <1>11, <1>12, <1>13, <1>14, <1>15, PartsNext

\* Authentication restarts the drain of an unchanged queue.
LEMMA OnAuthenticatedStep ==
    ASSUME TypeOK, IInv, OnAuthenticated
    PROVE  IInv' /\ CStep
<1>0. /\ WireInv /\ CallsInOrder /\ Sorted(outbound) /\ QueueOnlyUnsettled
      /\ AcceptedInOrder /\ ResolvedWasAccepted
  BY Parts
<1>1. UNCHANGED <<outbound, promise, accepted>> /\ outbound \in Seq(Envelopes)
  BY DEF OnAuthenticated, queue, relay, TypeOK
<1>2. Elems(s2c') \subseteq Elems(s2c)
  BY ElemsTail DEF OnAuthenticated, Arrives, TypeOK
<1>3. PICK f : WireStep(f) /\ (f.type = "send" => outbound # <<>> /\ f.arg = Head(outbound))
  BY <1>1, FlushTurnStep DEF OnAuthenticated
<1>4. /\ NotBehind(pending, outbound') /\ NotBehind(Elems(c2s), outbound')
      /\ \A a \in Elems(accepted), e \in Elems(outbound') : a <= e
  BY <1>0, <1>1 DEF WireInv, AcceptedFirst
<1>5. MayLeave(f)
  <2>1. SUFFICES ASSUME f.type = "send"
                 PROVE  /\ promise'[f.arg] # "none"
                        /\ \A e \in Elems(outbound') : f.arg <= e
                        /\ \A g \in Elems(c2s) : g.type = "send" => g.arg <= f.arg
                        /\ \A a \in Elems(accepted) : a <= f.arg
    BY DEF MayLeave
  <2>2. f.arg \in Elems(outbound) /\ \A e \in Elems(outbound) : f.arg <= e
    BY <1>0, <1>1, <1>3, <2>1, SortedHead
  <2>3. QED
    BY <1>0, <1>1, <1>4, <2>2 DEF QueueOnlyUnsettled, NotBehind
<1>6. WireInv'
  BY <1>0, <1>1, <1>2, <1>3, <1>4, <1>5, WireStepInv
<1>7. /\ CallsInOrder' /\ Sorted(outbound)' /\ QueueOnlyUnsettled' /\ AcceptedInOrder'
      /\ ResolvedWasAccepted'
  BY <1>0, <1>1 DEF CallsInOrder, Sorted, QueueOnlyUnsettled, AcceptedInOrder,
                    ResolvedWasAccepted, Elems
<1>8. QED
  BY <1>1, <1>6, <1>7, PartsNext DEF CStep

\* The head is shifted and p's caller answered: p was at or before the head,
\* so what stays queued is unsettled.
LEMMA SettleStep ==
    ASSUME TypeOK, IInv, NEW p \in pending, p.type = "send",
           NEW outcome \in {"resolved", "rejected"},
           outcome = "resolved" => p.arg \in Elems(accepted),
           outbound' = Shift(outbound), Settle(p.arg, outcome),
           FlushTurn(Shift(outbound), {p}) \/ AskNothing({p}),
           accepted' = accepted, Elems(s2c') \subseteq Elems(s2c)
    PROVE  IInv' /\ CStep
<1> DEFINE q == Shift(outbound)
<1>0. /\ WireInv /\ CallsInOrder /\ Sorted(outbound) /\ QueueOnlyUnsettled
      /\ AcceptedInOrder /\ ResolvedWasAccepted
  BY Parts
<1>1. /\ outbound \in Seq(Envelopes) /\ p.arg \in Envelopes
      /\ promise \in [Envelopes -> {"none", "pending", "resolved", "rejected"}]
  BY DEF TypeOK, Request
<1>2. /\ q \in Seq(Envelopes) /\ Elems(q) \subseteq Elems(outbound)
      /\ Sorted(q) /\ \A d \in Elems(q) : outbound # <<>> /\ Head(outbound) < d
  BY <1>0, <1>1, ShiftType, SortedShift
<1>3. p.arg \notin Elems(q)
  <2>1. SUFFICES ASSUME p.arg \in Elems(q) PROVE FALSE
    OBVIOUS
  <2>2. Head(outbound) < p.arg /\ Head(outbound) \in Elems(outbound)
    BY <1>0, <1>1, <1>2, <2>1, SortedHead
  <2>3. p.arg <= Head(outbound)
    BY <1>0, <2>2 DEF WireInv, NotBehind
  <2>4. Head(outbound) \in Int /\ p.arg \in Int
    BY <1>1, <2>2 DEF Elems, Envelopes
  <2>5. QED
    BY <2>2, <2>3, <2>4
<1>4. promise' = [promise EXCEPT ![p.arg] = IF @ = "pending" THEN outcome ELSE @]
  BY DEF Settle
<1>5. \A d \in Envelopes : promise[d] # "none" <=> promise'[d] # "none"
  BY <1>1, <1>4
<1>6. \A d \in Elems(q) : promise'[d] = "pending"
  <2>1. \A d \in Elems(q) : d \in Envelopes /\ d # p.arg /\ promise[d] = "pending"
    BY <1>0, <1>1, <1>2, <1>3 DEF QueueOnlyUnsettled, Elems
  <2>2. QED
    BY <1>1, <1>4, <2>1
<1>7. PICK f : WireStep(f) /\ (f.type = "send" => q # <<>> /\ f.arg = Head(q))
  BY <1>2, FlushTurnStep, QuietStep
<1>8. /\ NotBehind(pending, q) /\ NotBehind(Elems(c2s), q)
      /\ \A a \in Elems(accepted), e \in Elems(q) : a <= e
  BY <1>0, <1>2 DEF WireInv, NotBehind, AcceptedFirst
<1>9. MayLeave(f)
  <2>1. SUFFICES ASSUME f.type = "send"
                 PROVE  /\ promise'[f.arg] # "none"
                        /\ \A e \in Elems(outbound') : f.arg <= e
                        /\ \A g \in Elems(c2s) : g.type = "send" => g.arg <= f.arg
                        /\ \A a \in Elems(accepted) : a <= f.arg
    BY DEF MayLeave
  <2>2. f.arg \in Elems(q) /\ \A e \in Elems(q) : f.arg <= e
    BY <1>2, <1>7, <2>1, SortedHead
  <2>3. QED
    BY <1>6, <1>8, <2>2 DEF NotBehind
<1>10. WireInv'
  BY <1>0, <1>5, <1>7, <1>8, <1>9, WireStepInv
<1>11. CallsInOrder'
  BY <1>0, <1>5 DEF CallsInOrder
<1>12. Sorted(outbound)' /\ QueueOnlyUnsettled'
  BY <1>2, <1>6 DEF Sorted, QueueOnlyUnsettled, Elems
<1>13. AcceptedInOrder'
  BY <1>0 DEF AcceptedInOrder, Sorted
<1>14. ResolvedWasAccepted'
  BY <1>0, <1>1, <1>4 DEF ResolvedWasAccepted, Elems
<1>15. CStep
  <2>1. CASE promise[p.arg] = "pending" /\ outcome = "resolved"
    BY <1>1, <1>4, <2>1 DEF CStep, Contract!Resolve, Elems
  <2>2. CASE promise[p.arg] = "pending" /\ outcome = "rejected"
    BY <1>1, <1>4, <2>2 DEF CStep, Contract!Reject
  <2>3. CASE promise[p.arg] # "pending"
    BY <1>1, <1>4, <2>3 DEF CStep
  <2>4. QED
    BY <2>1, <2>2, <2>3
<1>16. QED
  BY <1>10, <1>11, <1>12, <1>13, <1>14, <1>15, PartsNext

\* The continuations of a request that resolved; m is the ok that answers it.
LEMMA OnOkStep ==
    ASSUME TypeOK, IInv, OnOk
    PROVE  IInv' /\ CStep
<1>0. WireInv
  BY Parts
<1>1. /\ accepted' = accepted /\ Elems(s2c') \subseteq Elems(s2c)
      /\ Head(s2c) \in Elems(s2c) /\ Head(s2c).type = "ok"
  BY ElemsTail DEF OnOk, Arrives, TypeOK, relay
<1>2. ASSUME NEW p \in pending, p.rid = Head(s2c).rid, Resolved(p)
      PROVE  IInv' /\ CStep
  <2>1. CASE p.type = "send" /\ SendResolved(p)
    <3>1. p.arg \in Elems(accepted)
      BY <1>0, <1>1, <1>2, <2>1 DEF WireInv, RepliesTrue
    <3>2. /\ outbound' = Shift(outbound) /\ Settle(p.arg, "resolved")
          /\ FlushTurn(Shift(outbound), {p}) \/ AskNothing({p})
      BY <2>1 DEF SendResolved
    <3>3. QED
      BY <1>1, <2>1, <3>1, <3>2, SettleStep
  <2>2. CASE /\ SendAuthenticate(pendingChallenge)
             /\ pending' = pending \ {p}
             /\ UNCHANGED <<ridCounter, queue, rpc>>
    <3>1. PICK f : WireStep(f) /\ f.type # "send"
      BY <2>2, AuthenticateStep DEF TypeOK
    <3>2. QED
      BY <1>1, <2>2, <3>1, OtherStep DEF queue
  <2>3. CASE AskNothing({p}) /\ UNCHANGED queue
    BY <1>1, <2>3, QuietStep, OtherStep DEF queue
  <2>4. QED
    BY <1>2, <2>1, <2>2, <2>3 DEF Resolved
<1>3. CASE UNCHANGED <<requests, queue, rpc>>
  <2>1. AskNothing({})
    BY <1>3 DEF AskNothing, requests
  <2>2. QED
    BY <1>1, <1>3, <2>1, QuietStep, OtherStep DEF queue
<1>4. QED
  BY <1>2, <1>3 DEF OnOk

\* The continuations of a request that was refused or timed out.
LEMMA RejectedStep ==
    ASSUME TypeOK, IInv, NEW p \in pending, NEW code, Rejected(p, code),
           accepted' = accepted, Elems(s2c') \subseteq Elems(s2c)
    PROVE  IInv' /\ CStep
<1>1. CASE p.type = "send" /\ SendRejected(p) /\ status = "connected"
  <2>1. /\ outbound' = Shift(outbound) /\ Settle(p.arg, "rejected")
        /\ FlushTurn(Shift(outbound), {p})
    BY <1>1 DEF SendRejected
  <2>2. QED
    BY <1>1, <2>1, SettleStep
<1>2. CASE AskNothing({p}) /\ UNCHANGED queue
  BY <1>2, QuietStep, OtherStep DEF queue
<1>3. QED
  BY <1>1, <1>2 DEF Rejected, SendRejected

LEMMA OnErrorStep ==
    ASSUME TypeOK, IInv, OnError
    PROVE  IInv' /\ CStep
<1>1. accepted' = accepted /\ Elems(s2c') \subseteq Elems(s2c)
  BY ElemsTail DEF OnError, Arrives, TypeOK, relay
<1>2. CASE UNCHANGED <<client, sock, requests, queue, attesting, rpc>>
  <2>1. AskNothing({})
    BY <1>2 DEF AskNothing, requests
  <2>2. QED
    BY <1>1, <1>2, <2>1, QuietStep, OtherStep DEF queue
<1>3. QED
  BY <1>1, <1>2, RejectedStep DEF OnError

\* A closed socket takes its frames and requests along.
LEMMA OnCloseStep ==
    ASSUME TypeOK, IInv, OnClose
    PROVE  IInv' /\ CStep
<1>0. /\ WireInv /\ CallsInOrder /\ Sorted(outbound) /\ QueueOnlyUnsettled
      /\ AcceptedInOrder /\ ResolvedWasAccepted
  BY Parts
<1>1. /\ UNCHANGED <<ridCounter, outbound, promise, accepted>>
      /\ pending' = {} /\ c2s' = <<>> /\ s2c' = <<>>
  BY DEF OnClose, Close, queue
<1>2. Elems(c2s') = {} /\ Elems(s2c') = {}
  BY <1>1 DEF Elems
<1>3. Elems(c2s)' = {} /\ Elems(s2c)' = {}
  BY <1>2 DEF Elems
<1>4. WireInv'
  <2>1. WireSorted(c2s)'
    BY <1>1 DEF WireSorted
  <2>2. AcceptedFirst'
    BY <1>0, <1>1, <1>3 DEF WireInv, AcceptedFirst, Elems
  <2>3. QED
    BY <1>1, <1>3, <2>1, <2>2 DEF WireInv, NotBehind, Called, RidsUnique, RepliesTrue
<1>5. /\ CallsInOrder' /\ Sorted(outbound)' /\ QueueOnlyUnsettled' /\ AcceptedInOrder'
      /\ ResolvedWasAccepted'
  BY <1>0, <1>1 DEF CallsInOrder, Sorted, QueueOnlyUnsettled, AcceptedInOrder,
                    ResolvedWasAccepted, Elems
<1>6. QED
  BY <1>1, <1>4, <1>5, PartsNext DEF CStep

\* What the relay's answer says: an ok to a send means the envelope is stored.
LEMMA ServeEffect ==
    ASSUME TypeOK, NEW f \in ClientFrame, Serve(f)
    PROVE  /\ \E m \in ServerFrame :
                 /\ s2c' = Append(s2c, m)
                 /\ m.rid = f.rid
                 /\ f.type = "send" /\ m.type = "ok" => f.arg \in Elems(accepted')
           /\ \/ accepted' = accepted
              \/ /\ f.type = "send" /\ f.arg \notin Elems(accepted)
                 /\ accepted' = Append(accepted, f.arg)
<1>1. /\ f.rid \in Nat
      /\ f.type = "send" => f.arg \in Envelopes
      /\ f.type \in {"connect", "authenticate"} => f.rid = 0
  BY DEF ClientFrame, Request, RequestTypes
<1>2. nextSock \in Nat /\ accepted \in Seq(Envelopes)
  BY DEF TypeOK
<1>3. \/ accepted' = accepted
      \/ /\ f.type = "send" /\ f.arg \notin Elems(accepted)
         /\ accepted' = Append(accepted, f.arg)
  BY DEF Serve, relay
<1>4. ASSUME f.type = "send", authed,
             accepted' = IF f.arg \in Elems(accepted) THEN accepted
                                                      ELSE Append(accepted, f.arg)
      PROVE  f.arg \in Elems(accepted')
  BY <1>1, <1>2, <1>4, ElemsAppend
<1>5. ASSUME NEW type \in {"connected", "authenticated", "ok", "error",
                            "attestationRequired", "notRegistered"},
             NEW arg \in Nat, Answer(type, f.rid, arg),
             f.type = "send" /\ type = "ok" => f.arg \in Elems(accepted')
      PROVE  \E m \in ServerFrame :
                 /\ s2c' = Append(s2c, m)
                 /\ m.rid = f.rid
                 /\ f.type = "send" /\ m.type = "ok" => f.arg \in Elems(accepted')
  <2> DEFINE m == [type |-> type, rid |-> f.rid, arg |-> arg]
  <2>1. m \in ServerFrame
    BY <1>1, <1>5 DEF ServerFrame
  <2>2. s2c' = Append(s2c, m)
    BY <1>5 DEF Answer
  <2>3. QED
    BY <1>5, <2>1, <2>2
<1>6. \E type \in {"connected", "authenticated", "ok", "error",
                    "attestationRequired", "notRegistered"}, arg \in Nat :
          Answer(type, f.rid, arg)
          /\ (f.type = "send" /\ type = "ok" => f.arg \in Elems(accepted'))
  <2>1. CASE f.type = "connect"
    BY <1>1, <1>2, <2>1 DEF Serve, RequestTypes
  <2>2. CASE f.type = "authenticate"
    BY <1>1, <1>2, <2>2 DEF Serve, RequestTypes
  <2>3. CASE f.type \in {"register", "attested", "rpc"}
    BY <1>1, <1>2, <2>3 DEF Serve
  <2>4. CASE f.type = "send"
    BY <1>1, <1>2, <1>4, <2>4 DEF Serve
  <2>5. QED
    BY <2>1, <2>2, <2>3, <2>4 DEF ClientFrame, Request, RequestTypes
<1>7. QED
  BY <1>3, <1>5, <1>6

\* The relay serves the first frame on the wire, which is at or after all it
\* has accepted and at or before all that is behind it.
LEMMA RelayServesStep ==
    ASSUME TypeOK, IInv, RelayServes
    PROVE  IInv' /\ CStep
<1> DEFINE f == Head(c2s)
<1>0. /\ WireInv /\ CallsInOrder /\ Sorted(outbound) /\ QueueOnlyUnsettled
      /\ AcceptedInOrder /\ ResolvedWasAccepted
  BY Parts
<1>1. /\ f \in ClientFrame /\ f \in Elems(c2s) /\ c2s' = Tail(c2s)
      /\ Elems(c2s') \subseteq Elems(c2s)
      /\ Len(c2s') = Len(c2s) - 1 /\ Len(c2s) \in Nat /\ f = c2s[1] /\ Len(c2s) >= 1
      /\ \A i \in 1..Len(c2s') : c2s'[i] = c2s[i + 1]
  <2>1. c2s \in Seq(ClientFrame) /\ c2s # <<>> /\ c2s' = Tail(c2s)
    BY DEF RelayServes, TypeOK
  <2>2. f = c2s[1] /\ Len(c2s) \in Nat /\ Len(c2s) >= 1
    BY <2>1
  <2>3. QED
    BY <2>1, <2>2, ElemsTail
<1>2. UNCHANGED <<ridCounter, pending, outbound, promise>>
  BY DEF RelayServes, queue
<1>3. PICK m \in ServerFrame :
          /\ s2c' = Append(s2c, m)
          /\ m.rid = f.rid
          /\ f.type = "send" /\ m.type = "ok" => f.arg \in Elems(accepted')
  BY <1>1, ServeEffect DEF RelayServes
<1>4. \/ accepted' = accepted
      \/ /\ f.type = "send" /\ f.arg \notin Elems(accepted)
         /\ accepted' = Append(accepted, f.arg)
  BY <1>1, ServeEffect DEF RelayServes
<1>5. Elems(s2c') = Elems(s2c) \cup {m}
  BY <1>3, ElemsAppend DEF TypeOK
<1>6. f.type = "send" => /\ f.arg \in Envelopes /\ promise[f.arg] # "none"
                         /\ \A e \in Elems(outbound) : f.arg <= e
                         /\ \A a \in Elems(accepted) : a <= f.arg
  BY <1>0, <1>1 DEF ClientFrame, Request, WireInv, Called, NotBehind, AcceptedFirst
<1>7. \A i \in 1..Len(c2s') : f.type = "send" /\ c2s'[i].type = "send" => f.arg <= c2s'[i].arg
  BY <1>0, <1>1 DEF WireInv, WireSorted
<1>8. Elems(accepted) \subseteq Elems(accepted')
      /\ Elems(accepted') \subseteq Elems(accepted) \cup (IF f.type = "send" THEN {f.arg} ELSE {})
  <2>1. CASE accepted' = accepted
    BY <2>1
  <2>2. CASE f.type = "send" /\ accepted' = Append(accepted, f.arg)
    <3>1. accepted \in Seq(Envelopes) /\ f.arg \in Envelopes
      BY <1>6, <2>2 DEF TypeOK
    <3>2. Elems(Append(accepted, f.arg)) = Elems(accepted) \cup {f.arg}
      BY <3>1, ElemsAppend
    <3>3. QED
      BY <2>2, <3>2
  <2>3. QED
    BY <1>4, <2>1, <2>2
<1>9. NotBehind(Elems(c2s'), outbound) /\ WireSorted(c2s') /\ Called(Elems(c2s'))
  BY <1>0, <1>1 DEF WireInv, NotBehind, WireSorted, Called
<1>10. AcceptedFirst'
  <2>1. \A a \in Elems(accepted') : /\ promise[a] # "none"
                                    /\ \A e \in Elems(outbound) : a <= e
    BY <1>0, <1>6, <1>8 DEF WireInv, AcceptedFirst
  <2>2. \A a \in Elems(accepted'), g \in Elems(c2s') : g.type = "send" => a <= g.arg
    <3>1. \A g \in Elems(c2s') : f.type = "send" /\ g.type = "send" => f.arg <= g.arg
      BY <1>7 DEF Elems
    <3>2. \A a \in Elems(accepted), g \in Elems(c2s') : g.type = "send" => a <= g.arg
      BY <1>0, <1>1 DEF WireInv, AcceptedFirst
    <3>3. QED
      BY <1>8, <3>1, <3>2
  <2>3. QED
    BY <1>2, <2>1, <2>2 DEF AcceptedFirst, Elems
<1>11. RidsUnique'
  <2>1. m.rid <= ridCounter
    BY <1>0, <1>1, <1>3 DEF WireInv, RidsUnique
  <2>2. QED
    BY <1>0, <1>1, <1>2, <1>5, <2>1 DEF WireInv, RidsUnique, Elems
<1>12. RepliesTrue'
  <2>1. ASSUME NEW p \in pending, p.type = "send", m.type = "ok", m.rid = p.rid
        PROVE  p.arg \in Elems(accepted')
    <3>1. p = f
      BY <1>0, <1>1, <1>3, <2>1 DEF WireInv, RidsUnique
    <3>2. QED
      BY <1>3, <2>1, <3>1
  <2>2. QED
    BY <1>0, <1>2, <1>5, <1>8, <2>1 DEF WireInv, RepliesTrue, Elems
<1>13. WireInv'
  BY <1>0, <1>2, <1>9, <1>10, <1>11, <1>12 DEF WireInv, NotBehind, Called, WireSorted, Elems
<1>14. AcceptedInOrder' /\ CStep
  <2>1. CASE accepted' = accepted
    BY <1>0, <1>2, <2>1 DEF AcceptedInOrder, Sorted, CStep
  <2>2. CASE /\ f.type = "send" /\ f.arg \notin Elems(accepted)
             /\ accepted' = Append(accepted, f.arg)
    <3>1. accepted \in Seq(Envelopes) /\ f.arg \in Envelopes /\ f.arg \in Int
      BY <1>6, <2>2 DEF TypeOK, Envelopes
    <3>2. \A i \in 1..Len(accepted) : accepted[i] \in Elems(accepted) /\ accepted[i] \in Int
      <4>1. \A i \in 1..Len(accepted) : accepted[i] \in Elems(accepted)
        BY DEF Elems
      <4>2. \A i \in 1..Len(accepted) : accepted[i] \in Envelopes
        BY <3>1
      <4>3. QED
        BY <4>1, <4>2 DEF Envelopes
    <3>3. \A i \in 1..Len(accepted) : accepted[i] < f.arg
      BY <1>6, <2>2, <3>1, <3>2
    <3>4. /\ Len(accepted') = Len(accepted) + 1 /\ Len(accepted) \in Nat
          /\ accepted'[Len(accepted) + 1] = f.arg
          /\ \A i \in 1..Len(accepted) : accepted'[i] = accepted[i]
      BY <2>2, <3>1
    <3>5. \A i, j \in 1..Len(accepted') : i < j => accepted'[i] < accepted'[j]
      BY <1>0, <3>3, <3>4 DEF AcceptedInOrder, Sorted
    <3>6. Contract!Accept(f.arg)
      BY <1>2, <1>6, <2>2, <3>3 DEF Contract!Accept
    <3>7. QED
      BY <1>6, <2>2, <3>5, <3>6 DEF AcceptedInOrder, Sorted, CStep
  <2>3. QED
    BY <1>4, <2>1, <2>2
<1>15. CallsInOrder' /\ Sorted(outbound)' /\ QueueOnlyUnsettled'
  BY <1>0, <1>2 DEF CallsInOrder, Sorted, QueueOnlyUnsettled, Elems
<1>16. ResolvedWasAccepted'
  BY <1>0, <1>2, <1>8 DEF ResolvedWasAccepted, Elems
<1>17. QED
  BY <1>13, <1>14, <1>15, <1>16, PartsNext

----------------------------------------------------------------------------
(* All steps together.                                                       *)

LEMMA ApplicationStep ==
    ASSUME TypeOK, IInv, Application
    PROVE  IInv' /\ CStep
<1> USE DEF requests, queue, relay
<1>1. CASE Start
  <2>1. AskNothing({}) /\ UNCHANGED <<outbound, promise, accepted, s2c>>
    BY <1>1 DEF Start, OpenSocket, AskNothing
  <2>2. QED
    BY <2>1, QuietStep, OtherStep
<1>2. CASE Stop \/ RpcCall \/ RpcReadyTimeout \/ RpcRequestThrows
  <2>1. AskNothing({}) /\ UNCHANGED <<outbound, promise, accepted, s2c>>
    BY <1>2 DEF Stop, RpcCall, RpcReadyTimeout, RpcRequestThrows, AskNothing
  <2>2. QED
    BY <2>1, QuietStep, OtherStep
<1>3. CASE RpcRequest
  <2>1. PICK f : WireStep(f) /\ f.type = "rpc"
    BY <1>3, AskStep DEF RpcRequest, RequestTypes
  <2>2. UNCHANGED <<outbound, promise, accepted, s2c>>
    BY <1>3 DEF RpcRequest
  <2>3. QED
    BY <2>1, <2>2, OtherStep
<1>4. QED
  BY <1>1, <1>2, <1>3, SendEnvelopeStep DEF Application

LEMMA SocketEventsStep ==
    ASSUME TypeOK, IInv, SocketEvents
    PROVE  IInv' /\ CStep
<1> USE DEF requests, queue, relay
<1>1. CASE SocketOpens
  <2>1. WireStep(ConnectFrame) /\ ConnectFrame.type # "send"
    BY <1>1 DEF SocketOpens, WireStep, ConnectFrame, ClientFrame
  <2>2. QED
    BY <1>1, <2>1, OtherStep DEF SocketOpens
<1>2. CASE SocketError
  <2>1. AskNothing({}) /\ UNCHANGED <<outbound, promise, accepted, s2c>>
    BY <1>2 DEF SocketError, AskNothing
  <2>2. QED
    BY <2>1, QuietStep, OtherStep
<1>3. CASE SocketClosed \/ NetworkDrop
  BY <1>3, OnCloseStep DEF SocketClosed, NetworkDrop
<1>4. CASE ReconnectFires
  <2>1. AskNothing({}) /\ UNCHANGED <<outbound, promise, accepted, s2c>>
    BY <1>4 DEF ReconnectFires, OpenSocket, AskNothing
  <2>2. QED
    BY <2>1, QuietStep, OtherStep
<1>5. QED
  BY <1>1, <1>2, <1>3, <1>4 DEF SocketEvents

LEMMA FramesStep ==
    ASSUME TypeOK, IInv, Frames
    PROVE  IInv' /\ CStep
<1> USE DEF requests, queue, relay
<1>1. CASE OnConnected
  <2>1. Head(s2c).arg \in Nat /\ Elems(s2c') \subseteq Elems(s2c)
    <3>1. Head(s2c).arg \in Nat
      BY <1>1, ArrivesType DEF OnConnected, ServerFrame
    <3>2. Elems(s2c') \subseteq Elems(s2c)
      BY <1>1, ElemsTail DEF OnConnected, Arrives, TypeOK
    <3>3. QED
      BY <3>1, <3>2
  <2>2. PICK f : WireStep(f) /\ f.type # "send"
    BY <1>1, <2>1, AuthenticateStep DEF OnConnected
  <2>3. QED
    BY <1>1, <2>1, <2>2, OtherStep DEF OnConnected
<1>2. CASE OnNotRegistered
  <2>1. Elems(s2c') \subseteq Elems(s2c)
    BY <1>2, ElemsTail DEF OnNotRegistered, Arrives, TypeOK
  <2>2. PICK f : WireStep(f) /\ f.type # "send"
    BY <1>2, AskStep, QuietStep DEF OnNotRegistered, RequestTypes
  <2>3. QED
    BY <1>2, <2>1, <2>2, OtherStep DEF OnNotRegistered
<1>3. QED
  BY <1>1, <1>2, OnAuthenticatedStep, OnOkStep, OnErrorStep DEF Frames

LEMMA TimersStep ==
    ASSUME TypeOK, IInv, Timers
    PROVE  IInv' /\ CStep
BY RejectedStep DEF Timers, RequestTimeout, relay

LEMMA AttestationStep ==
    ASSUME TypeOK, IInv, Attestation
    PROVE  IInv' /\ CStep
<1> USE DEF requests, queue, relay
<1>1. PICK c \in attesting : AttestSucceeds(c) \/ AttestFails(c)
  BY DEF Attestation
<1>2. UNCHANGED <<outbound, promise, accepted, s2c>>
  BY <1>1 DEF AttestSucceeds, AttestFails
<1>3. CASE AskNothing({}) \/ AttestFails(c)
  <2>1. AskNothing({})
    BY <1>3 DEF AttestFails, AskNothing
  <2>2. QED
    BY <1>2, <2>1, QuietStep, OtherStep
<1>4. CASE Ask("attested", c, {})
  <2>1. c \in Nat
    BY DEF TypeOK
  <2>2. PICK f : WireStep(f) /\ f.type = "attested"
    BY <1>4, <2>1, AskStep DEF RequestTypes
  <2>3. QED
    BY <1>2, <2>2, OtherStep
<1>5. QED
  BY <1>1, <1>3, <1>4 DEF AttestSucceeds

LEMMA InitStep == Init => IInv /\ Contract!Init
<1> SUFFICES ASSUME Init PROVE IInv /\ Contract!Init
  OBVIOUS
<1>1. Elems(outbound) = {} /\ Elems(c2s) = {} /\ Elems(s2c) = {} /\ Elems(accepted) = {}
  BY DEF Init, Elems
<1>2. CallsInOrder /\ Sorted(outbound) /\ AcceptedInOrder /\ WireSorted(c2s)
  BY DEF Init, CallsInOrder, Sorted, AcceptedInOrder, WireSorted
<1>3. ResolvedWasAccepted
  BY DEF Init, ResolvedWasAccepted
<1>4. QED
  BY <1>1, <1>2, <1>3 DEF Init, IInv, QueueOnlyUnsettled, NotBehind, Called, AcceptedFirst,
     RidsUnique, RepliesTrue, Contract!Init, Envelopes

LEMMA StutterStep ==
    ASSUME IInv, UNCHANGED vars
    PROVE  IInv' /\ CStep
BY DEF vars, client, requests, queue, handshake, relay, IInv, CStep, CallsInOrder, Sorted,
       QueueOnlyUnsettled, NotBehind, Called, WireSorted, AcceptedFirst, AcceptedInOrder,
       RidsUnique, RepliesTrue, ResolvedWasAccepted, Elems

LEMMA Step == TypeOK /\ IInv /\ [Next]_vars => IInv' /\ CStep
BY ApplicationStep, SocketEventsStep, FramesStep, TimersStep, AttestationStep,
   RelayServesStep, StutterStep DEF Next

\* The queue, everything in flight and the store stay in call order.
THEOREM Invariance == Spec => []IInv
<1>1. Init => IInv
  BY InitStep
<1>2. TypeOK /\ IInv /\ [Next]_vars => IInv'
  BY Step
<1>3. QED
  BY <1>1, <1>2, TypeCorrect, PTL DEF Spec

\* An answered envelope is never queued again.
THEOREM QueueHoldsUnsettled == Spec => []QueueOnlyUnsettled
<1>1. IInv => QueueOnlyUnsettled
  BY DEF IInv
<1>2. QED
  BY <1>1, Invariance, PTL

\* RelayClient implements the contract of sendEnvelope.
THEOREM Refinement == Spec => ImplementsContract
<1>1. Init => Contract!Init
  BY InitStep
<1>2. CStep => [Contract!Next]_<<promise, accepted>>
  BY DEF CStep, Contract!Next, Envelopes
<1>3. TypeOK /\ IInv /\ [Next]_vars => [Contract!Next]_<<promise, accepted>>
  BY <1>2, Step
<1>4. QED
  BY <1>1, <1>3, TypeCorrect, Invariance, PTL DEF Spec, ImplementsContract, Contract!Spec

----------------------------------------------------------------------------
(* The handshake.  Until the client is authenticated or stopped, a frame, a  *)
(* request or an attestation of the newest socket is under way from which    *)
(* the next step of the handshake will come.  What could cut it off is a     *)
(* second notRegistered, which the client ignores; so the invariant counts   *)
(* the frames that lead to one.                                              *)

\* A frame of the handshake that leads to one more register request, as long as r, the
\* relay's record of the handle, is missing.
Knock(f, r) == \/ f.type \in {"connect", "connected", "notRegistered"}
               \/ f.type = "authenticate" /\ ~r
NoKnock(s, r) == \A i \in 1..Len(s) : ~Knock(s[i], r)
OneKnock(s, r) == \A i, j \in 1..Len(s) : Knock(s[i], r) /\ Knock(s[j], r) => i = j

Handshakes == {"register", "attested"}
TriedHere == pendingChallenge = nextSock /\ didTryRegister
\* A challenge is of an earlier socket, or of this one after its `connected'.
Known(c) == c < nextSock \/ (c = nextSock /\ pendingChallenge = nextSock)

\* The timer is armed exactly when a started client has no socket.
SocketInv ==
    /\ nextSock = 0 => sock = "none" /\ ~reconnectTimer
    /\ sock = "none" => ~ws
    /\ nextSock > 0 /\ ~closedByUser => (sock = "none" <=> reconnectTimer)
    /\ ~closedByUser /\ sock \in {"connecting", "open"} => ws
    /\ sock \in {"none", "connecting"} => c2s = <<>> /\ s2c = <<>>

\* Challenges, requests and frames belong to the newest socket, or to no living one.
ChallengeInv ==
    /\ pendingChallenge <= nextSock
    /\ sock = "connecting" => pendingChallenge < nextSock
    /\ sock = "none" => \A p \in pending : p.type # "register"
    /\ \A c \in attesting : Known(c)
    /\ \A p \in pending : /\ p.type = "attested" => Known(p.arg)
                          /\ p.type = "register" => TriedHere
    /\ \A m \in Elems(s2c) : /\ m.type = "connected" => m.arg = nextSock
                             /\ m.type = "notRegistered" => pendingChallenge = nextSock
    /\ \A f \in Elems(c2s) : f.type = "authenticate" => f.arg = nextSock /\ pendingChallenge = nextSock

\* One knock at most is on the wire, and none once the register request was made.
KnockInv ==
    /\ OneKnock(c2s, registered) /\ OneKnock(s2c, registered)
    /\ NoKnock(c2s, registered) \/ NoKnock(s2c, registered)
    /\ TriedHere => NoKnock(c2s, registered) /\ NoKnock(s2c, registered)

\* The relay says ok to a handshake request only when it has the record, and to an
\* attestation only when it answers this socket's challenge.
OkInv ==
    \A p \in pending, m \in Elems(s2c) :
        p.type \in Handshakes /\ m.type = "ok" /\ m.rid = p.rid =>
            registered /\ (p.type = "attested" => p.arg = nextSock)

\* What the next step of the handshake will come from.
WayOn ==
    \/ \E f \in Elems(c2s) : f.type \in {"connect", "authenticate"}
    \/ \E m \in Elems(s2c) : m.type \in {"connected", "authenticated", "notRegistered"}
    \/ \E p \in pending : p.type \in Handshakes
    \/ nextSock \in attesting
Moving == sock = "open" /\ ~closedByUser /\ status # "connected" => WayOn

HandshakeInv == SocketInv /\ ChallengeInv /\ KnockInv /\ OkInv /\ Moving

----------------------------------------------------------------------------
\* A knock is appended to a wire without one.
LEMMA KnockAppend ==
    ASSUME NEW T, NEW s \in Seq(T), NEW x \in T, NEW r
    PROVE  /\ ~Knock(x, r) /\ OneKnock(s, r) => OneKnock(Append(s, x), r)
           /\ ~Knock(x, r) /\ NoKnock(s, r) => NoKnock(Append(s, x), r)
           /\ NoKnock(s, r) => OneKnock(Append(s, x), r)
<1> DEFINE t == Append(s, x)
<1>1. /\ Len(t) = Len(s) + 1 /\ Len(s) \in Nat /\ t[Len(s) + 1] = x
      /\ \A i \in 1..Len(s) : t[i] = s[i]
  OBVIOUS
<1>2. \A i \in 1..Len(t) : i \in 1..Len(s) \/ i = Len(s) + 1
  BY <1>1
<1> HIDE DEF t
<1>3. ~Knock(x, r) /\ OneKnock(s, r) => OneKnock(t, r)
  BY <1>1, <1>2 DEF OneKnock
<1>4. ~Knock(x, r) /\ NoKnock(s, r) => NoKnock(t, r)
  BY <1>1, <1>2 DEF NoKnock
<1>5. NoKnock(s, r) => OneKnock(t, r)
  BY <1>1, <1>2 DEF NoKnock, OneKnock
<1> QED BY <1>3, <1>4, <1>5 DEF t

\* With the only knock taken off, none is left.
LEMMA KnockTail ==
    ASSUME NEW T, NEW s \in Seq(T), s # <<>>, NEW r
    PROVE  /\ OneKnock(s, r) => OneKnock(Tail(s), r)
           /\ NoKnock(s, r) => NoKnock(Tail(s), r)
           /\ OneKnock(s, r) /\ Knock(Head(s), r) => NoKnock(Tail(s), r)
           /\ NoKnock(s, r) => ~Knock(Head(s), r)
<1>1. /\ Len(Tail(s)) = Len(s) - 1 /\ Len(s) \in Nat /\ Len(s) >= 1 /\ Head(s) = s[1]
      /\ \A i \in 1..Len(Tail(s)) : Tail(s)[i] = s[i + 1]
  BY ElemsTail
<1>2. \A i \in 1..Len(Tail(s)) : i + 1 \in 1..Len(s) /\ i + 1 # 1 /\ 1 \in 1..Len(s)
  BY <1>1
<1> DEFINE t == Tail(s)
<1> HIDE DEF t
<1>3. OneKnock(s, r) => OneKnock(t, r)
  <2> SUFFICES ASSUME OneKnock(s, r), NEW i \in 1..Len(t), NEW j \in 1..Len(t), Knock(t[i], r), Knock(t[j], r)
               PROVE  i = j
    BY DEF OneKnock
  <2>1. i + 1 = j + 1
    BY <1>1, <1>2 DEF OneKnock, t
  <2> QED BY <2>1, <1>1 DEF t
<1>4. NoKnock(s, r) => NoKnock(t, r)
  BY <1>1, <1>2 DEF NoKnock, t
<1>5. OneKnock(s, r) /\ Knock(Head(s), r) => NoKnock(t, r)
  BY <1>1, <1>2 DEF NoKnock, OneKnock, t
<1>6. NoKnock(s, r) => ~Knock(Head(s), r)
  BY <1>1 DEF NoKnock
<1> QED BY <1>3, <1>4, <1>5, <1>6 DEF t

LEMMA ElemsSplit ==
    ASSUME NEW T, NEW s \in Seq(T), s # <<>>
    PROVE  Elems(s) \subseteq {Head(s)} \cup Elems(Tail(s))
<1>1. /\ Len(Tail(s)) = Len(s) - 1 /\ Len(s) \in Nat /\ Head(s) = s[1]
      /\ \A i \in 1..Len(Tail(s)) : Tail(s)[i] = s[i + 1]
  BY ElemsTail
<1>2. ASSUME NEW i \in 1..Len(s), i # 1
      PROVE  s[i] \in Elems(Tail(s))
  <2>1. i - 1 \in 1..Len(Tail(s)) /\ Tail(s)[i - 1] = s[i]
    BY <1>1, <1>2
  <2> QED BY <2>1 DEF Elems
<1> QED BY <1>1, <1>2 DEF Elems

\* Once the handle has a record, an authenticate frame is no knock any more.
LEMMA KnockRecord ==
    ASSUME NEW s, NEW r, NEW q, r => q
    PROVE  (OneKnock(s, r) => OneKnock(s, q)) /\ (NoKnock(s, r) => NoKnock(s, q))
BY DEF OneKnock, NoKnock, Knock

\* The client speaks: a request of the given type and argument, or nothing.
Speaks(type, arg, gone) ==
    /\ type \in RequestTypes /\ arg \in Nat /\ (type = "send" => arg \in Envelopes)
    /\ Ask(type, arg, gone) \/ AskNothing(gone)

LEMMA FlushSpeaks ==
    ASSUME NEW q \in Seq(Envelopes), NEW gone, FlushTurn(q, gone)
    PROVE  \E type \in {"send", "rpc"}, arg \in Nat : Speaks(type, arg, gone)
<1>1. CASE q = <<>>
  BY <1>1 DEF FlushTurn, Speaks, RequestTypes
<1>2. CASE q # <<>>
  <2>0. Head(q) \in Envelopes
    BY <1>2, HeadType
  <2>1. Head(q) \in Nat
    BY <2>0, RelayClientAssumption DEF Envelopes
  <2> QED BY <1>2, <2>0, <2>1 DEF FlushTurn, Speaks, RequestTypes
<1> QED BY <1>1, <1>2

\* The relay's answers a step may take off the wire.
Hears == s2c' = s2c \/ (s2c # <<>> /\ s2c' = Tail(s2c))

LEMMA HearsElems ==
    ASSUME TypeOK, Hears
    PROVE  /\ Elems(s2c') \subseteq Elems(s2c)
           /\ OneKnock(s2c, registered) => OneKnock(s2c', registered)
           /\ NoKnock(s2c, registered) => NoKnock(s2c', registered)
BY ElemsTail, KnockTail DEF Hears, TypeOK

LEMMA SpeaksElems ==
    ASSUME TypeOK, NEW type, NEW arg, NEW gone, Speaks(type, arg, gone)
    PROVE  \E f \in ClientFrame :
              /\ f.type = type /\ f.arg = arg /\ f.rid = ridCounter + 1
              /\ pending' \subseteq pending \cup {f}
              /\ c2s' = c2s \/ (c2s' = Append(c2s, f) /\ sock = "open")
              /\ Elems(c2s) \subseteq Elems(c2s') /\ Elems(c2s') \subseteq Elems(c2s) \cup {f}
              /\ pending \ gone \subseteq pending'
              /\ Ask(type, arg, gone) => f \in pending'
<1> DEFINE f == [type |-> type, rid |-> ridCounter + 1, arg |-> arg]
<1>1. f \in ClientFrame
  BY DEF TypeOK, Speaks, Request, RequestTypes, ClientFrame
<1>2. c2s \in Seq(ClientFrame)
  BY DEF TypeOK
<1>3. c2s' = c2s \/ (c2s' = Append(c2s, f) /\ sock = "open")
  BY DEF Speaks, Ask, AskNothing, Transmit
<1>4. Elems(c2s) \subseteq Elems(c2s') /\ Elems(c2s') \subseteq Elems(c2s) \cup {f}
  <2>1. Elems(Append(c2s, f)) = Elems(c2s) \cup {f}
    BY <1>1, <1>2, ElemsAppend
  <2> QED BY <1>3, <2>1
<1>5. /\ pending' \subseteq pending \cup {f} /\ pending \ gone \subseteq pending'
      /\ Ask(type, arg, gone) => f \in pending'
  BY DEF Speaks, Ask, AskNothing
<1> QED BY <1>1, <1>3, <1>4, <1>5

\* No answer on the wire names the request that is only now made.
LEMMA OkStep ==
    ASSUME TypeOK, IInv, HandshakeInv, NEW type, NEW arg, NEW gone, Speaks(type, arg, gone), Hears,
           UNCHANGED <<nextSock, registered>>
    PROVE  OkInv'
<1>1. PICK f \in ClientFrame : f.rid = ridCounter + 1 /\ pending' \subseteq pending \cup {f}
  BY SpeaksElems
<1>2. \A m \in Elems(s2c) : m.rid <= ridCounter /\ m.rid \in Nat
  <2>1. \A m \in Elems(s2c) : m \in ServerFrame
    BY DEF TypeOK, Elems
  <2> QED BY <2>1 DEF IInv, RidsUnique, ServerFrame
<1>3. Elems(s2c') \subseteq Elems(s2c)
  BY HearsElems
<1>4. \A p \in pending', m \in Elems(s2c') : p.rid = m.rid => p \in pending
  BY <1>1, <1>2, <1>3 DEF TypeOK
<1> QED BY <1>3, <1>4 DEF HandshakeInv, OkInv, Elems

\* A step within a socket: the client says a request or nothing, and hears something or nothing.
LEMMA KeepStep ==
    ASSUME TypeOK, IInv, HandshakeInv, NEW type, NEW arg, NEW gone, Speaks(type, arg, gone), Hears,
           type = "register" => TriedHere /\ sock # "none", type = "attested" => Known(arg),
           UNCHANGED <<nextSock, registered, pendingChallenge, didTryRegister>>,
           sock' \in {"none", "connecting"} => sock' = sock,
           \A c \in attesting' : c \in attesting \/ (c = nextSock /\ pendingChallenge = nextSock)
    PROVE  ChallengeInv' /\ KnockInv' /\ OkInv'
<1>1. PICK f \in ClientFrame :
              /\ f.type = type /\ f.arg = arg /\ f.rid = ridCounter + 1
              /\ pending' \subseteq pending \cup {f}
              /\ c2s' = c2s \/ (c2s' = Append(c2s, f) /\ sock = "open")
              /\ Elems(c2s') \subseteq Elems(c2s) \cup {f}
  BY SpeaksElems
<1>2. type \in RequestTypes /\ ~Knock(f, registered)
  BY <1>1 DEF Speaks, RequestTypes, Knock
<1>3. /\ Elems(s2c') \subseteq Elems(s2c)
      /\ OneKnock(s2c, registered) => OneKnock(s2c', registered)
      /\ NoKnock(s2c, registered) => NoKnock(s2c', registered)
  BY HearsElems
<1>4. /\ OneKnock(c2s, registered) => OneKnock(c2s', registered)
      /\ NoKnock(c2s, registered) => NoKnock(c2s', registered)
  BY <1>1, <1>2, KnockAppend, ZenonT(30) DEF TypeOK
<1>5. \A c : Known(c) <=> Known(c)'
  BY DEF Known
<1>6. TriedHere' <=> TriedHere
  BY DEF TriedHere
<1>7. KnockInv'
  BY <1>3, <1>4, <1>6 DEF HandshakeInv, KnockInv
<1>9. OkInv'
  BY OkStep
<1>10. ChallengeInv'
  <2>1. /\ pendingChallenge' <= nextSock' /\ (sock' = "connecting" => pendingChallenge' < nextSock')
        /\ sock' = "none" => \A p \in pending' : p.type # "register"
    BY <1>1 DEF HandshakeInv, ChallengeInv
  <2>2. \A c \in attesting' : Known(c)'
    BY <1>5 DEF HandshakeInv, ChallengeInv, Known
  <2>3. \A p \in pending' : (p.type = "attested" => Known(p.arg)') /\ (p.type = "register" => TriedHere')
    BY <1>1, <1>5, <1>6 DEF HandshakeInv, ChallengeInv
  <2>4. \A m \in Elems(s2c') : /\ m.type = "connected" => m.arg = nextSock'
                               /\ m.type = "notRegistered" => pendingChallenge' = nextSock'
    BY <1>3 DEF HandshakeInv, ChallengeInv
  <2>5. \A g \in Elems(c2s') : g.type = "authenticate" => g.arg = nextSock' /\ pendingChallenge' = nextSock'
    BY <1>1, <1>2 DEF HandshakeInv, ChallengeInv, RequestTypes
  <2> QED BY <2>1, <2>2, <2>3, <2>4, <2>5 DEF ChallengeInv, Elems
<1> QED BY <1>7, <1>9, <1>10

\* What keeps the client on its way, when its own state stays.
LEMMA WayOnStep ==
    ASSUME TypeOK, HandshakeInv, NEW type, NEW arg, NEW gone, Speaks(type, arg, gone), Hears,
           s2c' = s2c \/ Head(s2c).type \notin {"connected", "authenticated", "notRegistered"},
           UNCHANGED <<nextSock, sock, closedByUser, status>>,
           \A p \in gone : p.type \notin Handshakes \/ nextSock \in attesting',
           nextSock \in attesting /\ nextSock \notin attesting' => type = "attested" /\ Ask(type, arg, gone)
    PROVE  Moving'
<1> SUFFICES ASSUME sock = "open", ~closedByUser, status # "connected"
             PROVE  WayOn'
  BY DEF Moving
<1>1. WayOn
  BY DEF HandshakeInv, Moving
<1>2. PICK f \in ClientFrame :
              /\ f.type = type /\ Elems(c2s) \subseteq Elems(c2s')
              /\ pending \ gone \subseteq pending'
              /\ Ask(type, arg, gone) => f \in pending'
  BY SpeaksElems
<1>3. CASE \E g \in Elems(c2s) : g.type \in {"connect", "authenticate"}
  BY <1>2, <1>3 DEF WayOn, Elems
<1>4. CASE \E m \in Elems(s2c) : m.type \in {"connected", "authenticated", "notRegistered"}
  <2>1. PICK m \in Elems(s2c) : m.type \in {"connected", "authenticated", "notRegistered"}
    BY <1>4
  <2>2. m \in Elems(s2c')
    <3>1. CASE s2c' = s2c
      BY <3>1, <2>1
    <3>2. CASE s2c # <<>> /\ s2c' = Tail(s2c) /\ Head(s2c).type \notin {"connected", "authenticated", "notRegistered"}
      <4>1. Elems(s2c) \subseteq {Head(s2c)} \cup Elems(Tail(s2c))
        BY <3>2, ElemsSplit DEF TypeOK
      <4> QED BY <2>1, <3>2, <4>1
    <3> QED BY <3>1, <3>2 DEF Hears
  <2> QED BY <2>1, <2>2 DEF WayOn, Elems
<1>5. CASE \E p \in pending : p.type \in Handshakes
  BY <1>2, <1>5 DEF WayOn
<1>6. CASE nextSock \in attesting
  BY <1>2, <1>6 DEF WayOn, Handshakes
<1> QED BY <1>1, <1>3, <1>4, <1>5, <1>6 DEF WayOn

LEMMA SameSocket ==
    ASSUME TypeOK, HandshakeInv, NEW type, NEW arg, NEW gone, Speaks(type, arg, gone), Hears,
           UNCHANGED <<nextSock, sock, closedByUser, ws, reconnectTimer>>
    PROVE  SocketInv'
<1>1. sock # "open" => c2s' = c2s
  BY SpeaksElems
<1> QED BY <1>1 DEF SocketInv, HandshakeInv, Hears

\* The ordinary step: the client and its socket stay, the handshake loses nothing.
LEMMA OrdinaryStep ==
    ASSUME TypeOK, IInv, HandshakeInv, NEW type, NEW arg, NEW gone, Speaks(type, arg, gone), Hears,
           type \in {"send", "rpc"}, \A p \in gone : p.type \notin Handshakes,
           s2c' = s2c \/ Head(s2c).type \notin {"connected", "authenticated", "notRegistered"},
           UNCHANGED <<nextSock, registered, handshake, client, sock>>
    PROVE  HandshakeInv'
<1>1. ChallengeInv' /\ KnockInv' /\ OkInv'
  BY KeepStep DEF handshake
<1>2. Moving'
  BY WayOnStep DEF handshake, client
<1>3. SocketInv'
  BY SameSocket DEF client
<1> QED BY <1>1, <1>2, <1>3 DEF HandshakeInv

\* The step that ends the client or its socket.
LEMMA LeavingStep ==
    ASSUME TypeOK, IInv, HandshakeInv, NEW gone, AskNothing(gone), Hears,
           Halt \/ CloseSocket, attesting' \subseteq attesting,
           UNCHANGED <<nextSock, registered, pendingChallenge, didTryRegister>>
    PROVE  HandshakeInv'
<1>1. c2s' = c2s /\ Speaks("rpc", 0, gone)
  BY DEF Speaks, AskNothing, RequestTypes
<1>2. ChallengeInv' /\ KnockInv' /\ OkInv'
  <2>1. sock' \in {"none", "connecting"} => sock' = sock
    BY DEF Halt, CloseSocket
  <2> QED BY <1>1, <2>1, KeepStep
<1>3. SocketInv' /\ Moving'
  <2>0. s2c = <<>> => s2c' = <<>>
    BY DEF Hears
  <2>1. CASE Halt
    BY <1>1, <2>0, <2>1 DEF Halt, HandshakeInv, SocketInv, Moving
  <2>2. CASE CloseSocket
    <3>1. sock' = "open" => sock = "open" /\ ~ws
      BY <2>2 DEF CloseSocket
    <3>2. Moving'
      BY <2>2, <3>1 DEF CloseSocket, client, HandshakeInv, SocketInv, Moving
    <3>3. SocketInv'
      BY <1>1, <2>0, <2>2, <3>1 DEF CloseSocket, client, HandshakeInv, SocketInv
    <3> QED BY <3>2, <3>3
  <2> QED BY <2>1, <2>2
<1> QED BY <1>2, <1>3 DEF HandshakeInv

\* openSocket: nothing of the last socket is left on the wire.
LEMMA OpenStep ==
    ASSUME TypeOK, IInv, HandshakeInv, Start \/ ReconnectFires
    PROVE  HandshakeInv'
<1>1. sock = "none" /\ c2s = <<>> /\ s2c = <<>> /\ ~closedByUser
  BY DEF Start, ReconnectFires, HandshakeInv, SocketInv, TypeOK
<1>2. /\ ~reconnectTimer' /\ ws' /\ sock' = "connecting" /\ nextSock' = nextSock + 1
      /\ UNCHANGED <<closedByUser, pending, c2s, s2c, pendingChallenge, didTryRegister, attesting, registered>>
  BY DEF Start, ReconnectFires, OpenSocket, requests, handshake, relay, TypeOK
<1>3. nextSock \in Nat /\ pendingChallenge \in Nat /\ attesting \subseteq Nat /\ pending \subseteq Request
  BY DEF TypeOK
<1>4. Elems(c2s)' = {} /\ Elems(s2c)' = {}
  BY <1>1, <1>2 DEF Elems
<1>5. SocketInv' /\ Moving'
  BY <1>1, <1>2, <1>3 DEF SocketInv, Moving
<1>6. KnockInv' /\ OkInv'
  <2>1. NoKnock(<<>>, registered) /\ OneKnock(<<>>, registered)
    BY DEF NoKnock, OneKnock
  <2> QED BY <1>1, <1>2, <1>4, <2>1 DEF KnockInv, OkInv
<1>7. ChallengeInv'
  <2>1. pendingChallenge < nextSock'
    BY <1>2, <1>3 DEF HandshakeInv, ChallengeInv
  <2>2. \A c \in attesting : Known(c)'
    BY <1>2, <1>3 DEF HandshakeInv, ChallengeInv, Known
  <2>3. \A p \in pending : (p.type = "attested" => Known(p.arg)') /\ p.type # "register"
    <3>1. \A p \in pending : (p.type = "attested" => Known(p.arg)) /\ p.type # "register"
      BY <1>1 DEF HandshakeInv, ChallengeInv
    <3> QED BY <1>2, <1>3, <3>1 DEF HandshakeInv, ChallengeInv, Known, Request
  <2> QED BY <1>2, <1>3, <1>4, <2>1, <2>2, <2>3 DEF ChallengeInv
<1> QED BY <1>5, <1>6, <1>7 DEF HandshakeInv

LEMMA QuietSpeaks ==
    ASSUME NEW gone, AskNothing(gone)
    PROVE  Speaks("rpc", 0, gone)
BY DEF Speaks, RequestTypes

\* onClose takes the frames and requests of the socket along.
LEMMA CloseStep ==
    ASSUME TypeOK, HandshakeInv, OnClose, sock # "none"
    PROVE  HandshakeInv'
<1>1. /\ pending' = {} /\ c2s' = <<>> /\ s2c' = <<>> /\ sock' = "none" /\ ~ws'
      /\ reconnectTimer' = ~closedByUser'
      /\ UNCHANGED <<nextSock, pendingChallenge, didTryRegister, attesting, registered>>
  BY DEF OnClose, Close, handshake
<1>2. Elems(c2s)' = {} /\ Elems(s2c)' = {}
  BY <1>1 DEF Elems
<1>3. nextSock # 0
  BY DEF HandshakeInv, SocketInv
<1>4. SocketInv' /\ Moving'
  BY <1>1, <1>3 DEF SocketInv, Moving
<1>5. KnockInv' /\ OkInv'
  BY <1>1, <1>2 DEF KnockInv, OkInv, NoKnock, OneKnock
<1>6. ChallengeInv'
  BY <1>1, <1>2 DEF HandshakeInv, ChallengeInv, Known
<1> QED BY <1>4, <1>5, <1>6 DEF HandshakeInv

\* The handshake begins.
LEMMA OpensStep ==
    ASSUME TypeOK, HandshakeInv, SocketOpens
    PROVE  HandshakeInv'
<1> DEFINE f == [type |-> "connect", rid |-> 0, arg |-> 0]
<1>1. /\ sock = "connecting" /\ sock' = "open" /\ c2s = <<>> /\ s2c = <<>>
      /\ c2s' = Append(c2s, f) /\ s2c' = s2c /\ nextSock # 0
  BY DEF SocketOpens, HandshakeInv, SocketInv
<1>2. UNCHANGED <<closedByUser, ws, reconnectTimer, pending, pendingChallenge, didTryRegister,
                  attesting, nextSock, registered>>
  BY DEF SocketOpens, client, handshake, relay
<1>3. f \in ClientFrame /\ <<>> \in Seq(ClientFrame)
  BY DEF ClientFrame
<1>4. Elems(c2s)' = {f} /\ Elems(s2c)' = {}
  <2>1. Append(<<>>, f) = <<f>>
    OBVIOUS
  <2>2. Elems(<<f>>) = {f} /\ Elems(<<>>) = {}
    BY DEF Elems
  <2>3. Elems(c2s') = {f} /\ Elems(s2c') = {}
    BY <1>1, <2>1, <2>2
  <2> QED BY <2>3 DEF Elems
<1>5. SocketInv' /\ Moving'
  BY <1>1, <1>2, <1>4 DEF HandshakeInv, SocketInv, Moving, WayOn
<1>6. pendingChallenge < nextSock /\ pendingChallenge \in Nat /\ nextSock \in Nat
  BY <1>1 DEF HandshakeInv, ChallengeInv, TypeOK
<1>7. KnockInv'
  <2>1. NoKnock(<<>>, registered) /\ OneKnock(<<>>, registered)
    BY DEF NoKnock, OneKnock
  <2>2. OneKnock(Append(<<>>, f), registered)
    BY <1>3, <2>1, KnockAppend
  <2> QED BY <1>1, <1>2, <1>6, <2>1, <2>2 DEF KnockInv, TriedHere
<1>8. OkInv'
  BY <1>4 DEF OkInv
<1>9. ChallengeInv'
  BY <1>1, <1>2, <1>4, <1>6 DEF HandshakeInv, ChallengeInv, Known, TriedHere
<1> QED BY <1>5, <1>7, <1>8, <1>9 DEF HandshakeInv

\* What an arriving frame takes off the wire.
LEMMA ArrivesHears ==
    ASSUME NEW type, Arrives(type)
    PROVE  Hears /\ s2c # <<>> /\ Head(s2c).type = type /\ s2c' = Tail(s2c)
           /\ sock \in {"open", "closing"}
BY DEF Arrives, Hears

\* A knock that arrives is the only one of this socket, and none was answered before.
LEMMA KnockArrives ==
    ASSUME TypeOK, HandshakeInv, s2c # <<>>, Head(s2c).type \in {"connected", "notRegistered"}
    PROVE  NoKnock(c2s, registered) /\ NoKnock(Tail(s2c), registered) /\ ~TriedHere
BY KnockTail DEF HandshakeInv, KnockInv, TypeOK, Knock

\* The authenticate frame goes out on the socket of its challenge.
LEMMA AuthenticateElems ==
    ASSUME TypeOK, NEW c \in Nat, SendAuthenticate(c)
    PROVE  \E f \in ClientFrame :
              /\ f.type = "authenticate" /\ f.arg = c
              /\ c2s' = c2s \/ (c2s' = Append(c2s, f) /\ sock = "open")
              /\ Elems(c2s') \subseteq Elems(c2s) \cup {f}
              /\ ws /\ sock = "open" => f \in Elems(c2s')
<1> DEFINE f == [type |-> "authenticate", rid |-> 0, arg |-> c]
<1>1. f \in ClientFrame
  BY DEF ClientFrame
<1>2. c2s' = IF ws /\ sock = "open" THEN Append(c2s, f) ELSE c2s
  BY DEF SendAuthenticate, Transmit
<1>3. Elems(Append(c2s, f)) = Elems(c2s) \cup {f}
  BY <1>1, ElemsAppend DEF TypeOK
<1> QED BY <1>1, <1>2, <1>3

LEMMA OnConnectedHandshake ==
    ASSUME TypeOK, IInv, HandshakeInv, OnConnected
    PROVE  HandshakeInv'
<1>1. /\ s2c # <<>> /\ s2c' = Tail(s2c) /\ Hears /\ sock \in {"open", "closing"}
      /\ Head(s2c).type = "connected" /\ Head(s2c) \in Elems(s2c)
  BY ArrivesHears, ElemsTail DEF OnConnected, TypeOK
<1>2. Head(s2c).arg = nextSock
  BY <1>1 DEF HandshakeInv, ChallengeInv
<1>3. nextSock \in Nat /\ pendingChallenge' = nextSock /\ ~didTryRegister' /\ SendAuthenticate(nextSock)
      /\ UNCHANGED <<client, pending, attesting, sock, nextSock, registered>>
  BY <1>2 DEF OnConnected, TypeOK, relay
<1>4. PICK f \in ClientFrame :
              /\ f.type = "authenticate" /\ f.arg = nextSock
              /\ c2s' = c2s \/ (c2s' = Append(c2s, f) /\ sock = "open")
              /\ Elems(c2s') \subseteq Elems(c2s) \cup {f}
              /\ ws /\ sock = "open" => f \in Elems(c2s')
  BY <1>3, AuthenticateElems
<1>5. NoKnock(c2s, registered) /\ NoKnock(Tail(s2c), registered) /\ ~TriedHere
  BY <1>1, KnockArrives
<1>6. Elems(s2c') \subseteq Elems(s2c)
  BY <1>1, HearsElems
<1>7. SocketInv'
  BY <1>1, <1>3, <1>4 DEF HandshakeInv, SocketInv, client
<1>8. Moving'
  BY <1>3, <1>4 DEF HandshakeInv, SocketInv, Moving, WayOn, client, Elems
<1>9. OkInv'
  BY <1>3, <1>6 DEF HandshakeInv, OkInv, Elems
<1>10. KnockInv'
  <2>1. OneKnock(c2s', registered)
    <3>1. OneKnock(Append(c2s, f), registered)
      BY <1>5, KnockAppend DEF TypeOK
    <3> QED BY <1>4, <1>5, <3>1 DEF OneKnock, NoKnock
  <2>2. OneKnock(s2c', registered) /\ NoKnock(s2c', registered)
    BY <1>1, <1>5 DEF NoKnock, OneKnock
  <2> QED BY <1>3, <2>1, <2>2 DEF KnockInv, TriedHere
<1>11. ChallengeInv'
  <2>1. \A p \in pending : p.type # "register" /\ (p.type = "attested" => Known(p.arg)')
    BY <1>3, <1>5 DEF HandshakeInv, ChallengeInv, Known
  <2>2. \A c \in attesting : Known(c)'
    BY <1>3 DEF HandshakeInv, ChallengeInv, Known
  <2>3. \A m \in Elems(s2c') : m.type = "connected" => m.arg = nextSock
    BY <1>6 DEF HandshakeInv, ChallengeInv
  <2>4. \A g \in Elems(c2s') : g.type = "authenticate" => g.arg = nextSock
    BY <1>4 DEF HandshakeInv, ChallengeInv
  <2> QED BY <1>1, <1>3, <2>1, <2>2, <2>3, <2>4 DEF ChallengeInv, Elems
<1> QED BY <1>7, <1>8, <1>9, <1>10, <1>11 DEF HandshakeInv

LEMMA OnAuthenticatedHandshake ==
    ASSUME TypeOK, IInv, HandshakeInv, OnAuthenticated
    PROVE  HandshakeInv'
<1>1. Hears
  BY ArrivesHears DEF OnAuthenticated
<1>2. PICK type \in {"send", "rpc"}, arg \in Nat : Speaks(type, arg, {})
  BY FlushSpeaks DEF OnAuthenticated, TypeOK
<1>3. UNCHANGED <<nextSock, registered, handshake, sock, closedByUser, ws, reconnectTimer>>
      /\ status' = "connected"
  BY DEF OnAuthenticated, relay
<1>4. ChallengeInv' /\ KnockInv' /\ OkInv'
  BY <1>1, <1>2, <1>3, KeepStep DEF handshake
<1>5. SocketInv'
  BY <1>1, <1>2, <1>3, SameSocket
<1>6. Moving'
  BY <1>3 DEF Moving
<1> QED BY <1>4, <1>5, <1>6 DEF HandshakeInv

\* A notRegistered that arrives leads to a register request: none was made on this socket.
LEMMA OnNotRegisteredHandshake ==
    ASSUME TypeOK, IInv, HandshakeInv, OnNotRegistered
    PROVE  HandshakeInv'
<1>1. /\ s2c # <<>> /\ s2c' = Tail(s2c) /\ Hears /\ sock \in {"open", "closing"}
      /\ Head(s2c).type = "notRegistered" /\ Head(s2c) \in Elems(s2c)
  BY ArrivesHears, ElemsTail DEF OnNotRegistered, TypeOK
<1>2. NoKnock(c2s, registered) /\ NoKnock(Tail(s2c), registered) /\ ~TriedHere
  BY <1>1, KnockArrives
<1>3. pendingChallenge = nextSock /\ ~didTryRegister
  BY <1>1, <1>2 DEF HandshakeInv, ChallengeInv, TriedHere, TypeOK
<1>4. Ask("register", 0, {}) /\ didTryRegister'
      /\ UNCHANGED <<client, pendingChallenge, attesting, sock, nextSock, registered>>
  BY <1>3 DEF OnNotRegistered, relay
<1>5. Speaks("register", 0, {})
  BY <1>4 DEF Speaks, RequestTypes
<1>6. PICK f \in ClientFrame :
              /\ f.type = "register" /\ f.arg = 0
              /\ pending' \subseteq pending \cup {f} /\ f \in pending'
              /\ c2s' = c2s \/ (c2s' = Append(c2s, f) /\ sock = "open")
              /\ Elems(c2s') \subseteq Elems(c2s) \cup {f}
  BY <1>4, <1>5, SpeaksElems
<1>7. SocketInv' /\ OkInv'
  BY <1>1, <1>4, <1>5, SameSocket, OkStep DEF client
<1>8. Moving'
  BY <1>6 DEF Moving, WayOn, Handshakes
<1>9. KnockInv'
  <2>1. NoKnock(c2s', registered)
    <3>1. NoKnock(Append(c2s, f), registered)
      BY <1>2, <1>6, KnockAppend DEF TypeOK, Knock
    <3> QED BY <1>2, <1>6, <3>1
  <2>2. NoKnock(s2c', registered)
    BY <1>1, <1>2
  <2> QED BY <1>4, <2>1, <2>2 DEF KnockInv, NoKnock, OneKnock
<1>10. ChallengeInv'
  <2>1. Elems(s2c') \subseteq Elems(s2c)
    BY <1>1, HearsElems
  <2>2. \A c : Known(c) => Known(c)'
    BY <1>4 DEF Known
  <2>3. TriedHere'
    BY <1>3, <1>4 DEF TriedHere
  <2>4. \A p \in pending' : p.type = "attested" => Known(p.arg)'
    BY <1>6, <2>2 DEF HandshakeInv, ChallengeInv
  <2>5. \A c \in attesting : Known(c)'
    BY <2>2 DEF HandshakeInv, ChallengeInv
  <2>6. \A m \in Elems(s2c') : m.type = "connected" => m.arg = nextSock
    BY <2>1 DEF HandshakeInv, ChallengeInv
  <2>7. \A g \in Elems(c2s') : g.type = "authenticate" => g.arg = nextSock
    BY <1>6 DEF HandshakeInv, ChallengeInv
  <2> QED BY <1>1, <1>3, <1>4, <2>3, <2>4, <2>5, <2>6, <2>7 DEF HandshakeInv, ChallengeInv, Elems
<1> QED BY <1>7, <1>8, <1>9, <1>10 DEF HandshakeInv

\* The authenticate that follows an ok to a register request.
LEMMA RegisteredStep ==
    ASSUME TypeOK, HandshakeInv, NEW p \in pending, p.type \in Handshakes, registered,
           p.type = "attested" => p.arg = nextSock,
           SendAuthenticate(pendingChallenge), pending' = pending \ {p}, Hears,
           sock \in {"open", "closing"},
           UNCHANGED <<client, handshake, sock, nextSock, registered>>
    PROVE  HandshakeInv'
<1>1. pendingChallenge = nextSock /\ nextSock \in Nat
  BY DEF HandshakeInv, ChallengeInv, Known, TriedHere, Handshakes, TypeOK
<1>2. PICK f \in ClientFrame :
              /\ f.type = "authenticate" /\ f.arg = nextSock
              /\ c2s' = c2s \/ (c2s' = Append(c2s, f) /\ sock = "open")
              /\ Elems(c2s') \subseteq Elems(c2s) \cup {f}
              /\ ws /\ sock = "open" => f \in Elems(c2s')
  BY <1>1, AuthenticateElems
<1>3. /\ Elems(s2c') \subseteq Elems(s2c)
      /\ OneKnock(s2c, registered) => OneKnock(s2c', registered)
      /\ NoKnock(s2c, registered) => NoKnock(s2c', registered)
  BY HearsElems
<1>4. SocketInv'
  BY <1>2 DEF HandshakeInv, SocketInv, client
<1>5. Moving'
  BY <1>2 DEF HandshakeInv, SocketInv, Moving, WayOn, client, Elems
<1>6. OkInv'
  BY <1>3 DEF HandshakeInv, OkInv, Elems
<1>7. KnockInv'
  <2>1. /\ OneKnock(c2s, registered) => OneKnock(c2s', registered)
        /\ NoKnock(c2s, registered) => NoKnock(c2s', registered)
    BY <1>2, KnockAppend DEF TypeOK, Knock
  <2> QED BY <1>3, <2>1 DEF HandshakeInv, KnockInv, TriedHere, handshake
<1>8. ChallengeInv'
  BY <1>1, <1>2, <1>3 DEF HandshakeInv, ChallengeInv, Known, TriedHere, handshake, Elems
<1> QED BY <1>4, <1>5, <1>6, <1>7, <1>8 DEF HandshakeInv

LEMMA OnOkHandshake ==
    ASSUME TypeOK, IInv, HandshakeInv, OnOk
    PROVE  HandshakeInv'
<1>1. /\ s2c # <<>> /\ Hears /\ sock \in {"open", "closing"}
      /\ Head(s2c).type = "ok" /\ Head(s2c) \in Elems(s2c)
      /\ UNCHANGED <<client, handshake, sock, nextSock, registered>>
  BY ArrivesHears, ElemsTail DEF OnOk, TypeOK, relay
<1>2. ASSUME NEW p \in pending, p.rid = Head(s2c).rid, Resolved(p)
      PROVE  HandshakeInv'
  <2>1. CASE p.type = "send" /\ SendResolved(p)
    <3>1. Shift(outbound) \in Seq(Envelopes)
      BY ShiftType DEF TypeOK
    <3>2. PICK type \in {"send", "rpc"}, arg \in Nat : Speaks(type, arg, {p})
      BY <2>1, <3>1, FlushSpeaks, QuietSpeaks DEF SendResolved
    <3> QED BY <1>1, <2>1, <3>2, OrdinaryStep DEF Handshakes
  <2>2. CASE p.type \in {"register", "attested"} /\ SendAuthenticate(pendingChallenge)
             /\ pending' = pending \ {p}
    <3>1. registered /\ (p.type = "attested" => p.arg = nextSock)
      BY <1>1, <1>2, <2>2 DEF HandshakeInv, OkInv, Handshakes
    <3> QED BY <1>1, <2>2, <3>1, RegisteredStep DEF Handshakes
  <2>3. CASE p.type = "rpc" /\ AskNothing({p})
    BY <1>1, <2>3, QuietSpeaks, OrdinaryStep DEF Handshakes
  <2> QED BY <1>2, <2>1, <2>2, <2>3 DEF Resolved
<1>3. CASE UNCHANGED <<requests, queue, rpc>>
  <2>1. AskNothing({})
    BY <1>3 DEF AskNothing, requests
  <2> QED BY <1>1, <2>1, QuietSpeaks, OrdinaryStep
<1> QED BY <1>2, <1>3 DEF OnOk

\* The continuations of a request that was refused or timed out.
LEMMA RejectedHandshake ==
    ASSUME TypeOK, IInv, HandshakeInv, NEW p \in pending, NEW code, Rejected(p, code), Hears,
           s2c' = s2c \/ Head(s2c).type \notin {"connected", "authenticated", "notRegistered"},
           UNCHANGED <<pendingChallenge, didTryRegister, nextSock, registered>>
    PROVE  HandshakeInv'
<1>1. CASE p.type = "send" /\ SendRejected(p) /\ UNCHANGED <<client, sock, attesting, rpc>>
  <2>1. outbound \in Seq(Envelopes) /\ Shift(outbound) \in Seq(Envelopes)
    BY ShiftType DEF TypeOK
  <2>2. PICK type \in {"send", "rpc"}, arg \in Nat : Speaks(type, arg, {p})
    BY <1>1, <2>1, FlushSpeaks, QuietSpeaks DEF SendRejected
  <2> QED BY <1>1, <2>2, OrdinaryStep DEF Handshakes, handshake
<1>2. CASE p.type = "register" /\ attesting' = attesting \cup {pendingChallenge}
           /\ AskNothing({p}) /\ UNCHANGED <<client, sock, queue, rpc>>
  <2>1. pendingChallenge = nextSock
    BY <1>2 DEF HandshakeInv, ChallengeInv, TriedHere
  <2>2. ChallengeInv' /\ KnockInv' /\ OkInv'
    BY <1>2, <2>1, QuietSpeaks, KeepStep
  <2>3. Moving' /\ SocketInv'
    BY <1>2, <2>1, QuietSpeaks, WayOnStep, SameSocket DEF client
  <2> QED BY <2>2, <2>3 DEF HandshakeInv
<1>3. CASE (CloseSocket \/ Halt) /\ AskNothing({p}) /\ UNCHANGED attesting
  BY <1>3, LeavingStep
<1>4. CASE p.type = "rpc" /\ AskNothing({p}) /\ UNCHANGED <<client, sock, queue, attesting>>
  BY <1>4, QuietSpeaks, OrdinaryStep DEF Handshakes, handshake
<1> QED BY <1>1, <1>2, <1>3, <1>4 DEF Rejected

LEMMA OnErrorHandshake ==
    ASSUME TypeOK, IInv, HandshakeInv, OnError
    PROVE  HandshakeInv'
<1>1. /\ Hears /\ Head(s2c).type \in {"error", "attestationRequired"}
      /\ UNCHANGED <<pendingChallenge, didTryRegister, nextSock, registered>>
  BY ArrivesHears DEF OnError, relay
<1>2. CASE UNCHANGED <<client, sock, requests, queue, attesting, rpc>>
  <2>1. AskNothing({})
    BY <1>2 DEF AskNothing, requests
  <2> QED BY <1>1, <1>2, <2>1, QuietSpeaks, OrdinaryStep DEF handshake
<1> QED BY <1>1, <1>2, RejectedHandshake DEF OnError

\* The relay answers every step of the handshake with the next one.
LEMMA ServeAnswers ==
    ASSUME TypeOK, NEW f \in ClientFrame, Serve(f), f.type = "authenticate" => f.arg = nextSock
    PROVE  /\ registered => registered'
           /\ \E m \in ServerFrame :
              /\ s2c' = Append(s2c, m) /\ m.rid = f.rid
              /\ m.type = "connected" => f.type = "connect" /\ m.arg = nextSock
              /\ m.type = "notRegistered" => f.type = "authenticate" /\ ~registered
              /\ f.type = "connect" => m.type = "connected"
              /\ f.type = "authenticate" => m.type \in {"authenticated", "notRegistered"}
              /\ m.type = "ok" /\ f.type \in Handshakes =>
                    registered' /\ (f.type = "attested" => f.arg = nextSock)
<1>1. f.rid \in Nat /\ nextSock \in Nat /\ (f.type \in {"connect", "authenticate"} => f.rid = 0)
  BY DEF ClientFrame, Request, RequestTypes, TypeOK
<1>2. registered => registered'
  BY DEF Serve, relay
<1>3. \E type \in {"connected", "authenticated", "ok", "error", "attestationRequired", "notRegistered"},
         arg \in Nat :
              /\ Answer(type, f.rid, arg)
              /\ type = "connected" => f.type = "connect" /\ arg = nextSock
              /\ type = "notRegistered" => f.type = "authenticate" /\ ~registered
              /\ f.type = "connect" => type = "connected"
              /\ f.type = "authenticate" => type \in {"authenticated", "notRegistered"}
              /\ type = "ok" /\ f.type \in Handshakes =>
                    registered' /\ (f.type = "attested" => f.arg = nextSock)
  <2>1. CASE f.type = "connect"
    BY <1>1, <2>1 DEF Serve, RequestTypes, Handshakes
  <2>2. CASE f.type = "authenticate"
    BY <1>1, <2>2 DEF Serve, RequestTypes, Handshakes
  <2>3. CASE f.type \in {"register", "attested"}
    BY <1>1, <2>3 DEF Serve, Handshakes
  <2>4. CASE f.type \in {"send", "rpc"}
    BY <1>1, <2>4 DEF Serve, Handshakes
  <2> QED BY <2>1, <2>2, <2>3, <2>4 DEF ClientFrame, Request, RequestTypes
<1>4. PICK type \in {"connected", "authenticated", "ok", "error", "attestationRequired", "notRegistered"},
           arg \in Nat :
              /\ Answer(type, f.rid, arg)
              /\ type = "connected" => f.type = "connect" /\ arg = nextSock
              /\ type = "notRegistered" => f.type = "authenticate" /\ ~registered
              /\ f.type = "connect" => type = "connected"
              /\ f.type = "authenticate" => type \in {"authenticated", "notRegistered"}
              /\ type = "ok" /\ f.type \in Handshakes =>
                    registered' /\ (f.type = "attested" => f.arg = nextSock)
  BY <1>3
<1> DEFINE m == [type |-> type, rid |-> f.rid, arg |-> arg]
<1>5. m \in ServerFrame /\ s2c' = Append(s2c, m)
  BY <1>1, <1>4 DEF ServerFrame, Answer
<1> QED BY <1>2, <1>4, <1>5

LEMMA RelayServesHandshake ==
    ASSUME TypeOK, IInv, HandshakeInv, RelayServes
    PROVE  HandshakeInv'
<1> DEFINE f == Head(c2s)
<1>1. /\ c2s # <<>> /\ c2s' = Tail(c2s) /\ f \in ClientFrame /\ f \in Elems(c2s)
      /\ Elems(c2s') \subseteq Elems(c2s) /\ Elems(c2s) \subseteq {f} \cup Elems(c2s')
      /\ sock \in {"open", "closing"} /\ Serve(f)
      /\ UNCHANGED <<client, pending, handshake, sock, nextSock>>
  BY ElemsTail, ElemsSplit DEF RelayServes, TypeOK
<1>2. f.type = "authenticate" => f.arg = nextSock /\ pendingChallenge = nextSock
  BY <1>1 DEF HandshakeInv, ChallengeInv
<1> HIDE DEF f
<1>3. registered => registered'
  BY <1>1, <1>2, ServeAnswers
<1>4. PICK m \in ServerFrame :
              /\ s2c' = Append(s2c, m) /\ m.rid = f.rid
              /\ m.type = "connected" => f.type = "connect" /\ m.arg = nextSock
              /\ m.type = "notRegistered" => f.type = "authenticate" /\ ~registered
              /\ f.type = "connect" => m.type = "connected"
              /\ f.type = "authenticate" => m.type \in {"authenticated", "notRegistered"}
              /\ m.type = "ok" /\ f.type \in Handshakes =>
                    registered' /\ (f.type = "attested" => f.arg = nextSock)
  BY <1>1, <1>2, ServeAnswers
<1>5. Elems(s2c') = Elems(s2c) \cup {m}
  BY <1>4, ElemsAppend DEF TypeOK
<1>6. SocketInv'
  BY <1>1 DEF HandshakeInv, SocketInv, client
<1>7. Moving'
  <2> SUFFICES ASSUME sock = "open", ~closedByUser, status # "connected"
               PROVE  WayOn'
    BY <1>1 DEF Moving, client
  <2>1. WayOn
    BY DEF HandshakeInv, Moving
  <2>2. CASE \E g \in Elems(c2s) : g.type \in {"connect", "authenticate"}
    <3>1. CASE f.type \in {"connect", "authenticate"}
      BY <1>4, <1>5, <3>1 DEF WayOn, Elems
    <3>2. CASE f.type \notin {"connect", "authenticate"}
      BY <1>1, <2>2, <3>2 DEF WayOn, Elems
    <3> QED BY <3>1, <3>2
  <2>3. CASE \E g \in Elems(s2c) : g.type \in {"connected", "authenticated", "notRegistered"}
    BY <1>5, <2>3 DEF WayOn, Elems
  <2>4. CASE (\E p \in pending : p.type \in Handshakes) \/ nextSock \in attesting
    BY <1>1, <2>4 DEF WayOn, handshake
  <2> QED BY <2>1, <2>2, <2>3, <2>4 DEF WayOn
<1>8. OkInv'
  <2> SUFFICES ASSUME NEW p \in pending, NEW n \in Elems(s2c'), p.type \in Handshakes, n.type = "ok", n.rid = p.rid
               PROVE  registered' /\ (p.type = "attested" => p.arg = nextSock)
    BY <1>1 DEF OkInv, Elems
  <2>1. CASE n = m
    <3>1. p = f
      BY <1>1, <1>4, <2>1 DEF IInv, RidsUnique
    <3> QED BY <1>4, <2>1, <3>1
  <2>2. CASE n \in Elems(s2c)
    BY <1>3, <2>2 DEF HandshakeInv, OkInv
  <2> QED BY <1>5, <2>1, <2>2
<1>9. KnockInv'
  <2>0. /\ c2s \in Seq(ClientFrame) /\ s2c \in Seq(ServerFrame)
        /\ TriedHere' = TriedHere
    BY <1>1 DEF TypeOK, TriedHere, handshake
  <2>1. /\ OneKnock(c2s, registered') /\ OneKnock(s2c, registered')
        /\ NoKnock(c2s, registered) => NoKnock(c2s, registered')
        /\ NoKnock(s2c, registered) => NoKnock(s2c, registered')
    BY <1>3, KnockRecord DEF HandshakeInv, KnockInv
  <2>2. /\ OneKnock(c2s', registered')
        /\ NoKnock(c2s, registered') => NoKnock(c2s', registered')
    BY <1>1, <2>0, <2>1, KnockTail
  <2>3. CASE Knock(m, registered')
    <3>1. Knock(f, registered)
      BY <1>4, <2>3 DEF Knock, ServerFrame
    <3>2. ~NoKnock(c2s, registered) /\ NoKnock(Tail(c2s), registered)
      BY <1>1, <2>0, <3>1, KnockTail DEF HandshakeInv, KnockInv, f
    <3>3. NoKnock(s2c, registered') /\ ~TriedHere
      BY <2>1, <3>2 DEF HandshakeInv, KnockInv
    <3>4. NoKnock(c2s', registered')
      BY <1>1, <1>3, <3>2, KnockRecord
    <3>5. OneKnock(s2c', registered')
      BY <1>4, <2>0, <3>3, KnockAppend
    <3> QED BY <2>0, <2>2, <3>3, <3>4, <3>5 DEF KnockInv, NoKnock, OneKnock
  <2>4. CASE ~Knock(m, registered')
    <3>1. /\ OneKnock(s2c', registered')
          /\ NoKnock(s2c, registered') => NoKnock(s2c', registered')
      BY <1>4, <2>0, <2>1, <2>4, KnockAppend
    <3> QED BY <2>0, <2>1, <2>2, <3>1 DEF HandshakeInv, KnockInv, NoKnock, OneKnock
  <2> QED BY <2>3, <2>4
<1>10. ChallengeInv'
  <2>1. \A c : Known(c)' <=> Known(c)
    BY <1>1 DEF Known, handshake
  <2>2. TriedHere' <=> TriedHere
    BY <1>1 DEF TriedHere, handshake
  <2>3. \A n \in Elems(s2c') : /\ n.type = "connected" => n.arg = nextSock
                               /\ n.type = "notRegistered" => pendingChallenge = nextSock
    BY <1>2, <1>4, <1>5 DEF HandshakeInv, ChallengeInv
  <2>4. \A g \in Elems(c2s') : g.type = "authenticate" => g.arg = nextSock /\ pendingChallenge = nextSock
    BY <1>1 DEF HandshakeInv, ChallengeInv
  <2> QED BY <1>1, <2>1, <2>2, <2>3, <2>4 DEF HandshakeInv, ChallengeInv, handshake, Elems
<1> QED BY <1>6, <1>7, <1>8, <1>9, <1>10 DEF HandshakeInv

----------------------------------------------------------------------------
LEMMA ApplicationHandshake ==
    ASSUME TypeOK, IInv, HandshakeInv, Application
    PROVE  HandshakeInv'
<1> USE DEF requests, relay
<1>1. CASE Start
  BY <1>1, OpenStep
<1>2. CASE Stop
  <2>1. AskNothing({}) /\ Hears /\ Halt
        /\ UNCHANGED <<nextSock, registered, pendingChallenge, didTryRegister, attesting>>
    BY <1>2 DEF Stop, AskNothing, Hears, handshake
  <2> QED BY <2>1, LeavingStep
<1>3. CASE RpcCall \/ RpcReadyTimeout \/ RpcRequestThrows
  <2>1. AskNothing({}) /\ Hears /\ s2c' = s2c
        /\ UNCHANGED <<nextSock, registered, handshake, client, sock>>
    BY <1>3 DEF RpcCall, RpcReadyTimeout, RpcRequestThrows, AskNothing, Hears
  <2> QED BY <2>1, QuietSpeaks, OrdinaryStep
<1>4. CASE RpcRequest
  <2>1. Speaks("rpc", 0, {}) /\ Hears /\ s2c' = s2c
        /\ UNCHANGED <<nextSock, registered, handshake, client, sock>>
    BY <1>4 DEF RpcRequest, Speaks, Hears, RequestTypes
  <2> QED BY <2>1, OrdinaryStep
<1>5. ASSUME NEW e \in Envelopes, SendEnvelope(e)
      PROVE  HandshakeInv'
  <2>1. Append(outbound, e) \in Seq(Envelopes)
    BY DEF TypeOK
  <2>2. PICK type \in {"send", "rpc"}, arg \in Nat : Speaks(type, arg, {})
    BY <1>5, <2>1, FlushSpeaks, QuietSpeaks DEF SendEnvelope
  <2>3. Hears /\ s2c' = s2c /\ UNCHANGED <<nextSock, registered, handshake, client, sock>>
    BY <1>5 DEF SendEnvelope, Hears
  <2> QED BY <2>2, <2>3, OrdinaryStep
<1> QED BY <1>1, <1>2, <1>3, <1>4, <1>5 DEF Application

LEMMA SocketEventsHandshake ==
    ASSUME TypeOK, IInv, HandshakeInv, SocketEvents
    PROVE  HandshakeInv'
<1>1. CASE SocketError
  <2>1. AskNothing({}) /\ Hears /\ CloseSocket
        /\ UNCHANGED <<nextSock, registered, pendingChallenge, didTryRegister, attesting>>
    BY <1>1 DEF SocketError, AskNothing, Hears, requests, handshake, relay
  <2> QED BY <2>1, LeavingStep
<1>2. CASE SocketClosed \/ NetworkDrop
  BY <1>2, CloseStep DEF SocketClosed, NetworkDrop
<1> QED BY <1>1, <1>2, OpensStep, OpenStep DEF SocketEvents

LEMMA TimersHandshake ==
    ASSUME TypeOK, IInv, HandshakeInv, Timers
    PROVE  HandshakeInv'
<1>1. PICK p \in pending : RequestTimeout(p)
  BY DEF Timers
<1>2. Rejected(p, "error") /\ Hears /\ s2c' = s2c
      /\ UNCHANGED <<pendingChallenge, didTryRegister, nextSock, registered>>
  BY <1>1 DEF RequestTimeout, Hears, relay
<1> QED BY <1>2, RejectedHandshake

LEMMA AttestationHandshake ==
    ASSUME TypeOK, IInv, HandshakeInv, Attestation
    PROVE  HandshakeInv'
<1>1. PICK c \in attesting : AttestSucceeds(c) \/ AttestFails(c)
  BY DEF Attestation
<1>2. /\ attesting' = attesting \ {c} /\ Hears /\ s2c' = s2c
      /\ UNCHANGED <<pendingChallenge, didTryRegister, nextSock, registered>>
  BY <1>1 DEF AttestSucceeds, AttestFails, Hears, relay
<1>3. CASE Halt /\ (AskNothing({}) \/ AttestFails(c))
  <2>1. AskNothing({})
    BY <1>3 DEF AttestFails, AskNothing, requests
  <2> QED BY <1>2, <1>3, <2>1, LeavingStep
<1>4. CASE Ask("attested", c, {}) /\ UNCHANGED <<client, sock>>
  <2>1. Speaks("attested", c, {}) /\ Known(c)
    BY <1>4 DEF Speaks, RequestTypes, HandshakeInv, ChallengeInv, TypeOK
  <2>2. ChallengeInv' /\ KnockInv' /\ OkInv'
    BY <1>2, <1>4, <2>1, KeepStep
  <2>3. Moving'
    BY <1>2, <1>4, <2>1, WayOnStep DEF client
  <2>4. SocketInv'
    BY <1>2, <1>4, <2>1, SameSocket DEF client
  <2> QED BY <2>2, <2>3, <2>4 DEF HandshakeInv
<1> QED BY <1>1, <1>3, <1>4 DEF AttestSucceeds, AttestFails

LEMMA HandshakeStep == TypeOK /\ IInv /\ HandshakeInv /\ [Next]_vars => HandshakeInv'
<1> SUFFICES ASSUME TypeOK, IInv, HandshakeInv, [Next]_vars PROVE HandshakeInv'
  OBVIOUS
<1>1. CASE UNCHANGED vars
  <2>1. AskNothing({}) /\ Hears /\ s2c' = s2c
        /\ UNCHANGED <<nextSock, registered, handshake, client, sock>>
    BY <1>1 DEF vars, AskNothing, Hears, requests, relay
  <2> QED BY <2>1, QuietSpeaks, OrdinaryStep
<1>2. CASE Frames
  BY <1>2, OnConnectedHandshake, OnAuthenticatedHandshake, OnNotRegisteredHandshake, OnOkHandshake, OnErrorHandshake DEF Frames
<1> QED BY <1>1, <1>2, ApplicationHandshake, SocketEventsHandshake, TimersHandshake, AttestationHandshake, RelayServesHandshake DEF Next

LEMMA HandshakeInit == Init => HandshakeInv
BY DEF Init, HandshakeInv, SocketInv, ChallengeInv, KnockInv, OkInv, Moving, NoKnock, OneKnock, Elems, Known, TriedHere

\* A client that was not stopped has a way on: the reconnect timer when, and only when, it
\* has no socket, and a step of the handshake on an open one that is not authenticated.
THEOREM AlwaysAWayOn == Spec => []NeverWedged
<1>1. HandshakeInv => NeverWedged
  <2>1. WayOn => \/ c2s # <<>> \/ s2c # <<>>
                 \/ \E p \in pending : p.type \in {"register", "attested"}
                 \/ nextSock \in attesting
    BY DEF WayOn, Elems, Handshakes
  <2> QED BY <2>1 DEF HandshakeInv, SocketInv, Moving, NeverWedged
<1> QED BY <1>1, HandshakeInit, HandshakeStep, TypeCorrect, Invariance, PTL DEF Spec

=============================================================================
