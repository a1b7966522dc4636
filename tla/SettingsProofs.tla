--------------------------- MODULE SettingsProofs ---------------------------
(***************************************************************************)
(* Consent and agreement of two phones over a retention, for every set of  *)
(* values and every number of requests, renames and troubles.              *)
(*                                                                         *)
(* What p has sent and its peer has not handled is one sequence, Pipe(p):  *)
(* the relay moves a message from one half of it to the other.  The        *)
(* invariants speak of the pipes, and the lemmas say how each kind of step *)
(* changes them: it sends, hands over, handles or loses.                   *)
(***************************************************************************)
EXTENDS Settings, SequenceTheorems, TLAPS

Tasks == {NoTask} \cup [op : {"request", "accept", "grant"}, v : Value]
         \cup [op : {"cancel"}, v : {Default}]
Wire == [t : {"request", "accept"}, v : Value] \cup [t : {"cancel"}, v : {Default}] \cup Names

Pipe(p) == inbox[Peer(p)] \o out[p]
Indices(s) == 1..Len(s)
Sent(p) == {Pipe(p)[i] : i \in Indices(Pipe(p))}

\* The shape of the state, messages and tasks included.
Shape ==
    /\ plan \in Plans
    /\ value \in [Phone -> Value \cup {Default}]
    /\ pending \in [Phone -> {NoRequest} \cup [v : Value, incoming : BOOLEAN]]
    /\ task \in [Phone -> Tasks]
    /\ out \in [Phone -> Seq(Wire)] /\ inbox \in [Phone -> Seq(Wire)]
    /\ name \in [Phone -> Nat] /\ copy \in [Phone -> Nat] /\ asked \in [Phone -> Nat]
    /\ flagged \in [Phone -> BOOLEAN] /\ renaming \in [Phone -> BOOLEAN]
    /\ syncs \in [Phone -> Nat]
    /\ troubles \in 0..plan.troubles
    /\ asks \in [Phone -> SUBSET Value] /\ grants \in [Phone -> SUBSET Value]
    /\ crossed \in BOOLEAN /\ overtaken \in [Phone -> BOOLEAN] /\ lost \subseteq Wire
    /\ \A p \in Phone : name[p] <= plan.renames[p] /\ asked[p] <= plan.requests[p]

\* No name is on its way that was not given yet.
NamesInv ==
    \A p \in Phone :
        /\ copy[Peer(p)] <= name[p]
        /\ \A m \in Sent(p) : m.t = "name" => m.v <= name[p]

TypeInv == Shape /\ NamesInv

-----------------------------------------------------------------------------
(* Phones and pipes.                                                       *)

\* There are two phones, each the peer of the other.
LEMMA Peers ==
    /\ Phone = {"a", "b"} /\ Peer("a") = "b" /\ Peer("b") = "a"
    /\ \A p \in Phone : Peer(p) \in Phone /\ Peer(p) # p /\ Peer(Peer(p)) = p
    /\ \A p, q \in Phone : q = p \/ q = Peer(p)
<1>1. Phone = {"a", "b"} /\ Peer("a") = "b" /\ Peer("b") = "a"
  BY DEF Phone, Peer
<1> QED BY <1>1

\* Appending to a concatenation.
LEMMA ConcatAppends ==
    ASSUME NEW S, NEW s \in Seq(S), NEW t \in Seq(S), NEW m \in S
    PROVE  s \o Append(t, m) = Append(s \o t, m)
BY AppendIsConcat, ConcatAssociative, ConcatProperties, <<m>> \in Seq(S)

\* Moving and taking across a concatenation.
LEMMA ConcatMoves ==
    ASSUME NEW S, NEW s \in Seq(S), NEW t \in Seq(S)
    PROVE  /\ t # <<>> => Append(s, Head(t)) \o Tail(t) = s \o t
           /\ s # <<>> => /\ Tail(s) \o t = Tail(s \o t)
                          /\ s \o t # <<>> /\ Head(s) = (s \o t)[1]
<1>2. ASSUME t # <<>> PROVE Append(s, Head(t)) \o Tail(t) = s \o t
  <2>1. Append(s, Head(t)) \in Seq(S) /\ Tail(t) \in Seq(S)
    BY <1>2
  <2> DEFINE u == Append(s, Head(t)) \o Tail(t)
             w == s \o t
  <2>2. u \in Seq(S) /\ w \in Seq(S) /\ Len(u) = Len(w)
    BY <1>2, <2>1
  <2>3. ASSUME NEW i \in 1..Len(u) PROVE u[i] = w[i]
    BY <1>2, <2>1, <2>3
  <2> QED BY <2>2, <2>3, SeqEqual, Zenon
<1>3. ASSUME s # <<>> PROVE Tail(s) \o t = Tail(s \o t) /\ s \o t # <<>> /\ Head(s) = (s \o t)[1]
  <2>1. Tail(s) \in Seq(S) /\ s \o t \in Seq(S) /\ s \o t # <<>> /\ Head(s) = (s \o t)[1]
    BY <1>3
  <2> DEFINE u == Tail(s) \o t
             w == Tail(s \o t)
  <2>2. u \in Seq(S) /\ w \in Seq(S) /\ Len(u) = Len(w)
    BY <1>3, <2>1
  <2>3. ASSUME NEW i \in 1..Len(u) PROVE u[i] = w[i]
    BY <1>3, <2>1, <2>3
  <2> QED BY <2>1, <2>2, <2>3, SeqEqual, Zenon
<1> QED BY <1>2, <1>3

\* A bound of the plan is a number.
LEMMA PlanBounds ==
    ASSUME plan \in Plans
    PROVE  /\ \A p \in Phone : plan.renames[p] \in Nat /\ plan.requests[p] \in Nat
           /\ plan.troubles \in Nat
BY SettingsConstants, Peers

\* Elements of a pipe and of its two halves.
LEMMA PipeParts ==
    ASSUME Shape, NEW p \in Phone
    PROVE  /\ out[p] \in Seq(Wire) /\ inbox[Peer(p)] \in Seq(Wire) /\ Pipe(p) \in Seq(Wire)
           /\ Len(Pipe(p)) = Len(inbox[Peer(p)]) + Len(out[p])
           /\ Len(out[p]) \in Nat /\ Len(inbox[Peer(p)]) \in Nat
           /\ \A i \in Indices(inbox[Peer(p)]) : Pipe(p)[i] = inbox[Peer(p)][i]
           /\ \A i \in Indices(out[p]) : Pipe(p)[Len(inbox[Peer(p)]) + i] = out[p][i]
<1>1. out[p] \in Seq(Wire) /\ inbox[Peer(p)] \in Seq(Wire)
  BY Peers DEF Shape
<1> DEFINE s == inbox[Peer(p)]
           t == out[p]
<1>2. s \in Seq(Wire) /\ t \in Seq(Wire)
  BY <1>1
<1> HIDE DEF s, t
<1>3. /\ s \o t \in Seq(Wire) /\ Len(s \o t) = Len(s) + Len(t)
      /\ Len(s) \in Nat /\ Len(t) \in Nat
      /\ \A i \in 1..Len(s) : (s \o t)[i] = s[i]
      /\ \A i \in 1..Len(t) : (s \o t)[Len(s) + i] = t[i]
  BY <1>2
<1> QED BY <1>2, <1>3, Zenon DEF Pipe, Indices, s, t

\* Sending appends to the sender's pipe.
LEMMA PipeSends ==
    ASSUME Shape, NEW p \in Phone, NEW m \in Wire,
           Sends(p, m), inbox' = inbox
    PROVE  /\ Pipe(p)' = Append(Pipe(p), m) /\ Pipe(Peer(p))' = Pipe(Peer(p))
           /\ out' \in [Phone -> Seq(Wire)]
<1> DEFINE q == Peer(p)
<1>1. out'[p] = Append(out[p], m) /\ out'[q] = out[q] /\ out' \in [Phone -> Seq(Wire)]
  BY Peers DEF Shape, Sends
<1>2. out[p] \in Seq(Wire) /\ inbox[q] \in Seq(Wire)
  BY Peers DEF Shape
<1>3. inbox[q] \o Append(out[p], m) = Append(inbox[q] \o out[p], m)
  <2> DEFINE s == inbox[q]
             t == out[p]
  <2>1. s \in Seq(Wire) /\ t \in Seq(Wire)
    BY <1>2
  <2> HIDE DEF s, t
  <2>2. s \o Append(t, m) = Append(s \o t, m)
    BY <2>1, ConcatAppends
  <2> QED BY <2>2 DEF s, t
<1> QED BY <1>1, <1>3, Peers DEF Pipe

\* The relay's acceptance moves a message within its pipe.
LEMMA PipeMoves ==
    ASSUME Shape, NEW p \in Phone, out[p] # <<>>,
           inbox' = [inbox EXCEPT ![Peer(p)] = Append(@, Head(out[p]))],
           out' = Set(out, p, Tail(out[p]))
    PROVE  /\ \A r \in Phone : Pipe(r)' = Pipe(r)
           /\ out' \in [Phone -> Seq(Wire)] /\ inbox' \in [Phone -> Seq(Wire)]
<1> DEFINE q == Peer(p)
<1>1. out[p] \in Seq(Wire) /\ inbox[q] \in Seq(Wire)
  BY Peers DEF Shape
<1>2. Head(out[p]) \in Wire /\ Tail(out[p]) \in Seq(Wire)
  BY <1>1
<1>3. /\ out'[p] = Tail(out[p]) /\ out'[q] = out[q] /\ out' \in [Phone -> Seq(Wire)]
      /\ inbox'[q] = Append(inbox[q], Head(out[p])) /\ inbox'[p] = inbox[p]
      /\ inbox' \in [Phone -> Seq(Wire)]
  <2>1. inbox' = [inbox EXCEPT ![q] = Append(inbox[q], Head(out[p]))]
    OBVIOUS
  <2>2. Append(inbox[q], Head(out[p])) \in Seq(Wire)
    BY <1>1, <1>2
  <2>3. out' = [out EXCEPT ![p] = Tail(out[p])]
    BY DEF Set
  <2>4. p \in Phone /\ q \in Phone /\ p # q
    BY Peers
  <2> HIDE DEF q
  <2>5. out \in [Phone -> Seq(Wire)] /\ inbox \in [Phone -> Seq(Wire)]
    BY DEF Shape
  <2> QED BY <1>1, <1>2, <2>1, <2>2, <2>3, <2>4, <2>5
<1>4. Append(inbox[q], Head(out[p])) \o Tail(out[p]) = inbox[q] \o out[p]
  BY <1>1, ConcatMoves
<1>5. Pipe(p)' = Pipe(p)
  BY <1>3, <1>4, Peers DEF Pipe
<1>6. Pipe(q)' = Pipe(q)
  BY <1>3, Peers DEF Pipe
<1> QED BY <1>3, <1>5, <1>6, Peers

\* Handling takes the head of the peer's pipe.
LEMMA PipeTakes ==
    ASSUME Shape, NEW p \in Phone, inbox[Peer(p)] # <<>>, out' = out,
           inbox' = Set(inbox, Peer(p), Tail(inbox[Peer(p)]))
    PROVE  /\ Pipe(p) # <<>> /\ Head(inbox[Peer(p)]) = Pipe(p)[1]
           /\ Pipe(p)' = Tail(Pipe(p)) /\ Pipe(Peer(p))' = Pipe(Peer(p))
           /\ inbox' \in [Phone -> Seq(Wire)]
<1> DEFINE q == Peer(p)
<1>1. out[p] \in Seq(Wire) /\ inbox[q] \in Seq(Wire)
  BY Peers DEF Shape
<1>0. inbox[q] # <<>>
  OBVIOUS
<1>2. inbox'[q] = Tail(inbox[q]) /\ inbox'[p] = inbox[p] /\ inbox' \in [Phone -> Seq(Wire)]
  BY <1>1, Peers DEF Shape, Set
<1>3. /\ Tail(inbox[q]) \o out[p] = Tail(inbox[q] \o out[p])
      /\ inbox[q] \o out[p] # <<>> /\ Head(inbox[q]) = (inbox[q] \o out[p])[1]
  BY <1>1, <1>0, ConcatMoves
<1>4. Peer(q) = p
  BY Peers
<1> QED BY <1>2, <1>3, Peers DEF Pipe

\* A process that dies cuts its pipe where the relay's part ends.
LEMMA PipeCut ==
    ASSUME Shape, NEW p \in Phone, out' = Set(out, p, <<>>), inbox' = inbox
    PROVE  /\ Pipe(p)' = inbox[Peer(p)] /\ Pipe(Peer(p))' = Pipe(Peer(p))
           /\ out' \in [Phone -> Seq(Wire)]
<1> DEFINE q == Peer(p)
<1>1. out[p] \in Seq(Wire) /\ inbox[q] \in Seq(Wire)
  BY Peers DEF Shape
<1>2. out'[p] = <<>> /\ out'[q] = out[q] /\ out' \in [Phone -> Seq(Wire)]
  BY Peers DEF Shape, Set
<1> QED BY <1>1, <1>2, Peers, ConcatEmptySeq DEF Pipe

\* The same for the set of messages on their way.
LEMMA SentSends ==
    ASSUME Shape, NEW p \in Phone, NEW m \in Wire,
           Pipe(p)' = Append(Pipe(p), m), Pipe(Peer(p))' = Pipe(Peer(p))
    PROVE  Sent(p)' = Sent(p) \cup {m} /\ Sent(Peer(p))' = Sent(Peer(p))
<1>1. Pipe(p) \in Seq(Wire)
  BY PipeParts
<1>2. Sent(p)' = Sent(p) \cup {m}
  BY <1>1 DEF Sent, Indices
<1> QED BY <1>2 DEF Sent, Indices

LEMMA SentTakes ==
    ASSUME Shape, NEW p \in Phone, Pipe(p) # <<>>,
           Pipe(p)' = Tail(Pipe(p)), Pipe(Peer(p))' = Pipe(Peer(p))
    PROVE  /\ Pipe(p)[1] \in Sent(p) /\ Sent(p)' \subseteq Sent(p)
           /\ Sent(Peer(p))' = Sent(Peer(p))
<1> DEFINE s == Pipe(p)
<1>1. s \in Seq(Wire) /\ s # <<>> /\ Pipe(p)' = Tail(s)
  BY PipeParts
<1> HIDE DEF s
<1>2. /\ Len(Tail(s)) + 1 = Len(s) /\ 1 \in 1..Len(s)
      /\ \A i \in 1..Len(Tail(s)) : i + 1 \in 1..Len(s) /\ Tail(s)[i] = s[i + 1]
  BY <1>1
<1>3. {Tail(s)[i] : i \in 1..Len(Tail(s))} \subseteq {s[i] : i \in 1..Len(s)}
  BY <1>2
<1>4. s[1] \in {s[i] : i \in 1..Len(s)}
  BY <1>2
<1>5. Sent(p) = {s[i] : i \in 1..Len(s)} /\ Sent(p)' = {Tail(s)[i] : i \in 1..Len(Tail(s))}
  BY <1>1, Zenon DEF Sent, Indices, s
<1> QED BY <1>3, <1>4, <1>5, Zenon DEF Sent, Indices, s

LEMMA SentCut ==
    ASSUME Shape, NEW p \in Phone,
           Pipe(p)' = inbox[Peer(p)], Pipe(Peer(p))' = Pipe(Peer(p))
    PROVE  Sent(p)' \subseteq Sent(p) /\ Sent(Peer(p))' = Sent(Peer(p))
<1> DEFINE s == Pipe(p)
           w == inbox[Peer(p)]
<1>1. /\ Len(s) = Len(w) + Len(out[p]) /\ Len(out[p]) \in Nat /\ Len(w) \in Nat
      /\ \A i \in 1..Len(w) : s[i] = w[i]
  BY PipeParts, Zenon DEF Indices
<1>0. Pipe(p)' = w
  OBVIOUS
<1> HIDE DEF s, w
<1>2. \A i \in 1..Len(w) : i \in 1..Len(s) /\ w[i] = s[i]
  BY <1>1
<1>3. {w[i] : i \in 1..Len(w)} \subseteq {s[i] : i \in 1..Len(s)}
  BY <1>2
<1>4. Sent(p) = {s[i] : i \in 1..Len(s)} /\ Sent(p)' = {w[i] : i \in 1..Len(w)}
  BY <1>0, Zenon DEF Sent, Indices, s
<1> QED BY <1>3, <1>4, Zenon DEF Sent, Indices

LEMMA SentKept ==
    ASSUME \A p \in Phone : Pipe(p)' = Pipe(p)
    PROVE  \A p \in Phone : Sent(p)' = Sent(p)
BY DEF Sent, Indices

LEMMA PipeKept ==
    ASSUME out' = out, inbox' = inbox
    PROVE  \A p \in Phone : Pipe(p)' = Pipe(p) /\ Sent(p)' = Sent(p)
BY DEF Pipe, Sent, Indices

-----------------------------------------------------------------------------
(* Types.                                                                  *)

\* A task that has begun its work carries a value.
LEMMA TaskValue ==
    ASSUME NEW t \in Tasks, t.op \in {"request", "accept", "grant"}
    PROVE  t.v \in Value
BY DEF Tasks, NoTask

\* The initial state has the shape, and no name is on its way.
LEMMA InitTypeInv == Init => TypeInv
<1> SUFFICES ASSUME Init PROVE TypeInv OBVIOUS
<1>1. Shape
  <2>1. 0 \in 0..plan.troubles /\ \A p \in Phone : 0 <= plan.renames[p] /\ 0 <= plan.requests[p]
    BY PlanBounds DEF Init
  <2>2. /\ out \in [Phone -> Seq(Wire)] /\ inbox \in [Phone -> Seq(Wire)]
        /\ task \in [Phone -> Tasks]
    BY EmptySeq DEF Init, Tasks
  <2>3. \A p \in Phone : name[p] <= plan.renames[p] /\ asked[p] <= plan.requests[p]
    BY <2>1 DEF Init
  <2>4. troubles \in 0..plan.troubles /\ plan \in Plans
    BY <2>1 DEF Init
  <2>5. /\ value \in [Phone -> Value \cup {Default}]
        /\ pending \in [Phone -> {NoRequest} \cup [v : Value, incoming : BOOLEAN]]
        /\ asks \in [Phone -> SUBSET Value] /\ grants \in [Phone -> SUBSET Value]
        /\ name \in [Phone -> Nat] /\ copy \in [Phone -> Nat] /\ asked \in [Phone -> Nat]
        /\ flagged \in [Phone -> BOOLEAN] /\ renaming \in [Phone -> BOOLEAN]
        /\ syncs \in [Phone -> Nat]
        /\ crossed \in BOOLEAN /\ overtaken \in [Phone -> BOOLEAN] /\ lost \subseteq Wire
    BY DEF Init
  <2> QED BY <2>2, <2>3, <2>4, <2>5 DEF Shape
<1>2. \A p \in Phone : Pipe(p) = <<>>
  BY Peers DEF Init, Pipe
<1>3. NamesInv
  BY <1>2, Peers DEF Init, NamesInv, Sent, Indices
<1> QED BY <1>1, <1>3 DEF TypeInv

\* What a step sends, and what a step changes beside it.
LEMMA ShapeStep == Shape /\ [Next]_vars => Shape'
<1> SUFFICES ASSUME Shape, [Next]_vars PROVE Shape' OBVIOUS
<1> USE SettingsConstants DEF Set, negotiation, naming
<1>0. Default \in Value \cup {Default} /\ NoRequest = [v |-> Default, incoming |-> FALSE]
  BY DEF NoRequest
<1>1. ASSUME NEW p \in Phone, NEW v \in Value, TapRequest(p, v) PROVE Shape'
  <2>1. Task("request", v) \in Tasks
    BY DEF Task, Tasks
  <2>2. asked[p] + 1 \in Nat /\ asked[p] + 1 <= plan.requests[p]
    BY <1>1, PlanBounds DEF TapRequest, Shape
  <2> QED BY <1>1, <2>1, <2>2 DEF TapRequest, Shape
<1>2. ASSUME NEW p \in Phone, Requests(p) PROVE Shape'
  <2>1. task[p].v \in Value /\ Message("request", task[p].v) \in Wire
    BY <1>2, TaskValue DEF Requests, Shape, Message, Wire
  <2>2. Own(task[p].v) \in [v : Value, incoming : BOOLEAN]
    BY <2>1 DEF Own
  <2>3. out' \in [Phone -> Seq(Wire)]
    BY <1>2, <2>1, PipeSends DEF Requests
  <2>4. NoTask \in Tasks /\ (crossed \/ RequestUnderWay(p)) \in BOOLEAN
    BY DEF Tasks
  <2> QED BY <1>2, <2>1, <2>2, <2>3, <2>4 DEF Requests, Shape
<1>3. ASSUME NEW p \in Phone, TapAccept(p) PROVE Shape'
  <2>1. pending[p].v \in Value
    BY <1>3 DEF TapAccept, PeerPending, Shape
  <2>2. Task("accept", pending[p].v) \in Tasks
    BY <2>1 DEF Task, Tasks
  <2> QED BY <1>3, <2>2 DEF TapAccept, Shape
<1>4. ASSUME NEW p \in Phone, ChecksAccept(p) PROVE Shape'
  <2>1. task[p].v \in Value
    BY <1>4, TaskValue DEF ChecksAccept, Shape
  <2>2. Task("grant", task[p].v) \in Tasks /\ NoTask \in Tasks
    BY <2>1 DEF Task, Tasks
  <2> QED BY <1>4, <2>2 DEF ChecksAccept, Shape
<1>5. ASSUME NEW p \in Phone, Grants(p) PROVE Shape'
  <2>1. task[p].v \in Value /\ Message("accept", task[p].v) \in Wire /\ NoTask \in Tasks
    BY <1>5, TaskValue DEF Grants, Shape, Tasks, Message, Wire
  <2>3. out' \in [Phone -> Seq(Wire)]
    BY <1>5, <2>1, PipeSends DEF Grants
  <2> QED BY <1>5, <2>1, <2>3 DEF Grants, Shape
<1>6. ASSUME NEW p \in Phone, TapCancel(p) PROVE Shape'
  <2>1. Task("cancel", Default) \in Tasks
    BY DEF Task, Tasks
  <2> QED BY <1>6, <2>1 DEF TapCancel, Shape
<1>7. ASSUME NEW p \in Phone, Cancels(p) PROVE Shape'
  <2>1. Message("cancel", Default) \in Wire /\ NoTask \in Tasks
    BY DEF Message, Wire, Tasks
  <2>3. out' \in [Phone -> Seq(Wire)]
    BY <1>7, <2>1, PipeSends DEF Cancels
  <2> QED BY <1>7, <2>1, <2>3 DEF Cancels, Shape
<1>8. ASSUME NEW p \in Phone, StoresName(p) PROVE Shape'
  <2>1. name[p] + 1 \in Nat /\ name[p] + 1 <= plan.renames[p]
    BY <1>8, PlanBounds DEF StoresName, Shape
  <2> QED BY <1>8, <2>1 DEF StoresName, Shape
<1>9. ASSUME NEW p \in Phone, Flags(p) PROVE Shape'
  BY <1>9 DEF Flags, Shape
<1>10. ASSUME NEW p \in Phone, Announces(p) PROVE Shape'
  <2>1. Message("name", name[p]) \in Wire
    BY DEF Message, Wire, Names, Shape
  <2>2. out' \in [Phone -> Seq(Wire)]
    BY <1>10, <2>1, PipeSends DEF Announces, Shape
  <2>3. syncs[p] - 1 \in Nat
    BY <1>10 DEF Announces, Shape
  <2> QED BY <1>10, <2>2, <2>3 DEF Announces, Shape
<1>11. ASSUME NEW p \in Phone, Accepted(p) PROVE Shape'
  <2>1. out' \in [Phone -> Seq(Wire)] /\ inbox' \in [Phone -> Seq(Wire)]
    BY <1>11, PipeMoves DEF Accepted
  <2>2. flagged' \in [Phone -> BOOLEAN]
    BY <1>11 DEF Accepted, ClearsFlag, Shape
  <2>3. overtaken' \in [Phone -> BOOLEAN]
    BY <1>11 DEF Accepted, Shape
  <2> QED BY <1>11, <2>1, <2>2, <2>3 DEF Accepted, Shape
<1>12. ASSUME NEW p \in Phone, Receive(p) PROVE Shape'
  <2>1. Head(inbox[p]) \in Wire
    BY <1>12 DEF Receive, Shape
  <2>2. inbox' \in [Phone -> Seq(Wire)]
    BY <1>12 DEF Receive, Shape
  <2>3. CASE ReceivesRequest(p, Head(inbox[p]))
    <3>1. Incoming(Head(inbox[p]).v) \in [v : Value, incoming : BOOLEAN]
      BY <2>1, <2>3 DEF ReceivesRequest, Incoming, Wire, Names
    <3> QED BY <1>12, <2>2, <2>3, <3>1 DEF Receive, ReceivesRequest, Shape
  <2>4. CASE ReceivesAccept(p, Head(inbox[p]))
    <3>1. Head(inbox[p]).v \in Value
      BY <2>1, <2>4 DEF ReceivesAccept, Wire, Names
    <3> QED BY <1>12, <2>2, <2>4, <3>1 DEF Receive, ReceivesAccept, Shape
  <2>5. CASE ReceivesCancel(p, Head(inbox[p]))
    BY <1>12, <2>2, <2>5 DEF Receive, ReceivesCancel, Shape
  <2>6. CASE ReceivesName(p, Head(inbox[p]))
    <3>1. Head(inbox[p]).v \in Nat
      BY <2>1, <2>6 DEF ReceivesName, Wire, Names
    <3> QED BY <1>12, <2>2, <2>6, <3>1 DEF Receive, ReceivesName, Shape
  <2> QED BY <1>12, <2>3, <2>4, <2>5, <2>6 DEF Receive
<1>13. ASSUME NEW p \in Phone, Kill(p) PROVE Shape'
  <2>1. out' \in [Phone -> Seq(Wire)]
    BY <1>13, PipeCut DEF Kill
  <2>2. lost' \subseteq Wire
    <3>1. Range(out[p]) \subseteq Wire
      BY RangeOfSeq DEF Shape
    <3>2. Unannounced(p) \subseteq Wire
      BY DEF Unannounced, Message, Wire, Names, Shape
    <3> QED BY <1>13, <3>1, <3>2 DEF Kill, Shape
  <2>3. NoTask \in Tasks /\ troubles + 1 \in 0..plan.troubles
    BY <1>13, PlanBounds DEF Kill, Shape, Tasks
  <2> QED BY <1>13, <2>1, <2>2, <2>3 DEF Kill, NextRun, Shape
<1>14. ASSUME NEW p \in Phone, Connected(p) PROVE Shape'
  <2>1. troubles + 1 \in 0..plan.troubles
    BY <1>14, PlanBounds DEF Connected, Shape
  <2> QED BY <1>14, <2>1 DEF Connected, Shape
<1>15. CASE UNCHANGED vars
  BY <1>15 DEF vars, Shape
<1> QED
  BY <1>1, <1>2, <1>3, <1>4, <1>5, <1>6, <1>7, <1>8, <1>9, <1>10, <1>11, <1>12, <1>13, <1>14, <1>15
  DEF Next

\* What is on its way to a phone, and what it handles next, is a message.
LEMMA SentAreWire ==
    ASSUME Shape, NEW p \in Phone
    PROVE  Sent(p) \subseteq Wire
<1>1. Pipe(p) \in Seq(Wire)
  BY PipeParts
<1>2. \A i \in 1..Len(Pipe(p)) : Pipe(p)[i] \in Wire
  BY <1>1, ElementOfSeq
<1> QED BY <1>2 DEF Sent, Indices

\* Handling a message, seen from its sender q.
LEMMA ReceiveTakes ==
    ASSUME Shape, NEW q \in Phone, Receive(Peer(q))
    PROVE  /\ Head(inbox[Peer(q)]) \in Sent(q) /\ Head(inbox[Peer(q)]) = Pipe(q)[1]
           /\ Pipe(q) # <<>> /\ Pipe(q)' = Tail(Pipe(q)) /\ Pipe(Peer(q))' = Pipe(Peer(q))
           /\ Sent(q)' \subseteq Sent(q) /\ Sent(Peer(q))' = Sent(Peer(q))
<1>1. /\ Pipe(q) # <<>> /\ Head(inbox[Peer(q)]) = Pipe(q)[1]
      /\ Pipe(q)' = Tail(Pipe(q)) /\ Pipe(Peer(q))' = Pipe(Peer(q))
  BY PipeTakes DEF Receive
<1> QED BY <1>1, SentTakes

\* Names on their way are at most the present one.
LEMMA NamesStep == TypeInv /\ [Next]_vars => NamesInv'
<1> SUFFICES ASSUME Shape, NamesInv, [Next]_vars PROVE NamesInv'
  BY DEF TypeInv
<1> USE DEF negotiation, naming
<1>1. ASSUME UNCHANGED <<name, copy>>, \A p \in Phone : Sent(p)' \subseteq Sent(p) PROVE NamesInv'
  BY <1>1 DEF NamesInv
<1>2. ASSUME NEW p \in Phone, NEW m \in Wire, Sends(p, m), inbox' = inbox,
             UNCHANGED <<name, copy>>, m.t = "name" => m.v = name[p]
      PROVE  NamesInv'
  <2>1. Sent(p)' = Sent(p) \cup {m} /\ Sent(Peer(p))' = Sent(Peer(p))
    BY <1>2, PipeSends, SentSends
  <2>2. \A r \in Phone : \A x \in Sent(r)' : x.t = "name" => x.v <= name[r]
    BY <1>2, <2>1, Peers DEF NamesInv, Shape
  <2> QED BY <1>2, <2>2 DEF NamesInv
<1>3. ASSUME NEW p \in Phone, Requests(p) PROVE NamesInv'
  <2>1. Message("request", task[p].v) \in Wire
    BY <1>3, TaskValue DEF Requests, Shape, Message, Wire
  <2> QED BY <1>2, <1>3, <2>1 DEF Requests, Message
<1>4. ASSUME NEW p \in Phone, Grants(p) PROVE NamesInv'
  <2>1. Message("accept", task[p].v) \in Wire
    BY <1>4, TaskValue DEF Grants, Shape, Message, Wire
  <2> QED BY <1>2, <1>4, <2>1 DEF Grants, Message
<1>5. ASSUME NEW p \in Phone, Cancels(p) PROVE NamesInv'
  <2>1. Message("cancel", Default) \in Wire
    BY DEF Message, Wire
  <2> QED BY <1>2, <1>5, <2>1 DEF Cancels, Message
<1>6. ASSUME NEW p \in Phone, Announces(p) PROVE NamesInv'
  <2>1. Message("name", name[p]) \in Wire
    BY DEF Message, Wire, Names, Shape
  <2>2. CASE flagged[p]
    BY <1>2, <1>6, <2>1, <2>2 DEF Announces, Message
  <2>3. CASE ~flagged[p]
    BY <1>1, <1>6, <2>3, PipeKept DEF Announces
  <2> QED BY <2>2, <2>3
<1>7. ASSUME NEW p \in Phone, StoresName(p) PROVE NamesInv'
  <2>1. /\ name' \in [Phone -> Nat] /\ \A r \in Phone : name[r] <= name'[r]
        /\ copy' = copy /\ copy \in [Phone -> Nat] /\ name \in [Phone -> Nat]
    BY <1>7 DEF StoresName, Set, Shape
  <2>2. \A r \in Phone : Sent(r)' = Sent(r)
    BY <1>7, PipeKept DEF StoresName
  <2>3. ASSUME NEW r \in Phone PROVE copy'[Peer(r)] <= name'[r]
    BY <2>1, Peers DEF NamesInv
  <2>4. ASSUME NEW r \in Phone, NEW m \in Sent(r), m.t = "name" PROVE m.v <= name'[r]
    <3>1. m.v \in Nat
      BY <2>4, SentAreWire DEF Wire, Names
    <3> QED BY <2>1, <2>4, <3>1 DEF NamesInv
  <2> QED BY <2>2, <2>3, <2>4 DEF NamesInv
<1>8. ASSUME NEW p \in Phone, Accepted(p) PROVE NamesInv'
  BY <1>1, <1>8, PipeMoves, SentKept DEF Accepted
<1>9. ASSUME NEW p \in Phone, Kill(p) PROVE NamesInv'
  <2>1. Sent(p)' \subseteq Sent(p) /\ Sent(Peer(p))' = Sent(Peer(p))
    BY <1>9, PipeCut, SentCut DEF Kill
  <2> QED BY <1>1, <1>9, <2>1, Peers DEF Kill
<1>10. ASSUME NEW r \in Phone, Receive(r) PROVE NamesInv'
  <2> DEFINE p == Peer(r)
             m == Head(inbox[r])
  <2>1. p \in Phone /\ Peer(p) = r /\ p # r
    BY Peers
  <2>2. m \in Sent(p) /\ Sent(p)' \subseteq Sent(p) /\ Sent(r)' = Sent(r)
    BY <1>10, <2>1, ReceiveTakes
  <2>3. copy' = copy \/ (m.t = "name" /\ copy' = Set(copy, r, m.v))
    BY <1>10 DEF Receive, ReceivesRequest, ReceivesAccept, ReceivesCancel, ReceivesName
  <2>4. name' = name
    BY <1>10 DEF Receive
  <2>5. CASE copy' = copy
    BY <1>1, <2>1, <2>2, <2>4, <2>5, Peers
  <2>6. CASE m.t = "name" /\ copy' = Set(copy, r, m.v)
    <3>1. m.v <= name[p]
      BY <2>1, <2>2, <2>6 DEF NamesInv
    <3>2. copy'[r] = m.v /\ copy'[p] = copy[p]
      BY <2>1, <2>6 DEF Set, Shape
    <3> QED BY <2>1, <2>2, <2>4, <3>1, <3>2, Peers DEF NamesInv
  <2> QED BY <2>3, <2>5, <2>6
<1>11. ASSUME UNCHANGED <<name, copy, out, inbox>> PROVE NamesInv'
  BY <1>1, <1>11, PipeKept
<1>12. ASSUME NEW p \in Phone,
              \/ \E v \in Value : TapRequest(p, v)
              \/ TapAccept(p) \/ ChecksAccept(p) \/ TapCancel(p) \/ Flags(p) \/ Connected(p)
       PROVE  NamesInv'
  BY <1>11, <1>12 DEF TapRequest, TapAccept, ChecksAccept, TapCancel, Flags, Connected
<1>13. CASE UNCHANGED vars
  BY <1>11, <1>13 DEF vars
<1> QED
  BY <1>3, <1>4, <1>5, <1>6, <1>7, <1>8, <1>9, <1>10, <1>12, <1>13 DEF Next

\* The state is well typed in every reachable state, no request or rename is
\* counted twice, and no phone knows a name that was not given yet
\* (services/profile.ts).
THEOREM TypeCorrect == Spec => []TypeOK
<1>1. TypeInv => TypeOK
  <2> SUFFICES ASSUME Shape, NamesInv PROVE TypeOK
    BY DEF TypeInv
  <2>1. ASSUME NEW p \in Phone PROVE Range(out[p]) \cup Range(inbox[p]) \subseteq Controls \cup Names
    <3>1. Range(out[p]) \subseteq Wire /\ Range(inbox[p]) \subseteq Wire
      BY RangeOfSeq DEF Shape
    <3>2. Wire \subseteq Controls \cup Names
      BY DEF Wire, Controls
    <3> QED BY <3>1, <3>2
  <2>2. ASSUME NEW p \in Phone
        PROVE  /\ name[p] \in 0..plan.renames[p] /\ copy[Peer(p)] \in 0..name[p]
               /\ asked[p] \in 0..plan.requests[p]
    <3>1. Peer(p) \in Phone /\ plan.renames[p] \in Nat /\ plan.requests[p] \in Nat
      BY Peers, PlanBounds DEF Shape
    <3>2. name[p] \in Nat /\ copy[Peer(p)] \in Nat /\ asked[p] \in Nat
      BY <3>1 DEF Shape
    <3>3. name[p] <= plan.renames[p] /\ asked[p] <= plan.requests[p] /\ copy[Peer(p)] <= name[p]
      BY DEF Shape, NamesInv
    <3> QED BY <3>1, <3>2, <3>3
  <2>3. \A p \in Phone : task[p].op \in {"none", "request", "accept", "grant", "cancel"}
    BY DEF Shape, Tasks, NoTask
  <2> QED BY <2>1, <2>2, <2>3 DEF Shape, TypeOK
<1>2. TypeInv /\ [Next]_vars => TypeInv'
  BY ShapeStep, NamesStep DEF TypeInv
<1> QED BY <1>1, <1>2, InitTypeInv, PTL DEF Spec

-----------------------------------------------------------------------------
(* Consent.  What is in force, what is being accepted, what is pending and *)
(* what is on its way goes back to what the users did.                     *)

\* A handler is answering the peer's request.
Answering(p) == task[p].op \in {"accept", "grant"}

ConsentInv ==
    /\ ChangesByConsent
    /\ \A p \in Phone : \A m \in Sent(p) :
          /\ m.t = "request" => m.v \in asks[p]
          /\ m.t = "accept" => m.v \in grants[p] /\ m.v \in asks[Peer(p)]
    /\ \A p \in Phone : PeerPending(p) => pending[p].v \in asks[Peer(p)]
    /\ \A p \in Phone : Answering(p) => task[p].v \in asks[Peer(p)]

\* What a user has done stays done.
LEMMA HistoryGrows ==
    Shape /\ [Next]_vars => \A p \in Phone : asks[p] \subseteq asks'[p] /\ grants[p] \subseteq grants'[p]
<1> SUFFICES ASSUME Shape, [Next]_vars
             PROVE  \A p \in Phone : asks[p] \subseteq asks'[p] /\ grants[p] \subseteq grants'[p]
  OBVIOUS
<1>1. ASSUME UNCHANGED <<asks, grants>>
      PROVE  \A p \in Phone : asks[p] \subseteq asks'[p] /\ grants[p] \subseteq grants'[p]
  BY <1>1
<1>2. ASSUME NEW p \in Phone, Requests(p) \/ Grants(p)
      PROVE  \A r \in Phone : asks[r] \subseteq asks'[r] /\ grants[r] \subseteq grants'[r]
  <2>1. CASE Requests(p)
    BY <2>1 DEF Requests, Set, Shape
  <2>2. CASE Grants(p)
    BY <2>2 DEF Grants, Set, Shape
  <2> QED BY <1>2, <2>1, <2>2
<1>3. ASSUME NEW p \in Phone,
             \/ \E v \in Value : TapRequest(p, v)
             \/ TapAccept(p) \/ ChecksAccept(p) \/ TapCancel(p) \/ Cancels(p)
             \/ StoresName(p) \/ Flags(p) \/ Announces(p)
             \/ Accepted(p) \/ Receive(p) \/ Kill(p) \/ Connected(p)
      PROVE  UNCHANGED <<asks, grants>>
  BY <1>3 DEF TapRequest, TapAccept, ChecksAccept, TapCancel, Cancels, StoresName, Flags,
              Announces, Accepted, Receive, Kill, Connected, negotiation
<1>4. CASE UNCHANGED vars
  BY <1>1, <1>4 DEF vars, negotiation
<1> QED BY <1>1, <1>2, <1>3, <1>4 DEF Next

Consented(v) == \E q \in Phone : v \in asks[q] /\ v \in grants[Peer(q)]
Honest(p, m) ==
    /\ m.t = "request" => m.v \in asks[p]
    /\ m.t = "accept" => m.v \in grants[p] /\ m.v \in asks[Peer(p)]

\* It is enough to look at what is new.
LEMMA ConsentKept ==
    ASSUME ConsentInv,
           \A p \in Phone : asks[p] \subseteq asks'[p] /\ grants[p] \subseteq grants'[p],
           \A p \in Phone : value'[p] = value[p] \/ Consented(value[p])',
           \A p \in Phone : \A m \in Sent(p)' : m \in Sent(p) \/ Honest(p, m)',
           \A p \in Phone : pending'[p] = pending[p] \/ (PeerPending(p) => pending[p].v \in asks[Peer(p)])',
           \A p \in Phone : task'[p] = task[p] \/ (Answering(p) => task[p].v \in asks[Peer(p)])'
    PROVE  ConsentInv'
<1>1. ASSUME NEW v, Consented(v) PROVE Consented(v)'
  BY <1>1, Peers DEF Consented
<1>2. ASSUME NEW p \in Phone, value'[p] # Default PROVE Consented(value[p])'
  <2>1. CASE value'[p] = value[p]
    <3>1. Consented(value[p])
      BY <1>2, <2>1 DEF ConsentInv, ChangesByConsent, Consented
    <3> QED BY <1>1, <2>1, <3>1
  <2> QED BY <2>1
<1>3. ASSUME NEW p \in Phone, NEW m \in Sent(p)' PROVE Honest(p, m)'
  <2>1. CASE m \in Sent(p)
    BY <2>1, Peers DEF ConsentInv, Honest
  <2> QED BY <2>1
<1>4. ASSUME NEW p \in Phone, PeerPending(p)' PROVE pending'[p].v \in asks'[Peer(p)]
  <2>1. CASE pending'[p] = pending[p]
    BY <1>4, <2>1, Peers DEF ConsentInv, PeerPending
  <2> QED BY <1>4, <2>1
<1>5. ASSUME NEW p \in Phone, Answering(p)' PROVE task'[p].v \in asks'[Peer(p)]
  <2>1. CASE task'[p] = task[p]
    BY <1>5, <2>1, Peers DEF ConsentInv, Answering
  <2> QED BY <1>5, <2>1
<1> QED BY <1>2, <1>3, <1>4, <1>5 DEF ConsentInv, ChangesByConsent, Consented, Honest

\* Each step takes its values from where consent is known.
LEMMA ConsentStep == TypeInv /\ ConsentInv /\ [Next]_vars => ConsentInv'
<1> SUFFICES ASSUME Shape, ConsentInv, [Next]_vars PROVE ConsentInv'
  BY DEF TypeInv
<1> USE DEF negotiation, naming
<1>0. \A p \in Phone : asks[p] \subseteq asks'[p] /\ grants[p] \subseteq grants'[p]
  BY HistoryGrows
<1>a. ASSUME UNCHANGED <<value, pending, task>>, \A p \in Phone : Sent(p)' \subseteq Sent(p)
      PROVE  ConsentInv'
  BY <1>0, <1>a, ConsentKept
<1>1. ASSUME NEW p \in Phone, NEW v \in Value, TapRequest(p, v) PROVE ConsentInv'
  <2>1. \A r \in Phone : task'[r] = task[r] \/ ~Answering(r)'
    BY <1>1 DEF TapRequest, Set, Task, Answering, Shape
  <2>2. \A r \in Phone : Sent(r)' = Sent(r)
    BY <1>1, PipeKept DEF TapRequest
  <2> QED BY <1>0, <1>1, <2>1, <2>2, ConsentKept DEF TapRequest
<1>2. ASSUME NEW p \in Phone, Requests(p) PROVE ConsentInv'
  <2> PICK m : m = Message("request", task[p].v)
    OBVIOUS
  <2>1. m \in Wire
    BY <1>2, TaskValue DEF Requests, Shape, Message, Wire
  <2>2. Sent(p)' = Sent(p) \cup {m} /\ Sent(Peer(p))' = Sent(Peer(p))
    BY <1>2, <2>1, PipeSends, SentSends DEF Requests
  <2>3. Honest(p, m)'
    BY <1>2 DEF Requests, Set, Honest, Message, Shape
  <2>4. \A r \in Phone : \A x \in Sent(r)' : x \in Sent(r) \/ Honest(r, x)'
    BY <2>2, <2>3, Peers
  <2>5. \A r \in Phone : pending'[r] = pending[r] \/ ~PeerPending(r)'
    BY <1>2 DEF Requests, Set, Own, PeerPending, Shape
  <2>6. \A r \in Phone : task'[r] = task[r] \/ ~Answering(r)'
    BY <1>2 DEF Requests, Set, NoTask, Answering, Shape
  <2> QED BY <1>0, <1>2, <2>4, <2>5, <2>6, ConsentKept DEF Requests
<1>3. ASSUME NEW p \in Phone, TapAccept(p) PROVE ConsentInv'
  <2>1. task'[p].v = pending[p].v /\ pending[p].v \in asks[Peer(p)] /\ asks' = asks
    BY <1>3 DEF TapAccept, Set, Task, Shape, ConsentInv
  <2>2. \A r \in Phone : task'[r] = task[r] \/ task'[r].v \in asks'[Peer(r)]
    BY <1>3, <2>1 DEF TapAccept, Set, Shape
  <2>3. \A r \in Phone : Sent(r)' = Sent(r)
    BY <1>3, PipeKept DEF TapAccept
  <2> QED BY <1>0, <1>3, <2>2, <2>3, ConsentKept DEF TapAccept
<1>4. ASSUME NEW p \in Phone, ChecksAccept(p) PROVE ConsentInv'
  <2>1. task[p].v \in asks[Peer(p)] /\ asks' = asks
    BY <1>4 DEF ChecksAccept, ConsentInv, Answering
  <2>2. \A r \in Phone : task'[r] = task[r] \/ ~Answering(r)' \/ task'[r].v \in asks'[Peer(r)]
    BY <1>4, <2>1 DEF ChecksAccept, Set, Task, NoTask, Answering, Shape
  <2>3. \A r \in Phone : Sent(r)' = Sent(r)
    BY <1>4, PipeKept DEF ChecksAccept
  <2> QED BY <1>0, <1>4, <2>2, <2>3, ConsentKept DEF ChecksAccept
<1>5. ASSUME NEW p \in Phone, Grants(p) PROVE ConsentInv'
  <2> PICK v : v = task[p].v
    OBVIOUS
  <2> DEFINE m == Message("accept", v)
  <2>1. m \in Wire
    BY <1>5, TaskValue DEF Grants, Shape, Message, Wire
  <2>2. Sent(p)' = Sent(p) \cup {m} /\ Sent(Peer(p))' = Sent(Peer(p))
    BY <1>5, <2>1, PipeSends, SentSends DEF Grants
  <2>3. v \in asks'[Peer(p)] /\ v \in grants'[p]
    BY <1>5 DEF Grants, Set, Shape, ConsentInv, Answering
  <2>4. \A r \in Phone : \A x \in Sent(r)' : x \in Sent(r) \/ Honest(r, x)'
    BY <2>2, <2>3, Peers DEF Honest, Message
  <2>5. Consented(v)'
    BY <2>3, Peers DEF Consented
  <2>6. \A r \in Phone : value'[r] = value[r] \/ value'[r] = v
    BY <1>5 DEF Grants, Set, Shape
  <2>7. \A r \in Phone : pending'[r] = pending[r] \/ ~PeerPending(r)'
    BY <1>5 DEF Grants, Set, PeerPending, Shape
  <2>8. \A r \in Phone : task'[r] = task[r] \/ ~Answering(r)'
    BY <1>5 DEF Grants, Set, NoTask, Answering, Shape
  <2>9. \A r \in Phone : value'[r] = value[r] \/ Consented(value[r])'
    BY <2>5, <2>6
  <2> QED BY <1>0, <2>4, <2>7, <2>8, <2>9, ConsentKept
<1>6. ASSUME NEW p \in Phone, TapCancel(p) PROVE ConsentInv'
  <2>1. \A r \in Phone : task'[r] = task[r] \/ ~Answering(r)'
    BY <1>6 DEF TapCancel, Set, Task, Answering, Shape
  <2>2. \A r \in Phone : Sent(r)' = Sent(r)
    BY <1>6, PipeKept DEF TapCancel
  <2> QED BY <1>0, <1>6, <2>1, <2>2, ConsentKept DEF TapCancel
<1>7. ASSUME NEW p \in Phone, Cancels(p) PROVE ConsentInv'
  <2> DEFINE m == Message("cancel", Default)
  <2>1. m \in Wire
    BY DEF Message, Wire
  <2>2. Sent(p)' = Sent(p) \cup {m} /\ Sent(Peer(p))' = Sent(Peer(p))
    BY <1>7, <2>1, PipeSends, SentSends DEF Cancels
  <2>3. \A r \in Phone : \A x \in Sent(r)' : x \in Sent(r) \/ Honest(r, x)'
    BY <2>2, Peers DEF Honest, Message
  <2>4. \A r \in Phone : pending'[r] = pending[r] \/ ~PeerPending(r)'
    BY <1>7 DEF Cancels, Set, PeerPending, Shape
  <2>5. \A r \in Phone : task'[r] = task[r] \/ ~Answering(r)'
    BY <1>7 DEF Cancels, Set, NoTask, Answering, Shape
  <2> QED BY <1>0, <1>7, <2>3, <2>4, <2>5, ConsentKept DEF Cancels
<1>8. ASSUME NEW p \in Phone, Announces(p) PROVE ConsentInv'
  <2> DEFINE m == Message("name", name[p])
  <2>1. m \in Wire
    BY DEF Message, Wire, Names, Shape
  <2>2. CASE flagged[p]
    <3>1. Sent(p)' = Sent(p) \cup {m} /\ Sent(Peer(p))' = Sent(Peer(p))
      BY <1>8, <2>1, <2>2, PipeSends, SentSends DEF Announces
    <3>2. \A r \in Phone : \A x \in Sent(r)' : x \in Sent(r) \/ Honest(r, x)'
      BY <3>1, Peers DEF Honest, Message
    <3> QED BY <1>0, <1>8, <3>2, ConsentKept DEF Announces
  <2>3. CASE ~flagged[p]
    BY <1>a, <1>8, <2>3, PipeKept DEF Announces
  <2> QED BY <2>2, <2>3
<1>9. ASSUME NEW p \in Phone, Accepted(p) PROVE ConsentInv'
  BY <1>a, <1>9, PipeMoves, SentKept DEF Accepted
<1>10. ASSUME NEW r \in Phone, Receive(r) PROVE ConsentInv'
  <2> PICK m : m = Head(inbox[r])
    OBVIOUS
  <2> DEFINE p == Peer(r)
  <2>1. p \in Phone /\ Peer(p) = r /\ p # r /\ p = Peer(r)
    BY Peers
  <2>2. m \in Sent(p) /\ Sent(p)' \subseteq Sent(p) /\ Sent(r)' = Sent(r)
    BY <1>10, <2>1, ReceiveTakes
  <2>3. Honest(p, m) /\ asks' = asks /\ grants' = grants /\ task' = task
    BY <1>10, <2>1, <2>2 DEF ConsentInv, Honest, Receive
  <2>4. \A x \in Phone : Sent(x)' \subseteq Sent(x)
    BY <2>1, <2>2, Peers
  <2> HIDE DEF p
  <2>5. \A x \in Phone : value'[x] = value[x] \/ (m.t = "accept" /\ value'[x] = m.v)
    BY <1>10 DEF Receive, ReceivesRequest, ReceivesAccept, ReceivesCancel, ReceivesName, Set, Shape
  <2>6. \A x \in Phone : \/ pending'[x] = pending[x]
                         \/ pending'[x] = NoRequest
                         \/ m.t = "request" /\ x = r /\ pending'[x] = Incoming(m.v)
    BY <1>10 DEF Receive, ReceivesRequest, ReceivesAccept, ReceivesCancel, ReceivesName, Set, Shape
  <2>7. \A x \in Phone : value'[x] = value[x] \/ Consented(value[x])'
    BY <2>1, <2>3, <2>5 DEF Honest, Consented
  <2>8. \A x \in Phone : pending'[x] = pending[x] \/ ~PeerPending(x)' \/ pending'[x].v \in asks'[Peer(x)]
    BY <2>1, <2>3, <2>6 DEF Honest, PeerPending, Incoming, p
  <2> QED BY <1>0, <2>3, <2>4, <2>7, <2>8, ConsentKept
<1>11. ASSUME NEW p \in Phone, Kill(p) PROVE ConsentInv'
  <2>1. \A r \in Phone : Sent(r)' \subseteq Sent(r)
    BY <1>11, PipeCut, SentCut, Peers DEF Kill
  <2>2. \A r \in Phone : task'[r] = task[r] \/ ~Answering(r)'
    BY <1>11 DEF Kill, Set, NoTask, Answering, Shape
  <2> QED BY <1>0, <1>11, <2>1, <2>2, ConsentKept DEF Kill
<1>12. ASSUME NEW p \in Phone, StoresName(p) \/ Flags(p) \/ Connected(p) PROVE ConsentInv'
  <2>1. UNCHANGED <<value, pending, task, out, inbox>>
    BY <1>12 DEF StoresName, Flags, Connected
  <2> QED BY <1>a, <2>1, PipeKept
<1>13. CASE UNCHANGED vars
  BY <1>a, <1>13, PipeKept DEF vars
<1> QED
  BY <1>1, <1>2, <1>3, <1>4, <1>5, <1>6, <1>7, <1>8, <1>9, <1>10, <1>11, <1>12, <1>13 DEF Next

\* Whatever retention is in force on a phone was asked for on one of the two
\* and accepted on the other, however the handlers interleave
\* (services/messaging.ts:400-401).
THEOREM Consent == Spec => []ChangesByConsent
<1>1. Init => ConsentInv
  <2> SUFFICES ASSUME Init PROVE ConsentInv OBVIOUS
  <2>1. \A p \in Phone : Pipe(p) = <<>>
    BY Peers DEF Init, Pipe
  <2>2. \A p \in Phone : Sent(p) = {}
    BY <2>1 DEF Sent, Indices
  <2> QED BY <2>2 DEF Init, ConsentInv, ChangesByConsent, PeerPending, Answering, NoTask
<1>2. TypeInv /\ [Next]_vars => TypeInv'
  BY ShapeStep, NamesStep DEF TypeInv
<1>3. ConsentInv => ChangesByConsent
  BY DEF ConsentInv
<1> QED BY <1>1, <1>2, <1>3, InitTypeInv, ConsentStep, PTL DEF Spec

-----------------------------------------------------------------------------
(* Agreement.  While requests do not cross, one request at most is open;   *)
(* an acceptance that is on its way closes it before anything else of its  *)
(* direction, and carries what its sender has in force.                    *)

Carries(s, t) == \E i \in 1..Len(s) : s[i].t = t
\* No request is ahead of an acceptance.
InOrder(s) == \A i, j \in 1..Len(s) : s[i].t = "accept" /\ s[j].t = "request" => i < j
\* The last acceptance carries v.
LastAccept(s, v) ==
    \A i \in 1..Len(s) :
        s[i].t = "accept" /\ (\A j \in 1..Len(s) : j > i => s[j].t # "accept") => s[i].v = v

LEMMA AppendFacts ==
    ASSUME NEW s \in Seq(Wire), NEW m \in Wire
    PROVE  /\ \A t : Carries(Append(s, m), t) <=> Carries(s, t) \/ m.t = t
           /\ InOrder(s) /\ (m.t = "accept" => ~Carries(s, "request")) => InOrder(Append(s, m))
           /\ m.t = "accept" => LastAccept(Append(s, m), m.v)
           /\ \A v : m.t # "accept" /\ LastAccept(s, v) => LastAccept(Append(s, m), v)
<1> DEFINE u == Append(s, m)
<1>1. /\ Len(s) \in Nat /\ Len(u) = Len(s) + 1 /\ u[Len(u)] = m
      /\ \A i \in 1..Len(s) : u[i] = s[i]
  OBVIOUS
<1> HIDE DEF u
<1>2. ASSUME NEW t PROVE Carries(u, t) <=> Carries(s, t) \/ m.t = t
  BY <1>1 DEF Carries
<1>3. ASSUME InOrder(s), m.t = "accept" => ~Carries(s, "request") PROVE InOrder(u)
  BY <1>1, <1>3 DEF InOrder, Carries
<1>4. ASSUME m.t = "accept" PROVE LastAccept(u, m.v)
  BY <1>1, <1>4 DEF LastAccept
<1>5. ASSUME NEW v, m.t # "accept", LastAccept(s, v) PROVE LastAccept(u, v)
  <2> SUFFICES ASSUME NEW i \in 1..Len(u), u[i].t = "accept",
                      \A j \in 1..Len(u) : j > i => u[j].t # "accept"
               PROVE  u[i].v = v
    BY DEF LastAccept
  <2>1. i \in 1..Len(s) /\ u[i] = s[i]
    BY <1>1, <1>5
  <2>2. \A j \in 1..Len(s) : j > i => s[j].t # "accept"
    BY <1>1
  <2> QED BY <1>5, <2>1, <2>2 DEF LastAccept
<1> QED BY <1>2, <1>3, <1>4, <1>5 DEF u

LEMMA TailFacts ==
    ASSUME NEW s \in Seq(Wire), s # <<>>
    PROVE  /\ \A t : Carries(s, t) <=> s[1].t = t \/ Carries(Tail(s), t)
           /\ InOrder(s) => InOrder(Tail(s)) /\ (s[1].t = "request" => ~Carries(s, "accept"))
           /\ \A v : LastAccept(s, v) =>
                  /\ LastAccept(Tail(s), v)
                  /\ s[1].t = "accept" /\ ~Carries(Tail(s), "accept") => s[1].v = v
<1> DEFINE u == Tail(s)
<1>1. /\ Len(s) \in Nat /\ Len(u) \in Nat /\ Len(s) = Len(u) + 1
      /\ \A i \in 1..Len(u) : u[i] = s[i + 1]
  OBVIOUS
<1> HIDE DEF u
<1>2. \A j \in 2..Len(s) : j - 1 \in 1..Len(u) /\ s[j] = u[j - 1]
  BY <1>1
<1>3. ASSUME NEW t PROVE Carries(s, t) <=> s[1].t = t \/ Carries(u, t)
  <2>1. ASSUME Carries(s, t), s[1].t # t PROVE Carries(u, t)
    <3>1. PICK j \in 1..Len(s) : s[j].t = t
      BY <2>1 DEF Carries
    <3>2. j \in 2..Len(s)
      BY <1>1, <2>1, <3>1
    <3> QED BY <1>2, <3>1, <3>2 DEF Carries
  <2>2. ASSUME Carries(u, t) PROVE Carries(s, t)
    BY <1>1, <2>2 DEF Carries
  <2>3. ASSUME s[1].t = t PROVE Carries(s, t)
    BY <1>1, <2>3 DEF Carries
  <2> QED BY <2>1, <2>2, <2>3
<1>4. ASSUME InOrder(s) PROVE InOrder(u)
  BY <1>1, <1>4 DEF InOrder
<1>5. ASSUME InOrder(s), s[1].t = "request" PROVE ~Carries(s, "accept")
  BY <1>1, <1>5 DEF InOrder, Carries
<1>6. ASSUME NEW v, LastAccept(s, v) PROVE LastAccept(u, v)
  <2> SUFFICES ASSUME NEW i \in 1..Len(u), u[i].t = "accept",
                      \A j \in 1..Len(u) : j > i => u[j].t # "accept"
               PROVE  u[i].v = v
    BY DEF LastAccept
  <2>1. i + 1 \in 1..Len(s) /\ u[i] = s[i + 1]
    BY <1>1
  <2>2. ASSUME NEW j \in 1..Len(s), j > i + 1 PROVE s[j].t # "accept"
    <3>1. j \in 2..Len(s) /\ j - 1 > i
      BY <2>2
    <3> QED BY <1>2, <3>1
  <2> QED BY <1>6, <2>1, <2>2 DEF LastAccept
<1>7. ASSUME NEW v, LastAccept(s, v), s[1].t = "accept", ~Carries(u, "accept") PROVE s[1].v = v
  <2>1. \A j \in 1..Len(s) : j > 1 => s[j].t # "accept"
    BY <1>2, <1>7 DEF Carries
  <2> QED BY <1>1, <1>7, <2>1 DEF LastAccept
<1> QED BY <1>3, <1>4, <1>5, <1>6, <1>7 DEF u

\* What is cut off carries names only, or the part that stays is of no use.
LEMMA CutFacts ==
    ASSUME NEW s \in Seq(Wire), NEW t \in Seq(Wire)
    PROVE  /\ \A x : Carries(s, x) => Carries(s \o t, x)
           /\ InOrder(s \o t) => InOrder(s)
           /\ ~Carries(t, "accept") =>
                  /\ Carries(s \o t, "accept") => Carries(s, "accept")
                  /\ \A v : LastAccept(s \o t, v) => LastAccept(s, v)
<1> DEFINE u == s \o t
<1>1. /\ Len(s) \in Nat /\ Len(t) \in Nat /\ Len(u) = Len(s) + Len(t)
      /\ \A i \in 1..Len(s) : u[i] = s[i]
      /\ \A i \in 1..Len(t) : u[Len(s) + i] = t[i]
  OBVIOUS
<1> HIDE DEF u
<1>2. \A j \in 1..Len(u) : j > Len(s) => j - Len(s) \in 1..Len(t) /\ u[j] = t[j - Len(s)]
  BY <1>1
<1>3. ASSUME NEW x, Carries(s, x) PROVE Carries(u, x)
  BY <1>1, <1>3 DEF Carries
<1>4. ASSUME InOrder(u) PROVE InOrder(s)
  BY <1>1, <1>4 DEF InOrder
<1>5. ASSUME ~Carries(t, "accept")
      PROVE  \A j \in 1..Len(u) : u[j].t = "accept" => j \in 1..Len(s)
  BY <1>1, <1>2, <1>5 DEF Carries
<1>6. ASSUME ~Carries(t, "accept"), Carries(u, "accept") PROVE Carries(s, "accept")
  BY <1>1, <1>5, <1>6 DEF Carries
<1>7. ASSUME ~Carries(t, "accept"), NEW v, LastAccept(u, v) PROVE LastAccept(s, v)
  <2> SUFFICES ASSUME NEW i \in 1..Len(s), s[i].t = "accept",
                      \A j \in 1..Len(s) : j > i => s[j].t # "accept"
               PROVE  s[i].v = v
    BY DEF LastAccept
  <2>1. i \in 1..Len(u) /\ u[i] = s[i]
    BY <1>1
  <2>2. \A j \in 1..Len(u) : j > i => u[j].t # "accept"
    BY <1>1, <1>5, <1>7
  <2> QED BY <1>7, <2>1, <2>2 DEF LastAccept
<1> QED BY <1>3, <1>4, <1>6, <1>7 DEF u

\* The phone has asked and its peer has not answered.
Open(p) == PeerPending(Peer(p)) \/ Answering(Peer(p)) \/ Carries(Pipe(p), "request")

Lone == \A p \in Phone : ~(Open(p) /\ Open(Peer(p)))
Answered ==
    \A p \in Phone :
        /\ InOrder(Pipe(p))
        /\ Carries(Pipe(p), "accept") =>
              ~PeerPending(Peer(p)) /\ ~Answering(Peer(p)) /\ ~Carries(Pipe(Peer(p)), "accept")
Borne == \A p \in Phone : LastAccept(Pipe(p), value[p])
Settled == (\A p \in Phone : ~Carries(Pipe(p), "accept")) => value["a"] = value["b"]

AgreementInv == ~crossed => Lone /\ Answered /\ (~ControlsLost => Borne /\ Settled)

\* Steps that change no value and open nothing.
LEMMA NothingOpens ==
    ASSUME AgreementInv, crossed' = crossed, lost \subseteq lost', value' = value,
           \A p \in Phone :
               /\ PeerPending(p)' => PeerPending(p)
               /\ Answering(p)' => Answering(p) \/ PeerPending(p),
           \A p \in Phone :
               /\ \A t \in {"request", "accept"} : Carries(Pipe(p), t)' => Carries(Pipe(p), t)
               /\ InOrder(Pipe(p)) => InOrder(Pipe(p))'
               /\ ~ControlsLost' =>
                     /\ Carries(Pipe(p), "accept") => Carries(Pipe(p), "accept")'
                     /\ \A v : LastAccept(Pipe(p), v) => LastAccept(Pipe(p)', v)
    PROVE  AgreementInv'
<1> SUFFICES ASSUME ~crossed PROVE AgreementInv'
  BY DEF AgreementInv
<1>1. Lone /\ Answered /\ (~ControlsLost => Borne /\ Settled)
  BY DEF AgreementInv
<1>0. \A p \in Phone : /\ Carries(Pipe(p), "accept")' => Carries(Pipe(p), "accept")
                       /\ Carries(Pipe(p), "request")' => Carries(Pipe(p), "request")
  OBVIOUS
<1>2. ASSUME NEW p \in Phone, Open(p)' PROVE Open(p)
  <2>1. Peer(p) \in Phone
    BY Peers
  <2>2. PeerPending(Peer(p))' \/ Answering(Peer(p))' \/ Carries(Pipe(p), "request")'
    BY <1>2 DEF Open
  <2>3. Answering(Peer(p))' => Answering(Peer(p)) \/ PeerPending(Peer(p))
    BY <2>1
  <2>4. PeerPending(Peer(p))' => PeerPending(Peer(p))
    BY <2>1
  <2> QED BY <1>0, <2>2, <2>3, <2>4 DEF Open
<1>3. Lone'
  BY <1>1, <1>2, Peers DEF Lone
<1>4. Answered'
  <2> SUFFICES ASSUME NEW p \in Phone
               PROVE  /\ InOrder(Pipe(p))'
                      /\ Carries(Pipe(p), "accept")' =>
                            (~PeerPending(Peer(p)) /\ ~Answering(Peer(p)) /\ ~Carries(Pipe(Peer(p)), "accept"))'
    BY DEF Answered
  <2>1. Peer(p) \in Phone
    BY Peers
  <2>2. /\ InOrder(Pipe(p))
        /\ Carries(Pipe(p), "accept") =>
              ~PeerPending(Peer(p)) /\ ~Answering(Peer(p)) /\ ~Carries(Pipe(Peer(p)), "accept")
    BY <1>1 DEF Answered
  <2>3. InOrder(Pipe(p))'
    BY <2>2
  <2>4. /\ Answering(Peer(p))' => Answering(Peer(p)) \/ PeerPending(Peer(p))
        /\ PeerPending(Peer(p))' => PeerPending(Peer(p))
        /\ Carries(Pipe(p), "accept")' => Carries(Pipe(p), "accept")
        /\ Carries(Pipe(Peer(p)), "accept")' => Carries(Pipe(Peer(p)), "accept")
    BY <1>0, <2>1
  <2> QED BY <2>2, <2>3, <2>4, Zenon
<1>5. ~ControlsLost' => ~ControlsLost
  BY DEF ControlsLost
<1>6. ~ControlsLost' => Borne'
  BY <1>1, <1>5 DEF Borne
<1>7. ~ControlsLost' => Settled'
  BY <1>1, <1>5 DEF Settled
<1> QED BY <1>3, <1>4, <1>6, <1>7 DEF AgreementInv

\* The pipes as they are.
LEMMA SamePipes ==
    ASSUME \A p \in Phone : Pipe(p)' = Pipe(p)
    PROVE  \A p \in Phone :
               /\ \A t : Carries(Pipe(p), t)' <=> Carries(Pipe(p), t)
               /\ InOrder(Pipe(p)) <=> InOrder(Pipe(p))'
               /\ \A v : LastAccept(Pipe(p), v) <=> LastAccept(Pipe(p)', v)
BY DEF Carries, InOrder

\* A message that is neither a request nor an acceptance.
LEMMA IdleSend ==
    ASSUME Shape, NEW p \in Phone, NEW m \in Wire, m.t \notin {"request", "accept"},
           Sends(p, m), inbox' = inbox
    PROVE  \A r \in Phone :
               /\ \A t \in {"request", "accept"} : Carries(Pipe(r), t)' <=> Carries(Pipe(r), t)
               /\ InOrder(Pipe(r)) => InOrder(Pipe(r))'
               /\ \A v : LastAccept(Pipe(r), v) => LastAccept(Pipe(r)', v)
<1>1. Pipe(p) \in Seq(Wire) /\ Pipe(p)' = Append(Pipe(p), m) /\ Pipe(Peer(p))' = Pipe(Peer(p))
  BY PipeParts, PipeSends
<1>2. /\ \A t \in {"request", "accept"} : Carries(Append(Pipe(p), m), t) <=> Carries(Pipe(p), t)
      /\ InOrder(Pipe(p)) => InOrder(Append(Pipe(p), m))
      /\ \A v : LastAccept(Pipe(p), v) => LastAccept(Append(Pipe(p), m), v)
  BY <1>1, AppendFacts
<1>3. /\ \A t \in {"request", "accept"} : Carries(Pipe(p), t)' <=> Carries(Pipe(p), t)
      /\ InOrder(Pipe(p)) => InOrder(Pipe(p))'
      /\ \A v : LastAccept(Pipe(p), v) => LastAccept(Pipe(p)', v)
  BY <1>1, <1>2 DEF Carries, InOrder
<1>4. /\ \A t \in {"request", "accept"} : Carries(Pipe(Peer(p)), t)' <=> Carries(Pipe(Peer(p)), t)
      /\ InOrder(Pipe(Peer(p))) => InOrder(Pipe(Peer(p)))'
      /\ \A v : LastAccept(Pipe(Peer(p)), v) => LastAccept(Pipe(Peer(p))', v)
  BY <1>1 DEF Carries, InOrder
<1> QED BY <1>3, <1>4, Peers

\* What the model means by a request under way.
LEMMA UnderWay ==
    ASSUME Shape, NEW p \in Phone, ~RequestUnderWay(p)
    PROVE  ~PeerPending(p) /\ ~Carries(Pipe(Peer(p)), "request")
<1> DEFINE q == Peer(p)
<1>1. q \in Phone /\ Peer(q) = p
  BY Peers
<1>2. \A m \in Range(out[q]) \cup Range(inbox[p]) : m.t # "request"
  BY DEF RequestUnderWay
<1>3. out[q] \in Seq(Wire) /\ inbox[p] \in Seq(Wire) /\ Pipe(q) = inbox[p] \o out[q]
  BY <1>1 DEF Shape, Pipe
<1> DEFINE s == inbox[p]
           t == out[q]
<1>4. s \in Seq(Wire) /\ t \in Seq(Wire) /\ \A m \in Range(t) \cup Range(s) : m.t # "request"
  BY <1>2, <1>3
<1> HIDE DEF s, t
<1>5. /\ Len(s \o t) = Len(s) + Len(t) /\ Len(s) \in Nat /\ Len(t) \in Nat
      /\ \A i \in 1..Len(s) : (s \o t)[i] = s[i] /\ s[i] \in Range(s)
      /\ \A i \in 1..Len(t) : (s \o t)[Len(s) + i] = t[i] /\ t[i] \in Range(t)
  BY <1>4 DEF Range
<1>6. ASSUME NEW i \in 1..Len(s \o t) PROVE (s \o t)[i] \in Range(t) \cup Range(s)
  <2>1. CASE i <= Len(s)
    BY <1>5, <2>1
  <2>2. CASE i > Len(s)
    <3>1. i - Len(s) \in 1..Len(t) /\ Len(s) + (i - Len(s)) = i
      BY <1>5, <2>2
    <3> QED BY <1>5, <3>1
  <2> QED BY <1>5, <2>1, <2>2
<1>7. ~Carries(s \o t, "request")
  BY <1>4, <1>6 DEF Carries
<1> QED BY <1>3, <1>7 DEF RequestUnderWay, s, t

\* A request opens on its side only, or it crosses one of the peer.
LEMMA RequestAgrees ==
    ASSUME Shape, AgreementInv, NEW p \in Phone, Requests(p)
    PROVE  AgreementInv'
<1> PICK m : m = Message("request", task[p].v)
  OBVIOUS
<1> DEFINE q == Peer(p)
<1>1. m \in Wire /\ m.t = "request"
  BY TaskValue DEF Requests, Shape, Message, Wire
<1>2. q \in Phone /\ Peer(q) = p /\ p # q
  BY Peers
<1> SUFFICES ASSUME ~crossed' PROVE AgreementInv'
  BY DEF AgreementInv
<1>3. ~crossed /\ ~RequestUnderWay(p) /\ lost' = lost /\ value' = value
  BY DEF Requests
<1>4. ~PeerPending(p) /\ ~Carries(Pipe(q), "request") /\ ~Answering(p)
  BY <1>3, UnderWay DEF Requests, Answering
<1>5. Lone /\ Answered /\ (~ControlsLost => Borne /\ Settled)
  BY <1>3 DEF AgreementInv
<1>6. Pipe(p) \in Seq(Wire) /\ Pipe(p)' = Append(Pipe(p), m) /\ Pipe(q)' = Pipe(q)
  BY <1>1, PipeParts, PipeSends DEF Requests
<1>7. /\ Carries(Pipe(p), "accept")' <=> Carries(Pipe(p), "accept")
      /\ InOrder(Pipe(p)) => InOrder(Pipe(p))'
      /\ \A v : LastAccept(Pipe(p), v) => LastAccept(Pipe(p)', v)
  <2>1. /\ Carries(Append(Pipe(p), m), "accept") <=> Carries(Pipe(p), "accept")
        /\ InOrder(Pipe(p)) => InOrder(Append(Pipe(p), m))
        /\ \A v : LastAccept(Pipe(p), v) => LastAccept(Append(Pipe(p), m), v)
    BY <1>1, <1>6, AppendFacts
  <2> QED BY <1>6, <2>1 DEF Carries, InOrder
<1>8. /\ \A t : Carries(Pipe(q), t)' <=> Carries(Pipe(q), t)
      /\ InOrder(Pipe(q)) => InOrder(Pipe(q))'
      /\ \A v : LastAccept(Pipe(q), v) => LastAccept(Pipe(q)', v)
  BY <1>6 DEF Carries, InOrder
<1>9. /\ ~PeerPending(p)' /\ ~Answering(p)'
      /\ PeerPending(q)' = PeerPending(q) /\ Answering(q)' = Answering(q)
  BY <1>2 DEF Requests, Set, Own, NoTask, PeerPending, Answering, Shape
<1>10. Lone'
  BY <1>2, <1>4, <1>8, <1>9, Peers DEF Lone, Open
<1>11. Answered'
  <2>1. /\ InOrder(Pipe(p))' /\ InOrder(Pipe(q))'
        /\ Carries(Pipe(p), "accept")' => ~PeerPending(q)' /\ ~Answering(q)' /\ ~Carries(Pipe(q), "accept")'
    BY <1>2, <1>5, <1>7, <1>8, <1>9 DEF Answered
  <2> QED BY <1>2, <1>7, <1>8, <1>9, <2>1, Peers DEF Answered
<1>12. ~ControlsLost' => ~ControlsLost
  BY <1>3 DEF ControlsLost
<1>13. ~ControlsLost' => Borne'
  BY <1>3, <1>5, <1>7, <1>8, <1>12, Peers DEF Borne
<1>14. ~ControlsLost' => Settled'
  BY <1>2, <1>3, <1>5, <1>7, <1>8, <1>12, Peers DEF Settled
<1> QED BY <1>10, <1>11, <1>13, <1>14 DEF AgreementInv

\* An acceptance closes the peer's request, and nothing else is open.
LEMMA GrantAgrees ==
    ASSUME Shape, AgreementInv, NEW p \in Phone, Grants(p)
    PROVE  AgreementInv'
<1> PICK v : v = task[p].v
  OBVIOUS
<1> DEFINE m == Message("accept", v)
           q == Peer(p)
<1>1. m \in Wire /\ m.t = "accept" /\ m.v = v
  BY TaskValue DEF Grants, Shape, Message, Wire
<1>2. q \in Phone /\ Peer(q) = p /\ p # q
  BY Peers
<1> HIDE DEF m
<1> SUFFICES ASSUME ~crossed PROVE AgreementInv'
  BY DEF AgreementInv, Grants
<1>3. Lone /\ Answered
  BY DEF AgreementInv
<1>4. Open(q) /\ ~Open(p)
  BY <1>2, <1>3 DEF Grants, Answering, Open, Lone
<1>5. ~PeerPending(q) /\ ~Answering(q) /\ ~Carries(Pipe(p), "request") /\ ~Carries(Pipe(q), "accept")
  BY <1>2, <1>3, <1>4 DEF Open, Answered, Grants, Answering
<1>6. Pipe(p) \in Seq(Wire) /\ Pipe(p)' = Append(Pipe(p), m) /\ Pipe(q)' = Pipe(q)
  BY <1>1, PipeParts, PipeSends DEF Grants, m
<1>7. /\ Carries(Pipe(p), "accept")' /\ ~Carries(Pipe(p), "request")'
      /\ InOrder(Pipe(p))' /\ LastAccept(Pipe(p)', v)
  <2>1. /\ Carries(Append(Pipe(p), m), "accept") /\ ~Carries(Append(Pipe(p), m), "request")
        /\ InOrder(Append(Pipe(p), m)) /\ LastAccept(Append(Pipe(p), m), v)
    BY <1>1, <1>3, <1>5, <1>6, AppendFacts DEF Answered
  <2> QED BY <1>6, <2>1 DEF Carries, InOrder
<1>8. /\ ~Carries(Pipe(q), "accept")' /\ InOrder(Pipe(q))' /\ LastAccept(Pipe(q)', value'[q])
  BY <1>2, <1>3, <1>5, <1>6 DEF Carries, InOrder, LastAccept, Answered
<1>9. /\ PeerPending(q)' = PeerPending(q) /\ Answering(q)' = Answering(q)
      /\ ~Answering(p)' /\ value'[p] = v
  BY <1>2 DEF Grants, Set, NoTask, PeerPending, Answering, Shape
<1>10. Lone'
  BY <1>2, <1>5, <1>7, <1>9, Peers DEF Lone, Open
<1>11. Answered'
  BY <1>2, <1>5, <1>7, <1>8, <1>9, Peers DEF Answered
<1>12. Borne'
  BY <1>7, <1>8, <1>9, Peers DEF Borne
<1>13. Settled'
  BY <1>7 DEF Settled
<1> QED BY <1>10, <1>11, <1>12, <1>13 DEF AgreementInv

\* Handling a message of q: a request or an acceptance leaves the pipe and has
\* its effect; anything else closes what was open.
LEMMA ReceiveAgrees ==
    ASSUME Shape, AgreementInv, NEW p \in Phone, Receive(Peer(p))
    PROVE  AgreementInv'
<1> PICK q : q = Peer(p)
  OBVIOUS
<1> PICK m : m = Head(inbox[q])
  OBVIOUS
<1>1. q \in Phone /\ Peer(q) = p /\ p # q /\ Peer(p) = q
  BY Peers
<1>2. /\ Pipe(p) \in Seq(Wire) /\ Pipe(p) # <<>> /\ m = Pipe(p)[1] /\ m \in Wire
      /\ Pipe(p)' = Tail(Pipe(p)) /\ Pipe(q)' = Pipe(q)
  BY <1>1, PipeParts, ReceiveTakes, SentAreWire
<1> SUFFICES ASSUME ~crossed PROVE AgreementInv'
  BY DEF AgreementInv, Receive
<1>3. Lone /\ Answered /\ (~ControlsLost => Borne /\ Settled)
  BY DEF AgreementInv
<1>4. /\ \A t : Carries(Pipe(p), t) <=> m.t = t \/ Carries(Pipe(p), t)'
      /\ InOrder(Pipe(p))' /\ (m.t = "request" => ~Carries(Pipe(p), "accept"))
      /\ \A v : LastAccept(Pipe(p), v) =>
            /\ LastAccept(Pipe(p)', v)
            /\ m.t = "accept" /\ ~Carries(Pipe(p), "accept")' => m.v = v
  <2>1. /\ \A t : Carries(Pipe(p), t) <=> m.t = t \/ Carries(Tail(Pipe(p)), t)
        /\ InOrder(Tail(Pipe(p))) /\ (m.t = "request" => ~Carries(Pipe(p), "accept"))
        /\ \A v : LastAccept(Pipe(p), v) =>
              /\ LastAccept(Tail(Pipe(p)), v)
              /\ m.t = "accept" /\ ~Carries(Tail(Pipe(p)), "accept") => m.v = v
    BY <1>2, <1>3, TailFacts DEF Answered
  <2> QED BY <1>2, <2>1 DEF Carries, InOrder
<1>5. /\ \A t : Carries(Pipe(q), t)' <=> Carries(Pipe(q), t)
      /\ InOrder(Pipe(q))' /\ (\A v : LastAccept(Pipe(q), v) => LastAccept(Pipe(q)', v))
  BY <1>1, <1>2, <1>3 DEF Carries, InOrder, Answered
<1>6. /\ PeerPending(p)' = PeerPending(p) /\ Answering(p)' = Answering(p) /\ Answering(q)' = Answering(q)
      /\ PeerPending(q)' => PeerPending(q) \/ m.t = "request"
      /\ value'[p] = value[p] /\ value'[q] = (IF m.t = "accept" THEN m.v ELSE value[q])
      /\ lost' = lost
  <2>1. /\ value' = (IF m.t = "accept" THEN Set(value, q, m.v) ELSE value)
        /\ pending' \in {pending, Set(pending, q, NoRequest), Set(pending, q, Incoming(m.v))}
        /\ m.t # "request" => pending' \in {pending, Set(pending, q, NoRequest)}
        /\ task' = task /\ lost' = lost
    BY <1>1 DEF Receive, ReceivesRequest, ReceivesAccept, ReceivesCancel, ReceivesName
  <2>2. value'[p] = value[p] /\ value'[q] = (IF m.t = "accept" THEN m.v ELSE value[q])
    BY <1>1, <2>1 DEF Set, Shape
  <2>3. pending'[p] = pending[p]
    BY <1>1, <2>1 DEF Set, Shape
  <2>4. m.t # "request" => pending'[q] \in {pending[q], NoRequest}
    BY <1>1, <2>1 DEF Set, Shape
  <2> QED BY <2>1, <2>2, <2>3, <2>4 DEF PeerPending, Answering
<1>7. Lone'
  <2>1. Open(p)' => Open(p)
    BY <1>1, <1>4, <1>6 DEF Open
  <2>2. Open(q)' => Open(q)
    BY <1>1, <1>5, <1>6 DEF Open
  <2> QED BY <1>1, <1>3, <2>1, <2>2, Peers DEF Lone
<1>8. Answered'
  <2>1. Carries(Pipe(p), "accept")' => ~PeerPending(q)' /\ ~Answering(q)' /\ ~Carries(Pipe(q), "accept")'
    BY <1>1, <1>3, <1>4, <1>5, <1>6 DEF Answered
  <2>2. Carries(Pipe(q), "accept")' => ~PeerPending(p)' /\ ~Answering(p)' /\ ~Carries(Pipe(p), "accept")'
    BY <1>1, <1>3, <1>4, <1>5, <1>6 DEF Answered
  <2> QED BY <1>1, <1>4, <1>5, <2>1, <2>2, Peers DEF Answered
<1>9. ~ControlsLost' => ~ControlsLost
  BY <1>6 DEF ControlsLost
<1>10. m.t = "accept" => ~Carries(Pipe(q), "accept")
  BY <1>1, <1>3, <1>4 DEF Answered
<1>11. ASSUME ~ControlsLost' PROVE Borne'
  <2>1. LastAccept(Pipe(p)', value'[p])
    BY <1>3, <1>4, <1>6, <1>9, <1>11 DEF Borne
  <2>2. CASE m.t = "accept"
    <3>1. LastAccept(Pipe(q)', value'[q])
      BY <1>5, <1>10, <2>2 DEF LastAccept, Carries
    <3> QED BY <1>1, <2>1, <3>1, Peers DEF Borne
  <2>3. CASE m.t # "accept"
    <3>1. LastAccept(Pipe(q)', value'[q])
      BY <1>1, <1>3, <1>5, <1>6, <1>9, <1>11, <2>3 DEF Borne
    <3> QED BY <1>1, <2>1, <3>1, Peers DEF Borne
  <2> QED BY <2>2, <2>3
<1>12. ASSUME ~ControlsLost' PROVE Settled'
  <2> SUFFICES ASSUME ~Carries(Pipe(p), "accept")' , ~Carries(Pipe(q), "accept")'
               PROVE  value'["a"] = value'["b"]
    BY <1>1 DEF Settled
  <2>1. CASE m.t = "accept"
    <3>1. m.v = value[p]
      BY <1>3, <1>4, <1>9, <1>12, <2>1 DEF Borne
    <3> QED BY <1>1, <1>6, <2>1, <3>1, Peers
  <2>2. CASE m.t # "accept"
    <3>1. \A r \in Phone : ~Carries(Pipe(r), "accept")
      BY <1>1, <1>4, <1>5, <2>2, Peers
    <3>2. value["a"] = value["b"]
      BY <1>3, <1>9, <1>12, <3>1 DEF Settled
    <3> QED BY <1>1, <1>6, <2>2, <3>2, Peers
  <2> QED BY <2>1, <2>2
<1> QED BY <1>7, <1>8, <1>11, <1>12 DEF AgreementInv

\* A process that dies loses controls, or only names.
LEMMA KillAgrees ==
    ASSUME Shape, AgreementInv, NEW p \in Phone, Kill(p)
    PROVE  AgreementInv'
<1> DEFINE q == Peer(p)
           s == inbox[q]
           t == out[p]
<1>1. q \in Phone /\ Peer(q) = p
  BY Peers
<1>2. s \in Seq(Wire) /\ t \in Seq(Wire) /\ Pipe(p) = s \o t
  BY <1>1 DEF Shape, Pipe
<1>3. Pipe(p)' = s /\ Pipe(q)' = Pipe(q)
  BY PipeCut DEF Kill
<1>4. ~ControlsLost' => ~Carries(t, "accept")
  <2> SUFFICES ASSUME NEW i \in 1..Len(t), t[i].t = "accept" PROVE ControlsLost'
    BY DEF Carries
  <2>1. t[i] \in Range(out[p])
    BY <1>2 DEF Range
  <2>2. t[i] \in lost'
    BY <2>1 DEF Kill, Unrepeated
  <2> QED BY <2>2 DEF ControlsLost
<1> HIDE DEF s, t
<1>5. /\ \A x : Carries(s, x) => Carries(s \o t, x)
      /\ InOrder(s \o t) => InOrder(s)
      /\ ~ControlsLost' =>
            /\ Carries(s \o t, "accept") => Carries(s, "accept")
            /\ \A v : LastAccept(s \o t, v) => LastAccept(s, v)
  BY <1>2, <1>4, CutFacts
<1>6. /\ \A x : Carries(Pipe(p), x)' => Carries(Pipe(p), x)
      /\ InOrder(Pipe(p)) => InOrder(Pipe(p))'
      /\ ~ControlsLost' =>
            /\ Carries(Pipe(p), "accept") => Carries(Pipe(p), "accept")'
            /\ \A v : LastAccept(Pipe(p), v) => LastAccept(Pipe(p)', v)
  BY <1>2, <1>3, <1>5 DEF Carries, InOrder
<1>7. /\ \A x : Carries(Pipe(q), x)' <=> Carries(Pipe(q), x)
      /\ InOrder(Pipe(q)) => InOrder(Pipe(q))'
      /\ \A v : LastAccept(Pipe(q), v) => LastAccept(Pipe(q)', v)
  BY <1>3 DEF Carries, InOrder
<1>8. \A r \in Phone :
         /\ \A x \in {"request", "accept"} : Carries(Pipe(r), x)' => Carries(Pipe(r), x)
         /\ InOrder(Pipe(r)) => InOrder(Pipe(r))'
         /\ ~ControlsLost' =>
               /\ Carries(Pipe(r), "accept") => Carries(Pipe(r), "accept")'
               /\ \A v : LastAccept(Pipe(r), v) => LastAccept(Pipe(r)', v)
  BY <1>6, <1>7, Peers
<1>9. \A r \in Phone : (PeerPending(r)' => PeerPending(r)) /\ (Answering(r)' => Answering(r))
  BY DEF Kill, Set, NoTask, PeerPending, Answering, Shape
<1>10. crossed' = crossed /\ lost \subseteq lost' /\ value' = value
  BY DEF Kill
<1> QED BY <1>8, <1>9, <1>10, NothingOpens

LEMMA AgreementStep == TypeInv /\ AgreementInv /\ [Next]_vars => AgreementInv'
<1> SUFFICES ASSUME Shape, AgreementInv, [Next]_vars PROVE AgreementInv'
  BY DEF TypeInv
<1> USE DEF negotiation, naming
<1>a. ASSUME UNCHANGED <<crossed, value>>, lost \subseteq lost', \A p \in Phone : Pipe(p)' = Pipe(p),
             \A p \in Phone :
                 /\ PeerPending(p)' => PeerPending(p)
                 /\ Answering(p)' => Answering(p) \/ PeerPending(p)
      PROVE  AgreementInv'
  BY <1>a, SamePipes, NothingOpens
<1>b. ASSUME UNCHANGED <<crossed, value, lost, out, inbox, pending>>,
             \A p \in Phone : Answering(p)' => Answering(p) \/ PeerPending(p)
      PROVE  AgreementInv'
  BY <1>a, <1>b, PipeKept DEF PeerPending
<1>1. ASSUME NEW p \in Phone, NEW v \in Value, TapRequest(p, v) PROVE AgreementInv'
  <2>1. \A r \in Phone : Answering(r)' => Answering(r)
    BY <1>1 DEF TapRequest, Set, Task, Answering, Shape
  <2> QED BY <1>b, <1>1, <2>1 DEF TapRequest
<1>2. ASSUME NEW p \in Phone, TapAccept(p) PROVE AgreementInv'
  <2>1. \A r \in Phone : Answering(r)' => Answering(r) \/ PeerPending(r)
    BY <1>2 DEF TapAccept, Set, Task, Answering, Shape
  <2> QED BY <1>b, <1>2, <2>1 DEF TapAccept
<1>3. ASSUME NEW p \in Phone, ChecksAccept(p) PROVE AgreementInv'
  <2>1. \A r \in Phone : Answering(r)' => Answering(r)
    BY <1>3 DEF ChecksAccept, Set, Task, NoTask, Answering, Shape
  <2> QED BY <1>b, <1>3, <2>1 DEF ChecksAccept
<1>4. ASSUME NEW p \in Phone, TapCancel(p) PROVE AgreementInv'
  <2>1. \A r \in Phone : Answering(r)' => Answering(r)
    BY <1>4 DEF TapCancel, Set, Task, Answering, Shape
  <2> QED BY <1>b, <1>4, <2>1 DEF TapCancel
<1>5. ASSUME NEW p \in Phone, Cancels(p) PROVE AgreementInv'
  <2>1. Message("cancel", Default) \in Wire /\ Message("cancel", Default).t = "cancel"
    BY DEF Message, Wire
  <2>2. \A r \in Phone : (PeerPending(r)' => PeerPending(r)) /\ (Answering(r)' => Answering(r))
    BY <1>5 DEF Cancels, Set, NoTask, PeerPending, Answering, Shape
  <2>3. Sends(p, Message("cancel", Default)) /\ inbox' = inbox /\ UNCHANGED <<crossed, value, lost>>
    BY <1>5 DEF Cancels
  <2> QED BY <2>1, <2>2, <2>3, IdleSend, NothingOpens
<1>6. ASSUME NEW p \in Phone, Announces(p) PROVE AgreementInv'
  <2>1. Message("name", name[p]) \in Wire /\ Message("name", name[p]).t = "name"
    BY DEF Message, Wire, Names, Shape
  <2>2. \A r \in Phone : (PeerPending(r)' => PeerPending(r)) /\ (Answering(r)' => Answering(r))
    BY <1>6 DEF Announces, PeerPending, Answering
  <2>3. UNCHANGED <<crossed, value, lost, pending, inbox>>
    BY <1>6 DEF Announces
  <2>4. CASE flagged[p]
    <3>1. Sends(p, Message("name", name[p]))
      BY <1>6, <2>4 DEF Announces
    <3> QED BY <2>1, <2>2, <2>3, <3>1, IdleSend, NothingOpens
  <2>5. CASE ~flagged[p]
    BY <1>b, <1>6, <2>2, <2>3, <2>5 DEF Announces
  <2> QED BY <2>4, <2>5
<1>7. ASSUME NEW p \in Phone, Accepted(p) PROVE AgreementInv'
  <2>1. \A r \in Phone : Pipe(r)' = Pipe(r)
    BY <1>7, PipeMoves DEF Accepted
  <2>2. UNCHANGED <<crossed, value, lost, pending, task>>
    BY <1>7 DEF Accepted
  <2> QED BY <1>a, <2>1, <2>2 DEF PeerPending, Answering
<1>8. ASSUME NEW r \in Phone, Receive(r) PROVE AgreementInv'
  BY <1>8, ReceiveAgrees, Peers
<1>9. ASSUME NEW p \in Phone, StoresName(p) \/ Flags(p) \/ Connected(p) PROVE AgreementInv'
  <2>1. UNCHANGED <<crossed, value, lost, out, inbox, pending, task>>
    BY <1>9 DEF StoresName, Flags, Connected
  <2> QED BY <1>b, <2>1 DEF Answering
<1>10. CASE UNCHANGED vars
  BY <1>b, <1>10 DEF vars, Answering
<1> QED
  BY <1>1, <1>2, <1>3, <1>4, <1>5, <1>6, <1>7, <1>8, <1>9, <1>10,
     RequestAgrees, GrantAgrees, KillAgrees DEF Next

\* The two phones keep the same retention once nothing is under way, unless
\* requests crossed or a message died with a process
\* (services/messaging.ts: requestRetention, acceptRetention, setRetention).
THEOREM PhonesAgree == Spec => []Agreement
<1>1. Init => AgreementInv
  <2> SUFFICES ASSUME Init PROVE AgreementInv OBVIOUS
  <2>1. \A p \in Phone : Pipe(p) = <<>>
    BY Peers DEF Init, Pipe
  <2>2. \A p \in Phone : InOrder(Pipe(p)) /\ LastAccept(Pipe(p), value[p])
                       /\ \A t : ~Carries(Pipe(p), t)
    BY <2>1 DEF InOrder, LastAccept, Carries
  <2>3. value["a"] = value["b"]
    BY Peers DEF Init
  <2>4. \A p \in Phone : ~Open(p)
    BY <2>2, Peers DEF Init, Open, PeerPending, Answering, NoTask
  <2>5. Lone /\ Answered
    BY <2>2, <2>4 DEF Lone, Answered
  <2>6. Borne /\ Settled
    BY <2>2, <2>3 DEF Borne, Settled
  <2> QED BY <2>5, <2>6 DEF AgreementInv
<1>2. TypeInv /\ [Next]_vars => TypeInv'
  BY ShapeStep, NamesStep DEF TypeInv
<1>3. AgreementInv => Agreement
  <2> SUFFICES ASSUME AgreementInv, Quiescent, ~crossed, ~ControlsLost
               PROVE  value["a"] = value["b"]
    BY DEF Agreement
  <2>1. \A p \in Phone : Pipe(p) = <<>>
    BY Peers DEF Quiescent, Pipe
  <2>2. \A p \in Phone : ~Carries(Pipe(p), "accept")
    BY <2>1 DEF Carries
  <2> QED BY <2>2 DEF AgreementInv, Settled
<1> QED BY <1>1, <1>2, <1>3, InitTypeInv, AgreementStep, PTL DEF Spec
=============================================================================
