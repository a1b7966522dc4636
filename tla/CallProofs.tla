------------------------------ MODULE CallProofs ------------------------------
(***************************************************************************)
(* Call proved for any phones, any calls planned between them and any      *)
(* scenes of trouble.                                                      *)
(***************************************************************************)
EXTENDS CallMC, SequenceTheorems, TLAPS

Lifecycle(d) == INSTANCE CallLifecycle WITH status <- phone[d].status, dir <- Direction(d)

Callee(c) == Plan[c][2]
Party(d, c) == d = Caller(c) \/ d = Callee(c)

AtRest == {"idle", "ending"}
Begun == {"turn", "engine", "sending"}

\* How the status of one controller and its current call hang together.
Coherent(d, p) ==
    /\ p.call.id = 0 <=> p.status \in AtRest
    /\ p.call.id = 0 => p.call.stage = "none"
    /\ p.call.id # 0 => Party(d, p.call.id)
    /\ p.status \in {"starting", "outgoing-ringing"} => Outgoing(d, p)
    /\ p.status = "incoming-ringing" => ~Outgoing(d, p)
    /\ Outgoing(d, p) => (p.call.stage \in Begun <=> p.status = "starting")

\* A controller checks the availability of its own calls only.
Asks(d, p) == \A c \in p.asking : Caller(c) = d

\* Frames travel between the two parties of their call, offers from its caller.
Route(s, d, m) == Party(s, m.id) /\ d = Other(s, m.id) /\ (m.t = "offer" => s = Caller(m.id))

Chans == [Phone -> [Phone -> Seq(Signals)]]
Routed(ch) == \A s, d \in Phone : \A i \in DOMAIN ch[s][d] : Route(s, d, ch[s][d][i])

Luck == \E s \in Scenes : luck = [s EXCEPT !.max = luck.max] /\ luck.max \in 0..s.max

Inv ==
    /\ phone \in [Phone -> Phones] /\ chan \in Chans /\ Luck
    /\ \A d \in Phone : Coherent(d, phone[d]) /\ Asks(d, phone[d])
    /\ Routed(chan)

\* The steps of CallLifecycle, seen from the record of the controller.
Same(p, q) == q.call.id = p.call.id
Turns(d, p, q) ==
    \/ q.status = p.status /\ (Same(p, q) \/ q.status \in AtRest)
    \/ q.status = "idle"
    \/ q.status = "ending" /\ p.status \notin AtRest
    \/ q.status \in {"starting", "incoming-ringing"} /\ p.status \in AtRest
    \/ q.status = "outgoing-ringing" /\ p.status = "starting"
    \/ q.status = "connecting" /\ p.status \in {"outgoing-ringing", "incoming-ringing"} /\ Same(p, q)
    \/ q.status = "connecting" /\ p.status \in {"starting", "outgoing-ringing"} /\ ~Outgoing(d, q)
    \/ q.status = "active" /\ p.status \in {"connecting", "reconnecting"} /\ Same(p, q)
    \/ q.status = "reconnecting" /\ p.status = "active" /\ Same(p, q)

\* One controller goes from phone[d] to q.
Becomes(d, q) ==
    /\ q \in Phones /\ phone' = [phone EXCEPT ![d] = q]
    /\ Coherent(d, q) /\ Asks(d, q) /\ Turns(d, phone[d], q)

-----------------------------------------------------------------------------
(* The plan and the parties.                                               *)

LEMMA Plans ==
    /\ Ids \subseteq Nat /\ 0 \notin Ids
    /\ \A c \in Ids : Caller(c) \in Phone /\ Callee(c) \in Phone /\ Caller(c) # Callee(c)
    /\ \A c \in Ids : \A d : Party(d, c) => Other(d, c) \in Phone /\ Party(Other(d, c), c) /\ Other(d, c) # d
    /\ \A c \in Ids : \A d : Party(d, c) => Other(Other(d, c), c) = d
BY CallConstants DEF Ids, Caller, Callee, Party, Other

\* What an abstract step of the controller is on the screen.
LEMMA TurnsAreSteps ==
    ASSUME Inv, NEW d \in Phone, NEW q, Becomes(d, q)
    PROVE  [Lifecycle(d)!Next]_(Lifecycle(d)!shown)
<1> PICK p : p = phone[d]
  OBVIOUS
<1>1. phone'[d] = q /\ Coherent(d, p) /\ Coherent(d, q) /\ Turns(d, p, q)
  BY DEF Inv, Becomes
<1>2. /\ phone[d].status = p.status
      /\ Direction(d) = IF p.status \in AtRest THEN "none" ELSE IF Outgoing(d, p) THEN "out" ELSE "in"
      /\ phone'[d].status = q.status
      /\ Direction(d)' = IF q.status \in AtRest THEN "none" ELSE IF Outgoing(d, q) THEN "out" ELSE "in"
  BY <1>1 DEF Direction, AtRest, Outgoing, InCall
<1>3. Same(p, q) => (Outgoing(d, p) <=> Outgoing(d, q))
  BY DEF Same, Outgoing, InCall
<1> HIDE DEF Outgoing
<1> USE DEF Lifecycle!Next, Lifecycle!shown, Lifecycle!Shows, Lifecycle!AtRest, Lifecycle!Talking, AtRest
<1>4. CASE q.status = p.status /\ (Same(p, q) \/ q.status \in AtRest)
  BY <1>2, <1>3, <1>4
<1>5. CASE q.status = "idle"
  BY <1>2, <1>5 DEF Lifecycle!Vanish
<1>6. CASE q.status = "ending" /\ p.status \notin AtRest
  BY <1>2, <1>6 DEF Lifecycle!End
<1>7. CASE q.status \in {"starting", "incoming-ringing"} /\ p.status \in AtRest
  BY <1>1, <1>2, <1>7 DEF Lifecycle!Place, Lifecycle!Ring, Coherent
<1>8. CASE q.status = "outgoing-ringing" /\ p.status = "starting"
  BY <1>1, <1>2, <1>8 DEF Lifecycle!Offered, Coherent
<1>9. CASE q.status = "connecting" /\ p.status \in {"outgoing-ringing", "incoming-ringing"} /\ Same(p, q)
  BY <1>1, <1>2, <1>3, <1>9 DEF Lifecycle!Accepted, Lifecycle!Accept, Coherent
<1>10. CASE q.status = "connecting" /\ p.status \in {"starting", "outgoing-ringing"} /\ ~Outgoing(d, q)
  BY <1>2, <1>10 DEF Lifecycle!Crossed
<1>11. CASE q.status = "active" /\ p.status \in {"connecting", "reconnecting"} /\ Same(p, q)
  BY <1>2, <1>3, <1>11 DEF Lifecycle!MediaUp
<1>12. CASE q.status = "reconnecting" /\ p.status = "active" /\ Same(p, q)
  BY <1>2, <1>3, <1>12 DEF Lifecycle!MediaLost
<1> QED BY <1>1, <1>4, <1>5, <1>6, <1>7, <1>8, <1>9, <1>10, <1>11, <1>12 DEF Turns

-----------------------------------------------------------------------------
(* The helpers of the controller.                                          *)

LEMMA WriteRowIs ==
    ASSUME NEW p \in Phones, NEW c \in Ids, NEW row \in Rows
    PROVE  LET q == WriteRow(p, c, row) IN
           /\ q \in Phones /\ q = [p EXCEPT !.rows = q.rows]
           /\ \A x \in Ids : q.rows[x] = IF x = c /\ p.rows[x] = "none" THEN row ELSE p.rows[x]
<1>1. p.rows \in [Ids -> Rows]
  BY DEF Phones
<1>2. CASE p.rows[c] = "none"
  <2>1. WriteRow(p, c, row) = [p EXCEPT !.rows = [p.rows EXCEPT ![c] = row]]
    BY <1>2 DEF WriteRow
  <2>2. [p.rows EXCEPT ![c] = row] \in [Ids -> Rows]
    BY <1>1
  <2> QED BY <1>1, <1>2, <2>1, <2>2 DEF Phones
<1>3. CASE p.rows[c] # "none"
  BY <1>1, <1>3 DEF WriteRow, Phones
<1> QED BY <1>2, <1>3

LEMMA TeardownIs ==
    ASSUME NEW p \in Phones, NEW c \in Ids
    PROVE  LET q == Teardown(p, c) IN
           /\ q \in Phones /\ q.call = NoCall /\ q.status = p.status /\ q.rows = p.rows
           /\ q.talked = p.talked /\ q.placed = p.placed /\ q.asking = p.asking /\ q.locking = p.locking
           /\ q.locked = p.locked /\ q.recent = p.recent \cup {c}
BY DEF Phones, Teardown, NoCall, Calls, Stages

LEMMA Ended ==
    ASSUME NEW p \in Phones, NEW ti \in SUBSET Timers
    PROVE  [p EXCEPT !.status = "ending", !.timers = ti] \in Phones
BY DEF Phones, Statuses

LEMMA Refitted ==
    ASSUME NEW p \in Phones, NEW k \in Calls, NEW s \in Statuses, NEW ti \in SUBSET Timers
    PROVE  [p EXCEPT !.call = k, !.status = s, !.timers = ti] \in Phones
BY DEF Phones

LEMMA FinishIs ==
    ASSUME NEW p \in Phones, p.call.id # 0, NEW row \in Rows
    PROVE  LET q == Finish(p, row) IN
           /\ q \in Phones /\ q.call = NoCall /\ q.status = "ending" /\ p.call.id \in Ids
           /\ \A x \in Ids : q.rows[x] = IF x = p.call.id /\ p.rows[x] = "none" THEN row ELSE p.rows[x]
           /\ q.talked = p.talked /\ q.placed = p.placed /\ q.asking = p.asking /\ q.locking = p.locking
           /\ q.locked = p.locked /\ q.recent = p.recent \cup {p.call.id}
<1> PICK c : c = p.call.id
  OBVIOUS
<1>1. c \in Ids
  BY DEF Phones, Calls
<1> PICK w : w = WriteRow(p, c, row)
  OBVIOUS
<1>2. /\ w \in Phones /\ w = [p EXCEPT !.rows = w.rows]
      /\ \A x \in Ids : w.rows[x] = IF x = c /\ p.rows[x] = "none" THEN row ELSE p.rows[x]
  BY <1>1, WriteRowIs
<1> PICK t : t = Teardown(w, c)
  OBVIOUS
<1>3. /\ t \in Phones /\ t.call = NoCall /\ t.rows = w.rows /\ t.talked = w.talked /\ t.placed = w.placed
      /\ t.asking = w.asking /\ t.locking = w.locking /\ t.locked = w.locked
      /\ t.recent = w.recent \cup {c}
  BY <1>1, <1>2, TeardownIs
<1>4. /\ w.talked = p.talked /\ w.placed = p.placed /\ w.asking = p.asking /\ w.locking = p.locking
      /\ w.locked = p.locked /\ w.recent = p.recent
  BY <1>2 DEF Phones
<1> PICK armed : armed = t.timers \cup {"linger"}
  OBVIOUS
<1>5. armed \in SUBSET Timers /\ "ending" \in Statuses
  BY <1>3 DEF Phones, Statuses, Timers
<1>6. Finish(p, row) = [t EXCEPT !.status = "ending", !.timers = armed]
  BY DEF Finish
<1>7. [t EXCEPT !.status = "ending", !.timers = armed] \in Phones
  <2>1. t \in Phones
    BY <1>3
  <2>2. armed \in SUBSET Timers
    BY <1>5
  <2> QED BY <2>1, <2>2, Ended
<1> PICK q : q = [t EXCEPT !.status = "ending", !.timers = armed]
  OBVIOUS
<1>8. /\ q.status = "ending" /\ q.call = t.call /\ q.rows = t.rows /\ q.talked = t.talked /\ q.placed = t.placed
      /\ q.asking = t.asking /\ q.locking = t.locking /\ q.locked = t.locked /\ q.recent = t.recent
  BY <1>3 DEF Phones
<1> QED BY <1>1, <1>2, <1>3, <1>4, <1>6, <1>7, <1>8

LEMMA AtRestCoherent ==
    ASSUME NEW d, NEW q, q.call = NoCall, q.status \in AtRest
    PROVE  Coherent(d, q)
BY DEF Coherent, NoCall, AtRest, Outgoing, InCall

\* The current call of a controller that is in one.
LEMMA Current ==
    ASSUME Inv, NEW d \in Phone
    PROVE  /\ phone[d] \in Phones /\ phone[d].call \in Calls /\ Coherent(d, phone[d]) /\ Asks(d, phone[d])
           /\ phone[d].call.id # 0 => phone[d].call.id \in Ids /\ Party(d, phone[d].call.id)
           /\ (phone[d].status \notin AtRest \/ phone[d].call.stage # "none") => phone[d].call.id # 0
           /\ InCall(phone[d]) <=> phone[d].call.id # 0
           /\ phone[d].call.id = 0 <=> phone[d].status \in AtRest
BY DEF Inv, Phones, Calls, Coherent, InCall

LEMMA FinishBecomes ==
    ASSUME Inv, NEW d \in Phone, phone[d].call.id # 0, NEW row \in Rows,
           phone' = [phone EXCEPT ![d] = Finish(@, row)]
    PROVE  Becomes(d, Finish(phone[d], row))
<1>1. phone[d] \in Phones /\ phone[d].status \notin AtRest /\ phone' = [phone EXCEPT ![d] = Finish(phone[d], row)]
  BY Current DEF Inv
<1> PICK q : q = Finish(phone[d], row)
  OBVIOUS
<1>2. q \in Phones /\ q.call = NoCall /\ q.status = "ending" /\ q.asking = phone[d].asking
  BY <1>1, FinishIs
<1>3. Coherent(d, q)
  BY <1>2, AtRestCoherent DEF AtRest
<1>4. Turns(d, phone[d], q)
  BY <1>1, <1>2 DEF Turns
<1>5. Asks(d, q)
  BY <1>2, Current DEF Asks
<1> QED BY <1>1, <1>2, <1>3, <1>4, <1>5 DEF Becomes

-----------------------------------------------------------------------------
(* The channels.                                                           *)

Kinds == {"offer", "accept", "answer"} \cup Reasons

LEMMA PostIs ==
    ASSUME NEW ch \in Chans, NEW d \in Phone, NEW c \in Ids, Party(d, c), NEW t \in Kinds
    PROVE  /\ Post(ch, d, c, t) \in Chans /\ [t |-> t, id |-> c] \in Signals /\ Other(d, c) \in Phone
           /\ \A s, e \in Phone : Post(ch, d, c, t)[s][e] =
                 IF s = d /\ e = Other(d, c) THEN Append(ch[s][e], [t |-> t, id |-> c]) ELSE ch[s][e]
<1> PICK m : m = [t |-> t, id |-> c]
  OBVIOUS
<1> PICK o : o = Other(d, c)
  OBVIOUS
<1>1. m \in Signals /\ o \in Phone
  BY Plans DEF Signals, Kinds
<1>2. Post(ch, d, c, t) = [ch EXCEPT ![d][o] = Append(@, m)]
  BY DEF Post
<1>3. Append(ch[d][o], m) \in Seq(Signals)
  BY <1>1 DEF Chans
<1> QED BY <1>1, <1>2, <1>3 DEF Chans

LEMMA RestIs ==
    ASSUME chan \in Chans, NEW s \in Phone, NEW d \in Phone, chan[s][d] # <<>>
    PROVE  /\ Rest(s, d) \in Chans /\ Head(chan[s][d]) \in Signals /\ Head(chan[s][d]) = chan[s][d][1]
           /\ 1 \in DOMAIN chan[s][d]
           /\ \A x, e \in Phone : Rest(s, d)[x][e] = IF x = s /\ e = d THEN Tail(chan[x][e]) ELSE chan[x][e]
<1>1. chan[s][d] \in Seq(Signals)
  BY DEF Chans
<1>2. /\ Tail(chan[s][d]) \in Seq(Signals) /\ Head(chan[s][d]) \in Signals /\ Head(chan[s][d]) = chan[s][d][1]
      /\ 1 \in DOMAIN chan[s][d]
  BY <1>1
<1>3. Rest(s, d) = [chan EXCEPT ![s][d] = Tail(@)]
  BY DEF Rest
<1> QED BY <1>2, <1>3 DEF Chans

LEMMA PostRouted ==
    ASSUME NEW ch \in Chans, Routed(ch), NEW d \in Phone, NEW c \in Ids, Party(d, c), NEW t \in Kinds,
           t = "offer" => d = Caller(c)
    PROVE  Post(ch, d, c, t) \in Chans /\ Routed(Post(ch, d, c, t))
<1> PICK new : new = Post(ch, d, c, t)
  OBVIOUS
<1> PICK m : m = [t |-> t, id |-> c]
  OBVIOUS
<1>1. /\ new \in Chans /\ m \in Signals
      /\ \A s, e \in Phone : new[s][e] = IF s = d /\ e = Other(d, c) THEN Append(ch[s][e], m) ELSE ch[s][e]
  BY PostIs
<1>2. Route(d, Other(d, c), m)
  BY DEF Route
<1>3. ASSUME NEW s \in Phone, NEW e \in Phone, NEW i \in DOMAIN new[s][e] PROVE Route(s, e, new[s][e][i])
  <2>1. CASE new[s][e] = ch[s][e]
    BY <2>1 DEF Routed
  <2>2. CASE s = d /\ e = Other(d, c) /\ new[s][e] = Append(ch[s][e], m)
    <3>1. ch[s][e] \in Seq(Signals)
      BY DEF Chans
    <3>2. (i \in DOMAIN ch[s][e] /\ new[s][e][i] = ch[s][e][i]) \/ new[s][e][i] = m
      BY <1>1, <2>2, <3>1
    <3> QED BY <1>2, <2>2, <3>2 DEF Routed
  <2> QED BY <1>1, <2>1, <2>2
<1> QED BY <1>1, <1>3 DEF Routed

LEMMA RestRouted ==
    ASSUME chan \in Chans, Routed(chan), NEW s \in Phone, NEW d \in Phone, chan[s][d] # <<>>
    PROVE  /\ Rest(s, d) \in Chans /\ Routed(Rest(s, d))
           /\ Head(chan[s][d]) \in Signals /\ Route(s, d, Head(chan[s][d]))
<1> PICK new : new = Rest(s, d)
  OBVIOUS
<1>1. /\ new \in Chans /\ Head(chan[s][d]) \in Signals /\ Head(chan[s][d]) = chan[s][d][1] /\ 1 \in DOMAIN chan[s][d]
      /\ \A x, e \in Phone : new[x][e] = IF x = s /\ e = d THEN Tail(chan[x][e]) ELSE chan[x][e]
  BY RestIs
<1>2. ASSUME NEW x \in Phone, NEW e \in Phone, NEW i \in DOMAIN new[x][e] PROVE Route(x, e, new[x][e][i])
  <2>1. CASE new[x][e] = chan[x][e]
    BY <2>1 DEF Routed
  <2>2. CASE x = s /\ e = d /\ new[x][e] = Tail(chan[x][e])
    <3>1. chan[x][e] \in Seq(Signals) /\ chan[x][e] # <<>>
      BY <2>2 DEF Chans
    <3>2. i + 1 \in DOMAIN chan[x][e] /\ new[x][e][i] = chan[x][e][i + 1]
      BY <2>2, <3>1
    <3> QED BY <3>2 DEF Routed
  <2> QED BY <1>1, <2>1, <2>2
<1> QED BY <1>1, <1>2 DEF Routed

\* The message a phone takes, and its parties.
LEMMA Taken ==
    ASSUME Inv, NEW s \in Phone, NEW d \in Phone, Take(s, d)
    PROVE  /\ Rest(s, d) \in Chans /\ Routed(Rest(s, d))
           /\ Head(chan[s][d]) \in Signals /\ Head(chan[s][d]).id \in Ids /\ Head(chan[s][d]).id # 0
           /\ Route(s, d, Head(chan[s][d])) /\ Party(d, Head(chan[s][d]).id) /\ s # d
           /\ Head(chan[s][d]).t = "offer" => s = Caller(Head(chan[s][d]).id) /\ d # Caller(Head(chan[s][d]).id)
<1> PICK m : m = Head(chan[s][d])
  OBVIOUS
<1>1. Rest(s, d) \in Chans /\ Routed(Rest(s, d)) /\ m \in Signals /\ Route(s, d, m)
  BY RestRouted DEF Inv, Take
<1>2. m.id \in Ids /\ m.id # 0
  BY <1>1, Plans DEF Signals
<1>3. Party(s, m.id) /\ d = Other(s, m.id) /\ (m.t = "offer" => s = Caller(m.id))
  BY <1>1 DEF Route
<1>4. Party(d, m.id) /\ s # d
  BY <1>2, <1>3, Plans
<1> QED BY <1>1, <1>2, <1>3, <1>4

-----------------------------------------------------------------------------
(* The actions of one phone.                                               *)

\* The luck that is left.
LEMMA Spending ==
    ASSUME Inv, NEW kind, Spend(kind)
    PROVE  Luck' /\ luck'.faults = luck.faults /\ luck'.calls = luck.calls /\ kind \in luck.faults
<1> PICK s \in Scenes : luck = [s EXCEPT !.max = luck.max] /\ luck.max \in 0..s.max
  BY DEF Inv, Luck
<1> PICK n : n = luck.max
  OBVIOUS
<1>1. s \in [ calls : SUBSET DOMAIN Plan, max : Nat,
              faults : SUBSET {"media", "ack", "late", "ice", "lock", "crash"} ]
  BY CallConstants
<1>2. luck = [s EXCEPT !.max = n] /\ n \in 0..s.max /\ n > 0 /\ luck' = [luck EXCEPT !.max = n - 1]
  BY DEF Spend
<1> PICK less : less = n - 1
  OBVIOUS
<1>a. less \in 0..s.max
  BY <1>1, <1>2
<1>b. [[s EXCEPT !.max = n] EXCEPT !.max = less] = [s EXCEPT !.max = less]
  BY <1>1
<1>3. luck' = [s EXCEPT !.max = less]
  BY <1>2, <1>b
<1>4. luck'.max = less /\ luck'.faults = luck.faults /\ luck'.calls = luck.calls
  BY <1>1, <1>2, <1>3
<1>5. luck' = [s EXCEPT !.max = luck'.max] /\ luck'.max \in 0..s.max
  BY <1>3, <1>4, <1>a
<1> QED BY <1>4, <1>5 DEF Luck, Spend

\* What a step of the phone d leaves to show: its next state, the channels, the luck.
Steps(d) == (\E q : Becomes(d, q)) /\ chan' \in Chans /\ Routed(chan') /\ Luck'

LEMMA Unspent == ASSUME Inv, luck' = luck PROVE Luck'
BY DEF Inv, Luck

\* A step that changes neither the status nor the call.
LEMMA Idles ==
    ASSUME Inv, NEW d \in Phone, NEW q \in Phones, phone' = [phone EXCEPT ![d] = q],
           q.status = phone[d].status, q.call = phone[d].call, Asks(d, q)
    PROVE  Becomes(d, q)
BY Current DEF Becomes, Turns, Same, Coherent, Outgoing, InCall

LEMMA EndSteps ==
    ASSUME Inv, NEW d \in Phone, phone[d].call.id # 0, NEW row \in Rows, Luck',
           EndSilently(d, row) \/ \E reason \in Reasons : EndWith(d, reason, row)
    PROVE  Steps(d)
<1>1. phone' = [phone EXCEPT ![d] = Finish(@, row)]
  BY DEF EndSilently, EndWith
<1>2. Becomes(d, Finish(phone[d], row))
  BY <1>1, FinishBecomes
<1>3. chan' \in Chans /\ Routed(chan')
  <2>1. CASE EndSilently(d, row)
    BY <2>1 DEF EndSilently, Inv
  <2>2. ASSUME NEW reason \in Reasons, EndWith(d, reason, row) PROVE chan' \in Chans /\ Routed(chan')
    <3>1. phone[d].call.id \in Ids /\ Party(d, phone[d].call.id) /\ reason \in Kinds /\ reason # "offer"
      BY Current DEF Kinds, Reasons
    <3>2. chan' = Post(chan, d, phone[d].call.id, reason)
      BY <2>2 DEF EndWith
    <3> QED BY <3>1, <3>2, PostRouted DEF Inv
  <2> QED BY <2>1, <2>2
<1> QED BY <1>2, <1>3 DEF Steps

LEMMA AskSteps == ASSUME Inv, NEW d \in Phone, NEW c \in Ids, Ask(d, c) PROVE Steps(d)
<1> PICK q : q = [phone[d] EXCEPT !.asking = @ \cup {c}]
  OBVIOUS
<1>1. phone' = [phone EXCEPT ![d] = q] /\ UNCHANGED <<chan, luck>>
  BY DEF Ask, Inv
<1>2. /\ q \in Phones /\ q.status = phone[d].status /\ q.call = phone[d].call
      /\ q.asking = phone[d].asking \cup {c}
  BY Current DEF Phones
<1>3. Asks(d, q)
  BY <1>2, Current DEF Asks, Ask
<1> QED BY <1>1, <1>2, <1>3, Idles, Unspent DEF Steps, Inv

LEMMA PlaceSteps == ASSUME Inv, NEW d \in Phone, NEW c \in Ids, Place(d, c) PROVE Steps(d)
<1> PICK p : p = phone[d]
  OBVIOUS
<1> PICK asked : asked = [p EXCEPT !.asking = @ \ {c}, !.placed = @ \cup {c}]
  OBVIOUS
<1> PICK left : left = asked.timers \ {"linger"}
  OBVIOUS
<1> PICK fresh : fresh = [id |-> c, stage |-> "turn", answered |-> FALSE]
  OBVIOUS
<1>p. p \in Phones
  BY Current
<1>1. /\ asked \in Phones /\ asked.status = p.status /\ asked.call = p.call
      /\ asked.asking = p.asking \ {c}
  BY <1>p DEF Phones
<1>a. Asks(d, asked) /\ Caller(c) = d
  BY <1>1, Current DEF Asks, Place
<1>f. fresh \in Calls /\ "starting" \in Statuses /\ left \in SUBSET Timers
  BY <1>1 DEF Calls, Stages, Statuses, Phones
<1>q. [asked EXCEPT !.call = fresh, !.status = "starting", !.timers = left] \in Phones
  <2>1. asked \in Phones
    BY <1>1
  <2>2. fresh \in Calls
    BY <1>f
  <2>3. "starting" \in Statuses
    BY <1>f
  <2>4. left \in SUBSET Timers
    BY <1>f
  <2> QED BY <2>1, <2>2, <2>3, <2>4, Refitted, Zenon
<1> PICK q : q = [asked EXCEPT !.call = fresh, !.status = "starting", !.timers = left]
  OBVIOUS
<1>0. UNCHANGED <<chan, luck>> /\ phone' = [phone EXCEPT ![d] = IF Free(p) THEN q ELSE asked]
  BY Current DEF Place, Inv
<1>2. q \in Phones /\ q.status = "starting" /\ q.call = fresh /\ q.asking = asked.asking
  BY <1>1, <1>q DEF Phones
<1>3. CASE Free(p)
  <2>1. p.status \in AtRest
    BY <1>3, Current DEF Free
  <2>2. Turns(d, p, q)
    BY <1>2, <2>1 DEF Turns
  <2>3. c # 0
    BY Plans
  <2>4. Coherent(d, q)
    BY <1>2, <1>a, <2>3 DEF Coherent, AtRest, Begun, Outgoing, InCall, Party
  <2>5. Asks(d, q)
    BY <1>2, <1>a DEF Asks
  <2> QED BY <1>0, <1>2, <1>3, <2>2, <2>4, <2>5, Unspent DEF Steps, Becomes, Inv
<1>4. CASE ~Free(p)
  BY <1>0, <1>1, <1>a, <1>4, Idles, Unspent DEF Steps, Inv
<1> QED BY <1>3, <1>4

LEMMA CredentialsSteps == ASSUME Inv, NEW d \in Phone, Credentials(d) PROVE Steps(d)
<1> PICK p : p = phone[d]
  OBVIOUS
<1> PICK q : q = [p EXCEPT !.call.stage = "engine", !.mics = @ \cup {p.call.id}]
  OBVIOUS
<1>0. p \in Phones /\ p.call \in Calls /\ p.call.id # 0 /\ p.call.id \in Ids /\ p.call.stage = "turn" /\ Coherent(d, p)
  BY Current DEF Credentials
<1>1. phone' = [phone EXCEPT ![d] = q] /\ UNCHANGED <<chan, luck>>
  BY DEF Credentials, Inv
<1>2. [p.call EXCEPT !.stage = "engine"] \in Calls
  BY <1>0 DEF Calls, Stages
<1>3. /\ q \in Phones /\ q.call = [p.call EXCEPT !.stage = "engine"] /\ q.status = p.status
      /\ q.asking = p.asking
  BY <1>0, <1>2 DEF Phones
<1>a. Asks(d, q)
  BY <1>3, Current DEF Asks
<1>4. q.call.id = p.call.id /\ q.call.stage = "engine"
  BY <1>0, <1>3 DEF Calls
<1>5. Coherent(d, q)
  BY <1>0, <1>3, <1>4 DEF Coherent, Outgoing, InCall, Begun
<1>6. Turns(d, p, q)
  BY <1>3, <1>4 DEF Turns, Same
<1> QED BY <1>1, <1>3, <1>a, <1>5, <1>6, Unspent DEF Steps, Becomes, Inv

LEMMA SdpSteps == ASSUME Inv, NEW d \in Phone, SdpReady(d) PROVE Steps(d)
<1> PICK p : p = phone[d]
  OBVIOUS
<1> PICK q : q = [p EXCEPT !.call.stage = "sending"]
  OBVIOUS
<1> PICK t : t = IF Outgoing(d, p) THEN "offer" ELSE "answer"
  OBVIOUS
<1>0. /\ p \in Phones /\ p.call \in Calls /\ p.call.id # 0 /\ p.call.id \in Ids /\ p.call.stage = "engine"
      /\ Coherent(d, p) /\ Party(d, p.call.id)
  BY Current DEF SdpReady
<1>1. phone' = [phone EXCEPT ![d] = q] /\ chan' = Post(chan, d, p.call.id, t) /\ UNCHANGED luck
  BY DEF SdpReady, Inv
<1>2. [p.call EXCEPT !.stage = "sending"] \in Calls
  BY <1>0 DEF Calls, Stages
<1>3. /\ q \in Phones /\ q.call = [p.call EXCEPT !.stage = "sending"] /\ q.status = p.status
      /\ q.asking = p.asking
  BY <1>0, <1>2 DEF Phones
<1>a. Asks(d, q)
  BY <1>3, Current DEF Asks
<1>4. q.call.id = p.call.id /\ q.call.stage = "sending"
  BY <1>0, <1>3 DEF Calls
<1>5. Coherent(d, q)
  BY <1>0, <1>3, <1>4 DEF Coherent, Outgoing, InCall, Begun
<1>6. Turns(d, p, q)
  BY <1>3, <1>4 DEF Turns, Same
<1>7. t \in Kinds /\ (t = "offer" => d = Caller(p.call.id))
  BY DEF Kinds, Outgoing
<1>8. chan' \in Chans /\ Routed(chan')
  BY <1>0, <1>1, <1>7, PostRouted DEF Inv
<1> QED BY <1>1, <1>3, <1>a, <1>5, <1>6, <1>8, Unspent DEF Steps, Becomes, Inv

LEMMA MediaFailsSteps == ASSUME Inv, NEW d \in Phone, MediaFails(d) PROVE Steps(d)
<1>1. Luck' /\ phone[d].call.id # 0
  BY Spending, Current DEF MediaFails
<1>2. "none" \in Rows /\ "missed" \in Rows /\ "error" \in Reasons
  BY DEF Rows, Reasons
<1> QED BY <1>1, <1>2, EndSteps DEF MediaFails

LEMMA AckTimesOutSteps == ASSUME Inv, NEW d \in Phone, AckTimesOut(d) PROVE Steps(d)
<1>1. Luck' /\ phone[d].call.id # 0
  BY Spending, Current DEF AckTimesOut
<1>2. "none" \in Rows /\ "missed" \in Rows /\ "error" \in Reasons /\ "hangup" \in Reasons
  BY DEF Rows, Reasons
<1> QED BY <1>1, <1>2, EndSteps DEF AckTimesOut

LEMMA AckedSteps == ASSUME Inv, NEW d \in Phone, Acked(d) PROVE Steps(d)
<1> PICK p : p = phone[d]
  OBVIOUS
<1> PICK done : done = [p.call EXCEPT !.stage = "done"]
  OBVIOUS
<1>0. /\ p \in Phones /\ p.call \in Calls /\ p.call.id # 0 /\ p.call.id \in Ids /\ p.call.stage = "sending"
      /\ Coherent(d, p)
  BY Current DEF Acked
<1>1. done \in Calls /\ done.id = p.call.id /\ done.stage = "done"
  BY <1>0 DEF Calls, Stages
<1>2. CASE Outgoing(d, p)
  <2> PICK armed : armed = p.timers \cup {"ring"}
    OBVIOUS
  <2>2. armed \in SUBSET Timers /\ "outgoing-ringing" \in Statuses
    BY <1>0 DEF Phones, Timers, Statuses
  <2>a. [p EXCEPT !.call = done, !.status = "outgoing-ringing", !.timers = armed] \in Phones
    BY <1>0, <1>1, <2>2 DEF Phones
  <2> PICK q : q = [p EXCEPT !.call = done, !.status = "outgoing-ringing", !.timers = armed]
    OBVIOUS
  <2>0. phone' = [phone EXCEPT ![d] = [p EXCEPT !.call.stage = "done", !.status = "outgoing-ringing",
                                                 !.timers = @ \cup {"ring"}]]
    BY <1>2 DEF Acked
  <2>1. phone' = [phone EXCEPT ![d] = q] /\ UNCHANGED <<chan, luck>>
    BY <2>0 DEF Acked
  <2>3. q \in Phones /\ q.call = done /\ q.status = "outgoing-ringing" /\ q.asking = p.asking
    BY <1>0, <2>a DEF Phones
  <2>b. Asks(d, q)
    BY <2>3, Current DEF Asks
  <2>4. p.status = "starting"
    BY <1>0, <1>2 DEF Coherent, Begun
  <2>5. Coherent(d, q)
    BY <1>0, <1>1, <1>2, <2>3 DEF Coherent, Outgoing, InCall, Begun, AtRest
  <2>6. Turns(d, p, q)
    BY <2>3, <2>4 DEF Turns
  <2> QED BY <2>1, <2>3, <2>b, <2>5, <2>6, Unspent DEF Steps, Becomes, Inv
<1>3. CASE ~Outgoing(d, p)
  <2> PICK armed : armed = p.timers \cup {"connect"}
    OBVIOUS
  <2>2. armed \in SUBSET Timers
    BY <1>0 DEF Phones, Timers
  <2>a. [p EXCEPT !.call = done, !.timers = armed] \in Phones
    BY <1>0, <1>1, <2>2 DEF Phones
  <2> PICK q : q = [p EXCEPT !.call = done, !.timers = armed]
    OBVIOUS
  <2>0. phone' = [phone EXCEPT ![d] = [p EXCEPT !.call.stage = "done", !.timers = @ \cup {"connect"}]]
    BY <1>3 DEF Acked
  <2>1. phone' = [phone EXCEPT ![d] = q] /\ UNCHANGED <<chan, luck>>
    BY <2>0 DEF Acked
  <2>3. q \in Phones /\ q.call = done /\ q.status = p.status /\ q.asking = p.asking
    BY <1>0, <2>a DEF Phones
  <2>b. Asks(d, q)
    BY <2>3, Current DEF Asks
  <2>5. Coherent(d, q)
    BY <1>0, <1>1, <1>3, <2>3 DEF Coherent, Outgoing, InCall
  <2>6. Turns(d, p, q)
    BY <1>1, <2>3 DEF Turns, Same
  <2> QED BY <2>1, <2>3, <2>b, <2>5, <2>6, Unspent DEF Steps, Becomes, Inv
<1> QED BY <1>2, <1>3

-----------------------------------------------------------------------------
(* The user and the timers.                                                *)

LEMMA AcceptingIs ==
    ASSUME NEW p \in Phones
    PROVE  LET q == Accepting(p) IN
           /\ q \in Phones /\ q.status = "connecting" /\ q.call \in Calls /\ q.call.id = p.call.id
           /\ q.call.stage = "turn" /\ q.call.answered = p.call.answered
           /\ q.asking = p.asking /\ q.rows = p.rows /\ q.talked = p.talked
           /\ q.placed = p.placed /\ q.locking = p.locking /\ q.locked = p.locked /\ q.recent = p.recent
<1> PICK left : left = p.timers \ {"ring"}
  OBVIOUS
<1> PICK k : k = [p.call EXCEPT !.stage = "turn"]
  OBVIOUS
<1>1. k \in Calls /\ k.id = p.call.id /\ k.stage = "turn" /\ k.answered = p.call.answered
  BY DEF Phones, Calls, Stages
<1>2. left \in SUBSET Timers
  BY DEF Phones
<1>3. Accepting(p) = [p EXCEPT !.status = "connecting", !.ringing = FALSE, !.timers = left, !.call = k]
  BY DEF Accepting
<1>4. [p EXCEPT !.status = "connecting", !.ringing = FALSE, !.timers = left, !.call = k] \in Phones
  BY <1>1, <1>2 DEF Phones, Statuses
<1> PICK q : q = [p EXCEPT !.status = "connecting", !.ringing = FALSE, !.timers = left, !.call = k]
  OBVIOUS
<1>5. /\ q.status = "connecting" /\ q.call = k /\ q.asking = p.asking /\ q.rows = p.rows /\ q.recent = p.recent
      /\ q.talked = p.talked /\ q.placed = p.placed /\ q.locking = p.locking /\ q.locked = p.locked
  BY DEF Phones
<1> QED BY <1>1, <1>3, <1>4, <1>5

LEMMA AdoptIs ==
    ASSUME NEW p \in Phones, NEW c \in Ids
    PROVE  LET q == AdoptIncoming(p, c) IN
           /\ q \in Phones /\ q.status = "incoming-ringing" /\ q.call = [NoCall EXCEPT !.id = c]
           /\ q.call \in Calls /\ q.call.id = c /\ q.call.stage = "none" /\ ~q.call.answered
           /\ q.asking = p.asking /\ q.rows = p.rows /\ q.talked = p.talked
           /\ q.placed = p.placed /\ q.locking = p.locking /\ q.locked = p.locked /\ q.recent = p.recent
<1> PICK ti : ti = (p.timers \ {"linger"}) \cup {"ring"}
  OBVIOUS
<1> PICK k : k = [NoCall EXCEPT !.id = c]
  OBVIOUS
<1>1. k \in Calls /\ k.id = c /\ k.stage = "none" /\ ~k.answered
  BY DEF Calls, Stages, NoCall
<1>2. ti \in SUBSET Timers
  BY DEF Phones, Timers
<1>3. AdoptIncoming(p, c) = [p EXCEPT !.call = k, !.status = "incoming-ringing", !.timers = ti, !.ringing = TRUE]
  BY DEF AdoptIncoming
<1>4. [p EXCEPT !.call = k, !.status = "incoming-ringing", !.timers = ti, !.ringing = TRUE] \in Phones
  BY <1>1, <1>2 DEF Phones, Statuses
<1> PICK q : q = [p EXCEPT !.call = k, !.status = "incoming-ringing", !.timers = ti, !.ringing = TRUE]
  OBVIOUS
<1>5. /\ q.status = "incoming-ringing" /\ q.call = k /\ q.asking = p.asking /\ q.rows = p.rows
      /\ q.recent = p.recent /\ q.talked = p.talked /\ q.placed = p.placed /\ q.locking = p.locking /\ q.locked = p.locked
  BY DEF Phones
<1> QED BY <1>1, <1>3, <1>4, <1>5

LEMMA AnswerSteps == ASSUME Inv, NEW d \in Phone, Answer(d) PROVE Steps(d)
<1> PICK p : p = phone[d]
  OBVIOUS
<1> PICK q : q = Accepting(p)
  OBVIOUS
<1>1. /\ p \in Phones /\ p.call.id \in Ids /\ p.call.id # 0 /\ p.status = "incoming-ringing"
      /\ Coherent(d, p) /\ Asks(d, p) /\ Party(d, p.call.id)
  BY Current DEF Answer, AtRest
<1>2. phone' = [phone EXCEPT ![d] = q] /\ chan' = Post(chan, d, p.call.id, "accept") /\ luck' = luck
  BY DEF Answer
<1>3. q \in Phones /\ q.status = "connecting" /\ q.call.id = p.call.id /\ q.call.stage = "turn" /\ q.asking = p.asking
  BY <1>1, AcceptingIs
<1>4. ~Outgoing(d, p) /\ ~Outgoing(d, q)
  BY <1>1, <1>3 DEF Coherent, Outgoing, InCall
<1>5. Coherent(d, q) /\ Asks(d, q)
  BY <1>1, <1>3, <1>4 DEF Coherent, AtRest, Asks
<1>6. Turns(d, p, q)
  BY <1>1, <1>3 DEF Turns, Same
<1>7. chan' \in Chans /\ Routed(chan')
  BY <1>1, <1>2, PostRouted DEF Inv, Kinds
<1> QED BY <1>2, <1>3, <1>5, <1>6, <1>7, Unspent DEF Steps, Becomes

LEMMA RowsOfHangUp == ASSUME NEW d, NEW p PROVE HangUpRow(d, p) \in Rows /\ HangUpReason(p) \in Reasons
BY DEF HangUpRow, CompletedRow, HangUpReason, Rows, Reasons

LEMMA HangUpSteps == ASSUME Inv, NEW d \in Phone, HangUp(d) PROVE Steps(d)
<1>1. Luck' /\ phone[d].call.id # 0
  BY Unspent DEF HangUp, InCall
<1>2. /\ "none" \in Rows /\ HangUpRow(d, phone[d]) \in Rows /\ HangUpReason(phone[d]) \in Reasons
  BY RowsOfHangUp DEF Rows
<1> QED BY <1>1, <1>2, EndSteps DEF HangUp

\* A timer that finds its status gone only leaves the set.
LEMMA TimerIdles ==
    ASSUME Inv, NEW d \in Phone, NEW t, phone' = [phone EXCEPT ![d].timers = @ \ {t}],
           UNCHANGED <<chan, luck>>
    PROVE  Steps(d)
<1> PICK p : p = phone[d]
  OBVIOUS
<1> PICK left : left = p.timers \ {t}
  OBVIOUS
<1>1. p \in Phones /\ left \in SUBSET Timers
  BY Current DEF Phones
<1>2. [p EXCEPT !.timers = left] \in Phones
  BY <1>1 DEF Phones
<1> PICK q : q = [p EXCEPT !.timers = left]
  OBVIOUS
<1>3. q.status = p.status /\ q.call = p.call /\ q.asking = p.asking
  BY <1>1 DEF Phones
<1>4. Asks(d, q)
  BY <1>3, Current DEF Asks
<1>5. phone' = [phone EXCEPT ![d] = q]
  OBVIOUS
<1> QED BY <1>2, <1>3, <1>4, <1>5, Idles, Unspent DEF Steps, Inv

LEMMA TimeoutSteps ==
    ASSUME Inv, NEW d \in Phone, RingTimeout(d) \/ ConnectTimeout(d) \/ GraceTimeout(d)
    PROVE  Steps(d)
<1>1. Luck' /\ luck' = luck
  BY Unspent DEF RingTimeout, ConnectTimeout, GraceTimeout
<1>2. /\ {"missed", "missed-unread", CompletedRow(d, phone[d])} \subseteq Rows
      /\ {"timeout", "error"} \subseteq Reasons
  BY DEF Rows, Reasons, CompletedRow
<1>3. phone[d].status \notin AtRest => phone[d].call.id # 0
  BY Current
<1>4. CASE RingTimeout(d)
  <2>1. CASE phone[d].status = "outgoing-ringing"
    BY <1>1, <1>2, <1>3, <1>4, <2>1, EndSteps DEF RingTimeout, AtRest
  <2>2. CASE phone[d].status = "incoming-ringing"
    BY <1>1, <1>2, <1>3, <1>4, <2>2, EndSteps DEF RingTimeout, AtRest
  <2>3. CASE phone[d].status \notin {"outgoing-ringing", "incoming-ringing"}
    <3>1. phone' = [phone EXCEPT ![d].timers = @ \ {"ring"}] /\ UNCHANGED <<chan, luck>>
      BY <1>4, <2>3 DEF RingTimeout
    <3> QED BY <3>1, TimerIdles
  <2> QED BY <2>1, <2>2, <2>3
<1>5. CASE ConnectTimeout(d)
  <2>1. CASE phone[d].status = "connecting"
    BY <1>1, <1>2, <1>3, <1>5, <2>1, EndSteps DEF ConnectTimeout, AtRest
  <2>2. CASE phone[d].status # "connecting"
    <3>1. phone' = [phone EXCEPT ![d].timers = @ \ {"connect"}] /\ UNCHANGED <<chan, luck>>
      BY <1>5, <2>2 DEF ConnectTimeout
    <3> QED BY <3>1, TimerIdles
  <2> QED BY <2>1, <2>2
<1>6. CASE GraceTimeout(d)
  <2>1. CASE phone[d].status = "reconnecting"
    BY <1>1, <1>2, <1>3, <1>6, <2>1, EndSteps DEF GraceTimeout, AtRest
  <2>2. CASE phone[d].status # "reconnecting"
    <3>1. phone' = [phone EXCEPT ![d].timers = @ \ {"disconnect"}] /\ UNCHANGED <<chan, luck>>
      BY <1>6, <2>2 DEF GraceTimeout
    <3> QED BY <3>1, TimerIdles
  <2> QED BY <2>1, <2>2
<1> QED BY <1>4, <1>5, <1>6

LEMMA LingerSteps == ASSUME Inv, NEW d \in Phone, LingerTimeout(d) PROVE Steps(d)
<1> PICK p : p = phone[d]
  OBVIOUS
<1> PICK left : left = p.timers \ {"linger"}
  OBVIOUS
<1> PICK s : s = IF p.status = "ending" THEN "idle" ELSE p.status
  OBVIOUS
<1>1. p \in Phones /\ left \in SUBSET Timers /\ s \in Statuses
  BY Current DEF Phones, Statuses
<1>2. [p EXCEPT !.timers = left, !.status = s] \in Phones
  BY <1>1 DEF Phones
<1> PICK q : q = [p EXCEPT !.timers = left, !.status = s]
  OBVIOUS
<1>3. q.status = s /\ q.call = p.call /\ q.asking = p.asking
  BY <1>1 DEF Phones
<1>4. Asks(d, q)
  BY <1>3, Current DEF Asks
<1>5. phone' = [phone EXCEPT ![d] = q] /\ UNCHANGED <<chan, luck>>
  BY DEF LingerTimeout, Inv
<1>6. Coherent(d, q)
  BY <1>3, Current DEF Coherent, AtRest, Outgoing, InCall
<1>7. Turns(d, p, q)
  BY <1>3 DEF Turns, Same
<1> QED BY <1>2, <1>4, <1>5, <1>6, <1>7, Unspent DEF Steps, Becomes, Inv

-----------------------------------------------------------------------------
(* The frames.                                                             *)

LEMMA LateLuck == ASSUME Inv, NEW s \in Phone, NEW d \in Phone, Take(s, d) PROVE Luck'
BY Spending, Unspent DEF Take

\* The phone remembers an id, and may write a row for it.
LEMMA RememberedIs ==
    ASSUME NEW p \in Phones, NEW c \in Ids
    PROVE  LET q == [p EXCEPT !.recent = @ \cup {c}] IN
           /\ q \in Phones /\ q.status = p.status /\ q.call = p.call /\ q.asking = p.asking /\ q.rows = p.rows
           /\ q.talked = p.talked /\ q.placed = p.placed /\ q.locking = p.locking /\ q.locked = p.locked
           /\ q.recent = p.recent \cup {c}
BY DEF Phones

LEMMA WrittenIs ==
    ASSUME NEW p \in Phones, NEW c \in Ids, NEW row \in Rows
    PROVE  LET q == WriteRow(p, c, row) IN
           /\ q \in Phones /\ q.status = p.status /\ q.call = p.call /\ q.asking = p.asking
           /\ q.talked = p.talked /\ q.placed = p.placed /\ q.locking = p.locking /\ q.locked = p.locked
           /\ q.recent = p.recent
<1> PICK q : q = WriteRow(p, c, row)
  OBVIOUS
<1>1. q \in Phones /\ q = [p EXCEPT !.rows = q.rows]
  BY WriteRowIs
<1> QED BY <1>1 DEF Phones

\* A frame after which the status and the call are as they were.
LEMMA FrameIdles ==
    ASSUME Inv, NEW s \in Phone, NEW d \in Phone, Take(s, d), NEW q \in Phones,
           phone' = [phone EXCEPT ![d] = q], q.status = phone[d].status, q.call = phone[d].call,
           q.asking = phone[d].asking, chan' \in Chans, Routed(chan')
    PROVE  Steps(d)
<1>1. Asks(d, q)
  BY Current DEF Asks
<1> QED BY <1>1, Idles, LateLuck DEF Steps

LEMMA OfferSteps == ASSUME Inv, NEW s \in Phone, NEW d \in Phone, HandleOffer(s, d) PROVE Steps(d)
<1> PICK m : m = Head(chan[s][d])
  OBVIOUS
<1> PICK p : p = phone[d]
  OBVIOUS
<1> PICK mine : mine = p.call.id
  OBVIOUS
<1>rem. PICK rem : rem = [p EXCEPT !.recent = @ \cup {m.id}]
  OBVIOUS
<1>t. Take(s, d) /\ m.t = "offer"
  BY DEF HandleOffer
<1>1. /\ Rest(s, d) \in Chans /\ Routed(Rest(s, d)) /\ m.id \in Ids /\ m.id # 0 /\ Party(d, m.id)
      /\ s = Caller(m.id) /\ d # Caller(m.id)
  BY <1>t, Taken
<1>2. p \in Phones /\ Coherent(d, p) /\ Asks(d, p)
  BY Current
<1>3. /\ rem \in Phones /\ rem.status = p.status /\ rem.call = p.call /\ rem.asking = p.asking
  BY <1>rem, <1>1, <1>2, RememberedIs
<1> PICK noted : noted = WriteRow(rem, m.id, "missed-unread")
  OBVIOUS
<1>4. noted \in Phones /\ noted.status = p.status /\ noted.call = p.call /\ noted.asking = p.asking
  <2>1. rem \in Phones
    BY <1>3
  <2>2. m.id \in Ids
    BY <1>1
  <2>3. "missed-unread" \in Rows
    BY DEF Rows
  <2>4. /\ noted \in Phones /\ noted.status = rem.status /\ noted.call = rem.call
        /\ noted.asking = rem.asking
    BY <2>1, <2>2, <2>3, WrittenIs
  <2> QED BY <1>3, <2>4
<1>5. CASE UNCHANGED phone /\ chan' = Rest(s, d)
  <2>1. phone' = [phone EXCEPT ![d] = p]
    BY <1>5 DEF Inv
  <2> QED BY <1>t, <1>1, <1>2, <1>5, <2>1, FrameIdles
<1>6. CASE phone' = [phone EXCEPT ![d] = rem] /\ chan' = Rest(s, d)
  BY <1>t, <1>1, <1>3, <1>6, FrameIdles
<1>7. CASE phone' = [phone EXCEPT ![d] = noted] /\ chan' = Rest(s, d)
  BY <1>t, <1>1, <1>4, <1>7, FrameIdles
<1>8. CASE /\ phone' = [phone EXCEPT ![d] = IF Other(d, mine) = s THEN rem ELSE noted]
           /\ chan' = Post(Rest(s, d), d, m.id, "busy")
  <2>1. chan' \in Chans /\ Routed(chan')
    BY <1>1, <1>8, PostRouted DEF Kinds, Reasons
  <2> QED BY <1>t, <1>3, <1>4, <1>8, <2>1, FrameIdles
<1>9. CASE /\ GlareEligible(d, s) /\ chan' = Post(Rest(s, d), d, m.id, "accept")
           /\ phone' = [phone EXCEPT ![d] = Accepting(AdoptIncoming(
                [p EXCEPT !.timers = @ \cap {"linger"}, !.mics = @ \ {mine},
                          !.recent = @ \cup {mine}], m.id))]
  <2>1. Outgoing(d, p) /\ p.status \in {"outgoing-ringing", "starting"} /\ mine \in Ids
    BY <1>9, Current DEF GlareEligible, AtRest
  <2>gone. PICK gone : gone = [p EXCEPT !.timers = @ \cap {"linger"}, !.mics = @ \ {mine},
                                   !.recent = @ \cup {mine}]
    OBVIOUS
  <2>2. gone \in Phones /\ gone.asking = p.asking
    BY <2>gone, <1>2, <2>1, ZenonT(30) DEF Phones
  <2> PICK ringing : ringing = AdoptIncoming(gone, m.id)
    OBVIOUS
  <2>a. gone \in Phones
    BY <2>2
  <2>b. m.id \in Ids
    BY <1>1
  <2>c. ringing \in Phones /\ ringing.asking = gone.asking /\ ringing.call.id = m.id
    BY <2>a, <2>b, AdoptIs
  <2>3. ringing \in Phones /\ ringing.asking = p.asking /\ ringing.call.id = m.id
    BY <2>2, <2>c
  <2> PICK q : q = Accepting(ringing)
    OBVIOUS
  <2>4. /\ q \in Phones /\ q.asking = p.asking /\ q.call.id = m.id /\ q.status = "connecting"
        /\ q.call.stage = "turn"
    BY <2>3, AcceptingIs
  <2>5. phone' = [phone EXCEPT ![d] = q]
    BY <2>gone, <1>9
  <2>6. ~Outgoing(d, q)
    BY <1>1, <2>4 DEF Outgoing
  <2>7. Coherent(d, q) /\ Asks(d, q)
    BY <1>1, <1>2, <2>4, <2>6 DEF Coherent, AtRest, Asks
  <2>8. Turns(d, p, q)
    BY <2>1, <2>4, <2>6 DEF Turns
  <2>9. chan' \in Chans /\ Routed(chan')
    BY <1>1, <1>9, PostRouted DEF Kinds
  <2> QED BY <1>t, <2>4, <2>5, <2>7, <2>8, <2>9, LateLuck DEF Steps, Becomes
<1>10. CASE /\ ~InCall(p) /\ chan' = Rest(s, d)
            /\ phone' = [phone EXCEPT ![d] = AdoptIncoming(p, m.id)]
  <2> PICK q : q = AdoptIncoming(p, m.id)
    OBVIOUS
  <2>1. /\ q \in Phones /\ q.asking = p.asking /\ q.call.id = m.id /\ q.status = "incoming-ringing"
        /\ q.call.stage = "none"
    BY <1>1, <1>2, AdoptIs
  <2>2. ~Outgoing(d, q)
    BY <1>1, <2>1 DEF Outgoing
  <2>3. Coherent(d, q) /\ Asks(d, q)
    BY <1>1, <1>2, <2>1, <2>2 DEF Coherent, AtRest, Asks
  <2>4. Turns(d, p, q)
    BY <1>10, <2>1, Current DEF Turns
  <2> QED BY <1>t, <1>1, <1>10, <2>1, <2>3, <2>4, LateLuck DEF Steps, Becomes
<1> QED BY <1>rem, <1>5, <1>6, <1>7, <1>8, <1>9, <1>10 DEF HandleOffer

\* The caller hears that its call was taken: the shape of both frames that say so.
LEMMA ConnectSteps ==
    ASSUME Inv, NEW s \in Phone, NEW d \in Phone, Take(s, d), chan' = Rest(s, d), NEW k \in Calls,
           k.id = phone[d].call.id, k.stage = phone[d].call.stage, Outgoing(d, phone[d]),
           \/ phone[d].status = "outgoing-ringing"
           \/ phone[d].status = "connecting",
           phone' = [phone EXCEPT ![d] = [phone[d] EXCEPT !.status = "connecting", !.call = k,
                                             !.timers = (@ \ {"ring"}) \cup {"connect"}]]
    PROVE  Steps(d)
<1> PICK p : p = phone[d]
  OBVIOUS
<1> PICK armed : armed = (p.timers \ {"ring"}) \cup {"connect"}
  OBVIOUS
<1>1. p \in Phones /\ Coherent(d, p) /\ Asks(d, p) /\ armed \in SUBSET Timers
  BY Current DEF Phones, Timers
<1>2. [p EXCEPT !.status = "connecting", !.call = k, !.timers = armed] \in Phones
  BY <1>1 DEF Phones, Statuses
<1> PICK q : q = [p EXCEPT !.status = "connecting", !.call = k, !.timers = armed]
  OBVIOUS
<1>3. q.status = "connecting" /\ q.call = k /\ q.asking = p.asking
  BY <1>1 DEF Phones
<1>4. phone' = [phone EXCEPT ![d] = q]
  OBVIOUS
<1>5. Outgoing(d, q) /\ q.call.id # 0 /\ Party(d, q.call.id) /\ q.call.stage \notin Begun
  BY <1>1, <1>3 DEF Outgoing, InCall, Coherent
<1>6. Coherent(d, q) /\ Asks(d, q)
  BY <1>1, <1>3, <1>5 DEF Coherent, Asks, AtRest
<1>7. Turns(d, p, q)
  BY <1>3 DEF Turns, Same
<1> QED BY <1>2, <1>4, <1>6, <1>7, LateLuck, RestRouted DEF Steps, Becomes, Take, Inv

LEMMA AcceptedSteps == ASSUME Inv, NEW s \in Phone, NEW d \in Phone, HandleAccepted(s, d) PROVE Steps(d)
<1> PICK m : m = Head(chan[s][d])
  OBVIOUS
<1> PICK p : p = phone[d]
  OBVIOUS
<1>1. Take(s, d) /\ chan' = Rest(s, d) /\ p \in Phones /\ p.call \in Calls
  BY Current DEF HandleAccepted
<1>2. CASE m.id = p.call.id /\ Outgoing(d, p) /\ p.status = "outgoing-ringing"
  <2>1. phone' = [phone EXCEPT ![d] = [phone[d] EXCEPT !.status = "connecting", !.call = p.call,
                                             !.timers = (@ \ {"ring"}) \cup {"connect"}]]
    BY <1>1, <1>2 DEF HandleAccepted, Phones
  <2> QED BY <1>1, <1>2, <2>1, ConnectSteps
<1>3. CASE ~(m.id = p.call.id /\ Outgoing(d, p) /\ p.status = "outgoing-ringing")
  <2>1. phone' = [phone EXCEPT ![d] = p]
    BY <1>3 DEF HandleAccepted, Inv
  <2>2. Rest(s, d) \in Chans /\ Routed(Rest(s, d))
    BY <1>1, Taken
  <2> QED BY <1>1, <2>1, <2>2, FrameIdles
<1> QED BY <1>2, <1>3

LEMMA AnsweredSteps == ASSUME Inv, NEW s \in Phone, NEW d \in Phone, HandleAnswer(s, d) PROVE Steps(d)
<1> PICK m : m = Head(chan[s][d])
  OBVIOUS
<1> PICK p : p = phone[d]
  OBVIOUS
<1>1. Take(s, d) /\ chan' = Rest(s, d) /\ p \in Phones /\ p.call \in Calls
  BY Current DEF HandleAnswer
<1> DEFINE Meets == /\ m.id = p.call.id /\ Outgoing(d, p) /\ ~p.call.answered
                    /\ p.status \in {"outgoing-ringing", "connecting"}
<1>2. CASE Meets
  <2> PICK k : k = [p.call EXCEPT !.answered = TRUE]
    OBVIOUS
  <2>1. k \in Calls /\ k.id = p.call.id /\ k.stage = p.call.stage
    BY <1>1 DEF Calls
  <2>2. phone' = [phone EXCEPT ![d] = [phone[d] EXCEPT !.status = "connecting", !.call = k,
                                             !.timers = (@ \ {"ring"}) \cup {"connect"}]]
    <3>1. phone' = [phone EXCEPT ![d].status = "connecting", ![d].call.answered = TRUE,
                                 ![d].timers = (@ \ {"ring"}) \cup {"connect"}]
      BY <1>2 DEF HandleAnswer
    <3> QED BY <3>1, <1>1 DEF Inv, Phones
  <2> QED BY <1>1, <1>2, <2>1, <2>2, ConnectSteps
<1>3. CASE ~Meets
  <2>1. phone' = [phone EXCEPT ![d] = p]
    BY <1>3 DEF HandleAnswer, Inv
  <2>2. Rest(s, d) \in Chans /\ Routed(Rest(s, d))
    BY <1>1, Taken
  <2> QED BY <1>1, <2>1, <2>2, FrameIdles
<1> QED BY <1>2, <1>3

LEMMA RowsOfEnd == ASSUME NEW d, NEW p, NEW reason PROVE EndRow(d, p, reason) \in Rows
BY DEF EndRow, CompletedRow, Rows

LEMMA EndMarkSteps == ASSUME Inv, NEW s \in Phone, NEW d \in Phone, HandleEnd(s, d) PROVE Steps(d)
<1> PICK m : m = Head(chan[s][d])
  OBVIOUS
<1> PICK p : p = phone[d]
  OBVIOUS
<1>rem. PICK rem : rem = [p EXCEPT !.recent = @ \cup {m.id}]
  OBVIOUS
<1>1. /\ Take(s, d) /\ chan' = Rest(s, d) /\ p \in Phones /\ Rest(s, d) \in Chans /\ Routed(Rest(s, d))
      /\ m.id \in Ids /\ m.id # 0
  BY Taken, Current DEF HandleEnd
<1>2. CASE m.id = p.call.id /\ phone' = [phone EXCEPT ![d] = Finish(p, EndRow(d, p, m.t))]
  <2>1. Becomes(d, Finish(p, EndRow(d, p, m.t)))
    BY <1>1, <1>2, RowsOfEnd, FinishBecomes
  <2> QED BY <1>1, <2>1, LateLuck DEF Steps
<1>3. CASE UNCHANGED phone
  <2>1. phone' = [phone EXCEPT ![d] = p]
    BY <1>3 DEF Inv
  <2> QED BY <1>1, <2>1, FrameIdles
<1>4. rem \in Phones /\ rem.status = p.status /\ rem.call = p.call /\ rem.asking = p.asking
  BY <1>rem, <1>1, RememberedIs
<1> PICK noted : noted = WriteRow(rem, m.id, "missed-unread")
  OBVIOUS
<1>5. noted \in Phones /\ noted.status = p.status /\ noted.call = p.call /\ noted.asking = p.asking
  <2>1. rem \in Phones
    BY <1>4
  <2>2. m.id \in Ids
    BY <1>1
  <2>3. "missed-unread" \in Rows
    BY DEF Rows
  <2>4. /\ noted \in Phones /\ noted.status = rem.status /\ noted.call = rem.call
        /\ noted.asking = rem.asking
    BY <2>1, <2>2, <2>3, WrittenIs
  <2> QED BY <1>4, <2>4
<1>6. CASE phone' = [phone EXCEPT ![d] = rem]
  BY <1>1, <1>4, <1>6, FrameIdles
<1>7. CASE phone' = [phone EXCEPT ![d] = noted]
  BY <1>1, <1>5, <1>7, FrameIdles
<1> QED BY <1>rem, <1>2, <1>3, <1>6, <1>7 DEF HandleEnd

-----------------------------------------------------------------------------
(* Media, the lock and the crash.                                          *)

LEMMA IceConnectedSteps == ASSUME Inv, NEW d \in Phone, IceConnected(d) PROVE Steps(d)
<1> PICK p : p = phone[d]
  OBVIOUS
<1> PICK left : left = p.timers \ (IF p.status = "connecting" THEN {"connect"} ELSE {"disconnect"})
  OBVIOUS
<1> PICK said : said = p.talked \cup {p.call.id}
  OBVIOUS
<1>1. p \in Phones /\ p.call.id \in Ids /\ Coherent(d, p) /\ Asks(d, p) /\ p.call.id # 0
  BY Current DEF IceConnected, InCall
<1>2. left \in SUBSET Timers /\ said \in SUBSET Ids
  BY <1>1 DEF Phones
<1>3. [p EXCEPT !.status = "active", !.talked = said, !.timers = left] \in Phones
  BY <1>1, <1>2, ZenonT(30) DEF Phones, Statuses
<1> PICK q : q = [p EXCEPT !.status = "active", !.talked = said, !.timers = left]
  OBVIOUS
<1>4. q.status = "active" /\ q.call = p.call /\ q.asking = p.asking
  BY <1>1 DEF Phones
<1>5. phone' = [phone EXCEPT ![d] = q] /\ UNCHANGED <<chan, luck>>
  BY DEF IceConnected, Inv
<1>6. p.status \in {"connecting", "reconnecting"}
  BY DEF IceConnected
<1>7. Coherent(d, q) /\ Asks(d, q)
  BY <1>1, <1>4, <1>6 DEF Coherent, Asks, Outgoing, InCall, AtRest
<1>8. Turns(d, p, q)
  BY <1>4, <1>6 DEF Turns, Same
<1> QED BY <1>3, <1>5, <1>7, <1>8, Unspent DEF Steps, Becomes, Inv

LEMMA IceDisconnectedSteps == ASSUME Inv, NEW d \in Phone, IceDisconnected(d) PROVE Steps(d)
<1> PICK p : p = phone[d]
  OBVIOUS
<1> PICK armed : armed = p.timers \cup {"disconnect"}
  OBVIOUS
<1>1. p \in Phones /\ Coherent(d, p) /\ Asks(d, p) /\ p.status = "active"
  BY Current DEF IceDisconnected
<1>2. armed \in SUBSET Timers
  BY <1>1 DEF Phones, Timers
<1>3. [p EXCEPT !.status = "reconnecting", !.timers = armed] \in Phones
  BY <1>1, <1>2 DEF Phones, Statuses
<1> PICK q : q = [p EXCEPT !.status = "reconnecting", !.timers = armed]
  OBVIOUS
<1>4. q.status = "reconnecting" /\ q.call = p.call /\ q.asking = p.asking
  BY <1>1 DEF Phones
<1>5. phone' = [phone EXCEPT ![d] = q] /\ UNCHANGED chan
  BY DEF IceDisconnected, Inv
<1>6. Coherent(d, q) /\ Asks(d, q)
  BY <1>1, <1>4 DEF Coherent, Asks, Outgoing, InCall, AtRest
<1>7. Turns(d, p, q)
  BY <1>1, <1>4 DEF Turns, Same
<1>8. Luck'
  BY Spending, Unspent DEF IceDisconnected, PathLost
<1> QED BY <1>3, <1>5, <1>6, <1>7, <1>8 DEF Steps, Becomes, Inv

LEMMA IceFailedSteps == ASSUME Inv, NEW d \in Phone, IceFailed(d) PROVE Steps(d)
<1>1. Luck' /\ phone[d].call.id # 0
  BY Spending, Current DEF IceFailed, AtRest
<1>2. {"missed", CompletedRow(d, phone[d])} \subseteq Rows /\ "error" \in Reasons
  BY DEF Rows, Reasons, CompletedRow
<1> QED BY <1>1, <1>2, EndSteps DEF IceFailed

\* The lock tears down the call it began with and leaves the phone idle.
LEMMA VanishSteps ==
    ASSUME Inv, NEW d \in Phone, NEW q \in Phones, phone' = [phone EXCEPT ![d] = q],
           q.status = "idle", q.call = NoCall, Asks(d, q), chan' \in Chans, Routed(chan'), Luck'
    PROVE  Steps(d)
BY AtRestCoherent DEF Steps, Becomes, Turns, AtRest

LEMMA LockBeginSteps == ASSUME Inv, NEW d \in Phone, LockBegin(d) PROVE Steps(d)
<1> PICK p : p = phone[d]
  OBVIOUS
<1>1. p \in Phones /\ Asks(d, p) /\ Luck'
  BY Current, Spending DEF LockBegin
<1>2. CASE phone' = [phone EXCEPT ![d].locked = TRUE] /\ UNCHANGED chan
  <2>1. [p EXCEPT !.locked = TRUE] \in Phones
    BY <1>1 DEF Phones
  <2> PICK q : q = [p EXCEPT !.locked = TRUE]
    OBVIOUS
  <2>2. q.status = p.status /\ q.call = p.call /\ q.asking = p.asking
    BY <1>1 DEF Phones
  <2>3. phone' = [phone EXCEPT ![d] = q]
    BY <1>2
  <2>4. Asks(d, q)
    BY <1>1, <2>2 DEF Asks
  <2> QED BY <1>1, <1>2, <2>1, <2>2, <2>3, <2>4, Idles DEF Steps, Inv
<1>3. CASE /\ InCall(p) /\ UNCHANGED chan
           /\ phone' = [phone EXCEPT ![d] = [Teardown(p, p.call.id) EXCEPT !.status = "idle", !.locked = TRUE]]
  <2>t. PICK t : t = Teardown(p, p.call.id)
    OBVIOUS
  <2>1. t \in Phones /\ t.call = NoCall /\ t.asking = p.asking
    BY <1>1, <1>3, <2>t, TeardownIs, Current DEF InCall
  <2>2. [t EXCEPT !.status = "idle", !.locked = TRUE] \in Phones
    BY <2>1 DEF Phones, Statuses
  <2> PICK q : q = [t EXCEPT !.status = "idle", !.locked = TRUE]
    OBVIOUS
  <2>3. q.status = "idle" /\ q.call = NoCall /\ q.asking = p.asking
    BY <2>1 DEF Phones
  <2>4. phone' = [phone EXCEPT ![d] = q]
    BY <1>3, <2>t
  <2>5. Asks(d, q)
    BY <1>1, <2>3 DEF Asks
  <2> QED BY <1>1, <1>3, <2>2, <2>3, <2>4, <2>5, VanishSteps DEF Inv
<1>4. CASE /\ InCall(p) /\ chan' = Post(chan, d, p.call.id, HangUpReason(p))
           /\ phone' = [phone EXCEPT ![d].locking = [id |-> p.call.id, row |-> HangUpRow(d, p)]]
  <2> PICK k : k = [id |-> p.call.id, row |-> HangUpRow(d, p)]
    OBVIOUS
  <2>0. p.call.id \in Ids /\ Party(d, p.call.id)
    BY <1>4, Current DEF InCall
  <2>1. k \in Locking
    BY <2>0, RowsOfHangUp DEF Locking
  <2>2. [p EXCEPT !.locking = k] \in Phones
    BY <1>1, <2>1 DEF Phones
  <2> PICK q : q = [p EXCEPT !.locking = k]
    OBVIOUS
  <2>3. q.status = p.status /\ q.call = p.call /\ q.asking = p.asking
    BY <1>1 DEF Phones
  <2>4. phone' = [phone EXCEPT ![d] = q]
    BY <1>4
  <2>5. Asks(d, q)
    BY <1>1, <2>3 DEF Asks
  <2>6. HangUpReason(p) \in Kinds /\ HangUpReason(p) # "offer"
    BY DEF Kinds, HangUpReason, Reasons
  <2>7. chan' \in Chans /\ Routed(chan')
    BY <1>4, <2>0, <2>6, PostRouted DEF Inv
  <2> QED BY <1>1, <2>2, <2>3, <2>4, <2>5, <2>7, Idles DEF Steps
<1> QED BY <1>2, <1>3, <1>4 DEF LockBegin

LEMMA LockEndSteps == ASSUME Inv, NEW d \in Phone, LockEnd(d) PROVE Steps(d)
<1> PICK p : p = phone[d]
  OBVIOUS
<1> PICK c : c = p.locking.id
  OBVIOUS
<1>1. p \in Phones /\ Asks(d, p) /\ c \in Ids /\ p.locking.row \in Rows
  BY Current DEF LockEnd, Phones, Locking
<1>w. PICK w : w = WriteRow(p, c, p.locking.row)
  OBVIOUS
<1>2. w \in Phones /\ w.asking = p.asking
  BY <1>1, <1>w, WrittenIs
<1>t. PICK t : t = Teardown(w, c)
  OBVIOUS
<1>3. t \in Phones /\ t.call = NoCall /\ t.asking = w.asking
  BY <1>1, <1>2, <1>t, TeardownIs
<1>4. [t EXCEPT !.status = "idle", !.locking = NotLocking, !.locked = TRUE] \in Phones
  BY <1>3 DEF Phones, Statuses, NotLocking, Locking, Rows
<1>q. PICK q : q = [t EXCEPT !.status = "idle", !.locking = NotLocking, !.locked = TRUE]
  OBVIOUS
<1>5. q.status = "idle" /\ q.call = NoCall /\ q.asking = p.asking /\ q \in Phones
  BY <1>q, <1>2, <1>3, <1>4 DEF Phones
<1>6. phone' = [phone EXCEPT ![d] = q] /\ UNCHANGED <<chan, luck>>
  BY <1>w, <1>t, <1>q DEF LockEnd
<1>7. Asks(d, q)
  BY <1>1, <1>5 DEF Asks
<1> QED BY <1>5, <1>6, <1>7, VanishSteps, Unspent DEF Inv

LEMMA UnlockSteps == ASSUME Inv, NEW d \in Phone, Unlock(d) PROVE Steps(d)
<1> PICK p : p = phone[d]
  OBVIOUS
<1>1. p \in Phones /\ Asks(d, p)
  BY Current
<1>2. [p EXCEPT !.locked = FALSE] \in Phones
  BY <1>1 DEF Phones
<1> PICK q : q = [p EXCEPT !.locked = FALSE]
  OBVIOUS
<1>3. q.status = p.status /\ q.call = p.call /\ q.asking = p.asking
  BY <1>1 DEF Phones
<1>4. phone' = [phone EXCEPT ![d] = q] /\ UNCHANGED <<chan, luck>>
  BY DEF Unlock
<1>5. Asks(d, q)
  BY <1>1, <1>3 DEF Asks
<1> QED BY <1>2, <1>3, <1>4, <1>5, Idles, Unspent DEF Steps, Inv

LEMMA FreshIs == Fresh \in Phones
<1>1. [c \in Ids |-> "none"] \in [Ids -> Rows] /\ NoCall \in Calls /\ NotLocking \in Locking /\ "idle" \in Statuses
  BY DEF Rows, Calls, NoCall, Stages, NotLocking, Locking, Statuses
<1> QED BY <1>1 DEF Fresh, Phones

LEMMA CrashSteps == ASSUME Inv, NEW d \in Phone, Crash(d) PROVE Steps(d)
<1> PICK p : p = phone[d]
  OBVIOUS
<1> PICK were : were = p.placed \cup p.asking
  OBVIOUS
<1> PICK rs : rs = p.rows
  OBVIOUS
<1>1. rs \in [Ids -> Rows] /\ were \in SUBSET Ids /\ Luck'
  BY Current, Spending DEF Phones, Crash
<1>2. /\ Fresh.status = "idle" /\ Fresh.call = NoCall /\ Fresh.asking = {} /\ Fresh \in Phones
  BY FreshIs DEF Fresh
<1>f. PICK f : f = Fresh
  OBVIOUS
<1>3. f.status = "idle" /\ f.call = NoCall /\ f.asking = {} /\ f \in Phones
  BY <1>2, <1>f
<1>4. [f EXCEPT !.rows = rs, !.placed = were, !.locked = TRUE] \in Phones
  BY <1>1, <1>3 DEF Phones
<1>q. PICK q : q = [f EXCEPT !.rows = rs, !.placed = were, !.locked = TRUE]
  OBVIOUS
<1>5. q.status = "idle" /\ q.call = NoCall /\ q.asking = {} /\ q \in Phones
  BY <1>q, <1>3, <1>4 DEF Phones
<1>6. phone' = [phone EXCEPT ![d] = q]
  BY <1>f, <1>q DEF Crash
<1>7. Asks(d, q)
  BY <1>5 DEF Asks
<1> PICK s \in Phone \ {d} : \E n \in 0..Len(chan[d][s]) : chan' = [chan EXCEPT ![d][s] = SubSeq(@, 1, n)]
  BY DEF Crash
<1>8. PICK n \in 0..Len(chan[d][s]) : chan' = [chan EXCEPT ![d][s] = SubSeq(@, 1, n)]
  OBVIOUS
<1>9. chan \in Chans /\ Routed(chan)
  BY DEF Inv
<1>10. SubSeq(chan[d][s], 1, n) \in Seq(Signals)
       /\ \A i \in DOMAIN SubSeq(chan[d][s], 1, n) :
             i \in DOMAIN chan[d][s] /\ SubSeq(chan[d][s], 1, n)[i] = chan[d][s][i]
  <2>1. chan[d][s] \in Seq(Signals)
    BY <1>9 DEF Chans
  <2> QED BY <2>1
<1>11. chan' \in Chans
       /\ \A x, e \in Phone : chan'[x][e] = IF x = d /\ e = s THEN SubSeq(chan[d][s], 1, n) ELSE chan[x][e]
  BY <1>8, <1>9, <1>10 DEF Chans
<1>12. Routed(chan')
  <2>1. ASSUME NEW x \in Phone, NEW e \in Phone, NEW i \in DOMAIN chan'[x][e] PROVE Route(x, e, chan'[x][e][i])
    <3>1. i \in DOMAIN chan[x][e] /\ chan'[x][e][i] = chan[x][e][i]
      BY <1>10, <1>11
    <3> QED BY <1>9, <3>1 DEF Routed
  <2> QED BY <2>1 DEF Routed
<1> QED BY <1>1, <1>5, <1>6, <1>7, <1>11, <1>12, VanishSteps

-----------------------------------------------------------------------------
(* Every step is a step of one phone.                                      *)

LEMMA StepIs == ASSUME Inv, Next PROVE \E d \in Phone : Steps(d)
<1>1. CASE \E d \in Phone : \E c \in Ids : Ask(d, c) \/ Place(d, c)
  BY <1>1, AskSteps, PlaceSteps
<1>2. CASE \E d \in Phone :
         \/ Credentials(d) \/ SdpReady(d) \/ MediaFails(d) \/ Acked(d) \/ AckTimesOut(d)
         \/ Answer(d) \/ HangUp(d)
         \/ RingTimeout(d) \/ ConnectTimeout(d) \/ GraceTimeout(d) \/ LingerTimeout(d)
         \/ IceConnected(d) \/ IceDisconnected(d) \/ IceFailed(d)
         \/ LockBegin(d) \/ LockEnd(d) \/ Unlock(d) \/ Crash(d)
  BY <1>2, CredentialsSteps, SdpSteps, MediaFailsSteps, AckedSteps, AckTimesOutSteps, AnswerSteps,
     HangUpSteps, TimeoutSteps, LingerSteps, IceConnectedSteps, IceDisconnectedSteps, IceFailedSteps,
     LockBeginSteps, LockEndSteps, UnlockSteps, CrashSteps
<1>3. CASE \E s, d \in Phone : Deliver(s, d)
  BY <1>3, OfferSteps, AcceptedSteps, AnsweredSteps, EndMarkSteps DEF Deliver
<1> QED BY <1>1, <1>2, <1>3 DEF Next

LEMMA StepKeeps == ASSUME Inv, NEW d \in Phone, Steps(d) PROVE Inv'
<1> PICK q : Becomes(d, q)
  BY DEF Steps
<1>1. phone' = [phone EXCEPT ![d] = q] /\ q \in Phones /\ Coherent(d, q) /\ Asks(d, q)
  BY DEF Becomes
<1>2. phone' \in [Phone -> Phones]
  BY <1>1 DEF Inv
<1>3. \A e \in Phone : phone'[e] = IF e = d THEN q ELSE phone[e]
  BY <1>1 DEF Inv
<1>4. \A e \in Phone : Coherent(e, phone'[e]) /\ Asks(e, phone'[e])
  BY <1>1, <1>3 DEF Inv
<1> QED BY <1>2, <1>4 DEF Inv, Steps

LEMMA StepShows ==
    ASSUME Inv, Next, NEW e \in Phone
    PROVE  [Lifecycle(e)!Next]_(Lifecycle(e)!shown)
<1> PICK d \in Phone : Steps(d)
  BY StepIs
<1> PICK q : Becomes(d, q)
  BY DEF Steps
<1>1. CASE e = d
  BY <1>1, TurnsAreSteps
<1>2. CASE e # d
  <2>1. phone'[e] = phone[e]
    BY <1>2 DEF Becomes, Inv
  <2>2. Direction(e)' = Direction(e)
    BY <2>1 DEF Direction, Outgoing, InCall
  <2> QED BY <2>1, <2>2 DEF Lifecycle!shown
<1> QED BY <1>1, <1>2

LEMMA Starts == ASSUME Init PROVE Inv
<1>1. phone \in [Phone -> Phones] /\ \A d \in Phone : phone[d] = Fresh
  BY FreshIs DEF Init
<1>2. ASSUME NEW d \in Phone PROVE Coherent(d, phone[d]) /\ Asks(d, phone[d])
  <2>1. phone[d] = Fresh
    BY <1>1
  <2>2. Fresh.call = NoCall /\ Fresh.status \in AtRest /\ Fresh.asking = {}
    BY DEF Fresh, AtRest
  <2>3. Coherent(d, Fresh)
    BY <2>2, AtRestCoherent
  <2> QED BY <2>1, <2>2, <2>3 DEF Asks
<1>3. chan \in Chans /\ Routed(chan)
  <2>1. \A s, d \in Phone : chan[s][d] = <<>>
    BY DEF Init
  <2>2. <<>> \in Seq(Signals) /\ DOMAIN <<>> = {}
    OBVIOUS
  <2> QED BY <2>1, <2>2 DEF Init, Chans, Routed
<1>4. Luck
  <2>1. luck \in Scenes /\ luck.max \in 0..luck.max /\ luck = [luck EXCEPT !.max = luck.max]
    BY CallConstants DEF Init
  <2> QED BY <2>1 DEF Luck
<1> QED BY <1>1, <1>2, <1>3, <1>4 DEF Inv

LEMMA Inductive == Spec => []Inv
<1>1. Init => Inv
  BY Starts
<1>2. Inv /\ [Next]_vars => Inv'
  <2> SUFFICES ASSUME Inv, [Next]_vars PROVE Inv'
    OBVIOUS
  <2>1. CASE Next
    BY <2>1, StepIs, StepKeeps
  <2>2. CASE UNCHANGED vars
    BY <2>2 DEF vars, Inv, Luck
  <2> QED BY <2>1, <2>2
<1> QED BY <1>1, <1>2, PTL DEF Spec

\* Every controller, frame and stock of trouble has its type, for any number of phones and
\* of calls between them.
THEOREM TypeCorrect == Spec => []TypeOK
<1>1. Inv => TypeOK
  BY DEF Inv, TypeOK, Luck, Chans
<1> QED BY <1>1, Inductive, PTL

\* On every phone the controller of calls/controller.ts implements the life cycle its mirrors
\* rely on: nothing is active that was not connecting, an outgoing call turns into an
\* incoming one only where two calls cross, and no late frame, timer, acknowledgement or
\* media event revives a call that ended.
THEOREM LifecycleHolds == ASSUME NEW d \in Phone PROVE Spec => Lifecycle(d)!Spec
<1>1. Init => Lifecycle(d)!Init
  BY DEF Init, Lifecycle!Init, Fresh, Direction
<1>2. Inv /\ [Next]_vars => [Lifecycle(d)!Next]_(Lifecycle(d)!shown)
  <2> SUFFICES ASSUME Inv, [Next]_vars PROVE [Lifecycle(d)!Next]_(Lifecycle(d)!shown)
    OBVIOUS
  <2>1. CASE Next
    BY <2>1, StepShows
  <2>2. CASE UNCHANGED vars
    BY <2>2 DEF vars, Lifecycle!shown, Direction, Outgoing, InCall
  <2> QED BY <2>1, <2>2
<1> QED BY <1>1, <1>2, Inductive, PTL DEF Spec, Lifecycle!Spec

\* The two phones of the runs in particular.
THEOREM Implements == ASSUME {"a", "b"} \subseteq Phone PROVE Spec => ImplementsLifecycle
<1>1. Spec => CallOfA!Spec
  <2>1. Spec => Lifecycle("a")!Spec
    BY LifecycleHolds
  <2>2. Lifecycle("a")!Init => CallOfA!Init
    BY DEF CallOfA!Init, Lifecycle!Init
  <2>3. [Lifecycle("a")!Next]_(Lifecycle("a")!shown) => [CallOfA!Next]_(CallOfA!shown)
    BY DEF CallOfA!Next, Lifecycle!Next, CallOfA!Place, Lifecycle!Place, CallOfA!Ring, Lifecycle!Ring, CallOfA!RingAnswered,
           Lifecycle!RingAnswered, CallOfA!Offered, Lifecycle!Offered, CallOfA!Accepted,
           Lifecycle!Accepted, CallOfA!Accept, Lifecycle!Accept, CallOfA!Crossed,
           Lifecycle!Crossed, CallOfA!MediaUp, Lifecycle!MediaUp, CallOfA!MediaLost,
           Lifecycle!MediaLost, CallOfA!End, Lifecycle!End, CallOfA!Rest, Lifecycle!Rest,
           CallOfA!Vanish, Lifecycle!Vanish, CallOfA!Shows, Lifecycle!Shows, CallOfA!AtRest,
           Lifecycle!AtRest, CallOfA!Talking, Lifecycle!Talking, CallOfA!shown, Lifecycle!shown
  <2> QED BY <2>1, <2>2, <2>3, PTL DEF CallOfA!Spec, Lifecycle!Spec
<1>2. Spec => CallOfB!Spec
  <2>1. Spec => Lifecycle("b")!Spec
    BY LifecycleHolds
  <2>2. Lifecycle("b")!Init => CallOfB!Init
    BY DEF CallOfB!Init, Lifecycle!Init
  <2>3. [Lifecycle("b")!Next]_(Lifecycle("b")!shown) => [CallOfB!Next]_(CallOfB!shown)
    BY DEF CallOfB!Next, Lifecycle!Next, CallOfB!Place, Lifecycle!Place, CallOfB!Ring, Lifecycle!Ring, CallOfB!RingAnswered,
           Lifecycle!RingAnswered, CallOfB!Offered, Lifecycle!Offered, CallOfB!Accepted,
           Lifecycle!Accepted, CallOfB!Accept, Lifecycle!Accept, CallOfB!Crossed,
           Lifecycle!Crossed, CallOfB!MediaUp, Lifecycle!MediaUp, CallOfB!MediaLost,
           Lifecycle!MediaLost, CallOfB!End, Lifecycle!End, CallOfB!Rest, Lifecycle!Rest,
           CallOfB!Vanish, Lifecycle!Vanish, CallOfB!Shows, Lifecycle!Shows, CallOfB!AtRest,
           Lifecycle!AtRest, CallOfB!Talking, Lifecycle!Talking, CallOfB!shown, Lifecycle!shown
  <2> QED BY <2>1, <2>2, <2>3, PTL DEF CallOfB!Spec, Lifecycle!Spec
<1> QED BY <1>1, <1>2 DEF ImplementsLifecycle

-----------------------------------------------------------------------------
(* What the two parties of a call owe to each other, call by call.         *)

Line(ch, x, c) == ch[x][Other(x, c)]
Holds(ch, x, c, t) == \E i \in DOMAIN Line(ch, x, c) : Line(ch, x, c)[i] = [t |-> t, id |-> c]
Quiet(ch, x, c) == \A t \in Kinds : ~Holds(ch, x, c, t)
Ends(ch, x, c) == \E t \in Reasons : Holds(ch, x, c, t)

\* Nothing of a call travels ahead of its offer, and there is one offer.
OfferFirst(ch, c) ==
    \A i, j \in DOMAIN Line(ch, Caller(c), c) :
        (Line(ch, Caller(c), c)[i] = [t |-> "offer", id |-> c] /\ j < i) => Line(ch, Caller(c), c)[j].id # c

In(x, c) == phone[x].call.id = c

\* How far a call has come: its caller has sent no frame; its callee has taken none; its callee
\* is in it and has not answered.
Unsent(c) ==
    \/ c \notin phone[Caller(c)].placed
    \/ In(Caller(c), c) /\ phone[Caller(c)].call.stage \in {"turn", "engine"}
Unheard(c) == Unsent(c) \/ Holds(chan, Caller(c), c, "offer")
Unanswered(c) == In(Callee(c), c) /\ phone[Callee(c)].call.stage \notin {"sending", "done"}
Rings(c) == In(Callee(c), c) /\ phone[Callee(c)].status = "incoming-ringing"

\* A phone enters a call once: its caller when it is placed, its callee with the only offer.
Once(c) ==
    LET a == phone[Caller(c)]
        b == phone[Callee(c)]
    IN
    /\ c \in a.asking => c \notin a.placed
    /\ c \in a.asking \cup a.placed => c \in luck.calls
    /\ c \notin a.placed => ~In(Caller(c), c)
    /\ Unsent(c) => Quiet(chan, Caller(c), c) /\ c \notin a.recent /\ a.locking.id # c
    /\ Unheard(c) => ~In(Callee(c), c) /\ Quiet(chan, Callee(c), c)
    /\ OfferFirst(chan, c)
    /\ Rings(c) => b.call.stage = "none"
    /\ Unanswered(c) => ~Holds(chan, Callee(c), c, "answer")
    /\ (In(Caller(c), c) /\ (Unheard(c) \/ Unanswered(c))) => ~a.call.answered

\* Its caller has left the call or is locking it away.  A crash and a lock end calls of which
\* the caller keeps no memory.
Upset == luck.faults \cap {"crash", "lock"} # {}
LeftBy(p, c) == c \in p.recent \/ p.locking.id = c \/ (p.call.id # c /\ ~Upset)
Gone(c) == LeftBy(phone[Caller(c)], c)

\* A caller that is gone leaves no phone in the call without a word, unless a call of the peer
\* beats it; the callee that sent an end has left the call or is locking it away.
Told(c) ==
    LET b == phone[Callee(c)]
    IN
    /\ Ends(chan, Callee(c), c) /\ In(Callee(c), c) => b.locking.id = c
    /\ /\ ~Beaten(c)
       /\ Gone(c)
       /\ Holds(chan, Caller(c), c, "offer") \/ (In(Callee(c), c) /\ b.locking.id # c)
       => Ends(chan, Caller(c), c)

Talking == {"active", "reconnecting"}
Trouble == luck.faults \cap {"ack", "lock"} # {}

Kept(x, c) ==
    c \in phone[x].talked =>
        IF In(x, c) THEN phone[x].status \in Talking
        ELSE phone[x].rows[c] = IF Caller(c) = x THEN "outgoing" ELSE "incoming"

\* No row before the call is left, and the right one after a conversation.
Logged(c) ==
    LET a == phone[Caller(c)]
        b == phone[Callee(c)]
    IN
    /\ a.locking.id # c /\ b.locking.id # c
    /\ (c \notin a.placed \/ In(Caller(c), c)) => a.rows[c] = "none"
    /\ c \notin a.placed => c \notin a.talked
    /\ (Unheard(c) \/ In(Callee(c), c)) => b.rows[c] = "none"
    /\ Unheard(c) => c \notin b.talked
    /\ (In(Callee(c), c) /\ b.status \in Talking) => ~Unanswered(c)
    /\ Kept(Caller(c), c) /\ Kept(Callee(c), c)

Owed(c) == Once(c) /\ Told(c) /\ (Trouble \/ Logged(c))

\* A phone locks away, and has talked in, calls of its own only.
Holding(p, c) == p.locking.id = c \/ c \in p.talked
Locks ==
    \A d \in Phone : \A c \in Ids :
        /\ Holding(phone[d], c) => Party(d, c)
        /\ phone[d].locking.id = c => "lock" \in luck.faults

AllOwed == Locks /\ \A c \in Ids : Owed(c)

-----------------------------------------------------------------------------
(* What a step leaves of the lines of a call.                              *)

LEMMA Parties ==
    ASSUME NEW c \in Ids
    PROVE  /\ Caller(c) \in Phone /\ Callee(c) \in Phone /\ Caller(c) # Callee(c)
           /\ Other(Caller(c), c) = Callee(c) /\ Other(Callee(c), c) = Caller(c)
           /\ \A x : Party(x, c) <=> x \in {Caller(c), Callee(c)}
BY Plans DEF Other, Callee, Party, Caller

LEMMA PostHolds ==
    ASSUME NEW ch \in Chans, NEW d \in Phone, NEW c \in Ids, Party(d, c), NEW t \in Kinds,
           NEW e \in Ids, NEW y, Party(y, e)
    PROVE  /\ \A u : Holds(Post(ch, d, c, t), y, e, u) <=> Holds(ch, y, e, u) \/ (y = d /\ e = c /\ u = t)
           /\ OfferFirst(ch, e) /\ (e = c /\ t = "offer" => Quiet(ch, d, c))
              => OfferFirst(Post(ch, d, c, t), e)
<1> PICK new : new = Post(ch, d, c, t)
  OBVIOUS
<1> PICK m : m = [t |-> t, id |-> c]
  OBVIOUS
<1>1. /\ new \in Chans /\ m \in Signals
      /\ \A s, o \in Phone : new[s][o] = IF s = d /\ o = Other(d, c) THEN Append(ch[s][o], m) ELSE ch[s][o]
  BY PostIs
<1>2. ASSUME NEW z \in Phone, NEW o \in Phone
      PROVE  /\ ch[z][o] \in Seq(Signals)
             /\ new[z][o] = ch[z][o] \/ (z = d /\ o = Other(d, c) /\ Len(new[z][o]) = Len(ch[z][o]) + 1
                   /\ DOMAIN new[z][o] = 1..Len(new[z][o]) /\ DOMAIN ch[z][o] = 1..Len(ch[z][o])
                   /\ Len(ch[z][o]) \in Nat
                   /\ new[z][o][Len(ch[z][o]) + 1] = m
                   /\ \A i \in DOMAIN ch[z][o] : new[z][o][i] = ch[z][o][i])
  <2>1. ch[z][o] \in Seq(Signals)
    BY DEF Chans
  <2> PICK l : l = ch[z][o]
    OBVIOUS
  <2>2. l \in Seq(Signals)
    BY <2>1
  <2>3. /\ Append(l, m) \in Seq(Signals) /\ Len(Append(l, m)) = Len(l) + 1 /\ Len(l) \in Nat
        /\ DOMAIN l = 1..Len(l) /\ DOMAIN Append(l, m) = 1..Len(Append(l, m))
        /\ Append(l, m)[Len(l) + 1] = m /\ \A i \in DOMAIN l : Append(l, m)[i] = l[i]
    BY <1>1, <2>2
  <2> QED BY <1>1, <2>1, <2>3
<1>3. y \in Phone /\ Other(y, e) \in Phone
  BY Parties
<1>4. ASSUME NEW u PROVE Holds(new, y, e, u) <=> Holds(ch, y, e, u) \/ (y = d /\ e = c /\ u = t)
  <2>1. CASE new[y][Other(y, e)] = ch[y][Other(y, e)]
    <3>1. ~(y = d /\ e = c)
      <4> SUFFICES ASSUME y = d, e = c PROVE FALSE
        OBVIOUS
      <4>1. new[d][Other(d, c)] = Append(ch[d][Other(d, c)], m) /\ ch[d][Other(d, c)] \in Seq(Signals)
        BY <1>1, <1>2, <1>3
      <4>2. Len(Append(ch[d][Other(d, c)], m)) = Len(ch[d][Other(d, c)]) + 1 /\ Len(ch[d][Other(d, c)]) \in Nat
        BY <4>1
      <4> QED BY <2>1, <4>1, <4>2
    <3> QED BY <2>1, <3>1 DEF Holds, Line
  <2>2. CASE new[y][Other(y, e)] # ch[y][Other(y, e)]
    <3> PICK l : l = ch[y][Other(y, e)]
      OBVIOUS
    <3> PICK k : k = new[y][Other(y, e)]
      OBVIOUS
    <3>1. /\ y = d /\ DOMAIN k = 1..(Len(l) + 1) /\ DOMAIN l = 1..Len(l) /\ Len(l) \in Nat
          /\ k[Len(l) + 1] = m /\ \A i \in DOMAIN l : k[i] = l[i]
      BY <1>2, <1>3, <2>2
    <3>2. [t |-> u, id |-> e] = m <=> u = t /\ e = c
      OBVIOUS
    <3>3. (\E i \in DOMAIN k : k[i] = [t |-> u, id |-> e]) <=>
             (\E i \in DOMAIN l : l[i] = [t |-> u, id |-> e]) \/ m = [t |-> u, id |-> e]
      BY <3>1
    <3> QED BY <3>1, <3>2, <3>3 DEF Holds, Line
  <2> QED BY <2>1, <2>2
<1>5. ASSUME OfferFirst(ch, e), e = c /\ t = "offer" => Quiet(ch, d, c) PROVE OfferFirst(new, e)
  <2> PICK l : l = ch[Caller(e)][Other(Caller(e), e)]
    OBVIOUS
  <2> PICK k : k = new[Caller(e)][Other(Caller(e), e)]
    OBVIOUS
  <2>1. SUFFICES ASSUME NEW i \in DOMAIN k, NEW j \in DOMAIN k, k[i] = [t |-> "offer", id |-> e], j < i
                 PROVE  k[j].id # e
    BY DEF OfferFirst, Line
  <2>2. Caller(e) \in Phone /\ Other(Caller(e), e) \in Phone
    BY Parties
  <2>3. CASE k = l
    BY <1>5, <2>1, <2>3 DEF OfferFirst, Line
  <2>4. CASE k # l
    <3>1. /\ Caller(e) = d /\ DOMAIN k = 1..(Len(l) + 1) /\ DOMAIN l = 1..Len(l) /\ Len(l) \in Nat
          /\ k[Len(l) + 1] = m /\ (\A n \in DOMAIN l : k[n] = l[n]) /\ l \in Seq(Signals)
      BY <1>2, <2>2, <2>4
    <3>2. j \in DOMAIN l /\ k[j] = l[j] /\ l[j] \in Signals
      BY <2>1, <3>1
    <3>3. CASE i \in DOMAIN l
      BY <1>5, <2>1, <3>1, <3>2, <3>3 DEF OfferFirst, Line
    <3>4. CASE i = Len(l) + 1
      <4>1. e = c /\ t = "offer"
        BY <2>1, <3>1, <3>4
      <4>2. l[j].t \in Kinds /\ l[j] = [t |-> l[j].t, id |-> l[j].id]
        BY <3>2 DEF Signals, Kinds
      <4>3. ~Holds(ch, d, c, l[j].t)
        BY <1>5, <4>1, <4>2 DEF Quiet
      <4> QED BY <3>1, <3>2, <4>1, <4>2, <4>3 DEF Holds, Line
    <3> QED BY <3>1, <3>3, <3>4
  <2> QED BY <2>3, <2>4
<1> QED BY <1>4, <1>5

LEMMA RestHolds ==
    ASSUME chan \in Chans, NEW s \in Phone, NEW d \in Phone, chan[s][d] # <<>>,
           Route(s, d, Head(chan[s][d])), Head(chan[s][d]).id \in Ids, NEW e \in Ids, NEW y, Party(y, e)
    PROVE  LET m == Head(chan[s][d]) IN
           /\ \A u : Holds(Rest(s, d), y, e, u) => Holds(chan, y, e, u)
           /\ \A u : Holds(chan, y, e, u) => Holds(Rest(s, d), y, e, u) \/ (y = s /\ e = m.id /\ u = m.t)
           /\ OfferFirst(chan, e) => OfferFirst(Rest(s, d), e)
           /\ m.t \in Kinds /\ Holds(chan, s, m.id, m.t)
           /\ OfferFirst(chan, m.id) /\ s = Caller(m.id) => ~Holds(Rest(s, d), s, m.id, "offer")
<1> PICK m : m = Head(chan[s][d])
  OBVIOUS
<1> PICK new : new = Rest(s, d)
  OBVIOUS
<1>1. /\ new \in Chans /\ m \in Signals /\ m = chan[s][d][1] /\ 1 \in DOMAIN chan[s][d]
      /\ \A x, o \in Phone : new[x][o] = IF x = s /\ o = d THEN Tail(chan[x][o]) ELSE chan[x][o]
  BY RestIs
<1>2. m = [t |-> m.t, id |-> m.id] /\ m.t \in Kinds /\ m.id \in Ids
  BY <1>1 DEF Signals, Kinds
<1>3. ASSUME NEW x \in Phone, NEW o \in Phone
      PROVE  /\ chan[x][o] \in Seq(Signals)
             /\ new[x][o] = chan[x][o] \/ (x = s /\ o = d)
             /\ (x = s /\ o = d) => /\ Len(chan[x][o]) \in Nat \ {0} /\ DOMAIN chan[x][o] = 1..Len(chan[x][o])
                                    /\ DOMAIN new[x][o] = 1..(Len(chan[x][o]) - 1)
                                    /\ \A i \in DOMAIN new[x][o] : new[x][o][i] = chan[x][o][i + 1]
  <2>1. chan[x][o] \in Seq(Signals)
    BY DEF Chans
  <2> PICK l : l = chan[x][o]
    OBVIOUS
  <2>2. l \in Seq(Signals)
    BY <2>1
  <2>3. ASSUME l # <<>>
        PROVE  /\ Len(l) \in Nat \ {0} /\ DOMAIN l = 1..Len(l) /\ DOMAIN Tail(l) = 1..(Len(l) - 1)
               /\ \A i \in DOMAIN Tail(l) : Tail(l)[i] = l[i + 1]
    BY <2>2, <2>3
  <2> QED BY <1>1, <2>1, <2>3
<1>4. d = Other(s, m.id) /\ Party(s, m.id)
  BY DEF Route
<1>5. Holds(chan, s, m.id, m.t)
  BY <1>1, <1>2, <1>4 DEF Holds, Line
<1>6. y \in Phone /\ Other(y, e) \in Phone /\ Caller(e) \in Phone /\ Other(Caller(e), e) \in Phone
  BY Parties
<1>7. ASSUME NEW u
      PROVE  /\ Holds(new, y, e, u) => Holds(chan, y, e, u)
             /\ Holds(chan, y, e, u) => Holds(new, y, e, u) \/ (y = s /\ e = m.id /\ u = m.t)
  <2> PICK l : l = chan[y][Other(y, e)]
    OBVIOUS
  <2> PICK k : k = new[y][Other(y, e)]
    OBVIOUS
  <2>1. CASE k = l
    BY <2>1 DEF Holds, Line
  <2>2. CASE k # l
    <3>1. /\ y = s /\ Other(y, e) = d /\ Len(l) \in Nat \ {0} /\ DOMAIN l = 1..Len(l) /\ DOMAIN k = 1..(Len(l) - 1)
          /\ \A i \in DOMAIN k : k[i] = l[i + 1]
      BY <1>3, <1>6, <2>2
    <3>2. ASSUME NEW i \in DOMAIN k, k[i] = [t |-> u, id |-> e] PROVE \E n \in DOMAIN l : l[n] = [t |-> u, id |-> e]
      <4>1. i + 1 \in DOMAIN l /\ l[i + 1] = [t |-> u, id |-> e]
        BY <3>1, <3>2
      <4> QED BY <4>1
    <3>3. ASSUME NEW i \in DOMAIN l, l[i] = [t |-> u, id |-> e]
          PROVE  (\E n \in DOMAIN k : k[n] = [t |-> u, id |-> e]) \/ (e = m.id /\ u = m.t)
      <4>1. CASE i = 1
        <5>1. l[1] = m
          BY <1>1, <3>1
        <5> QED BY <1>2, <3>3, <4>1, <5>1
      <4>2. CASE i # 1
        <5>1. i - 1 \in DOMAIN k /\ k[i - 1] = l[i]
          BY <3>1, <4>2
        <5> QED BY <3>3, <5>1
      <4> QED BY <4>1, <4>2
    <3> QED BY <3>1, <3>2, <3>3 DEF Holds, Line
  <2> QED BY <2>1, <2>2
<1>8. ASSUME OfferFirst(chan, e) PROVE OfferFirst(new, e)
  <2> PICK l : l = chan[Caller(e)][Other(Caller(e), e)]
    OBVIOUS
  <2> PICK k : k = new[Caller(e)][Other(Caller(e), e)]
    OBVIOUS
  <2>1. SUFFICES ASSUME NEW i \in DOMAIN k, NEW j \in DOMAIN k, k[i] = [t |-> "offer", id |-> e], j < i
                 PROVE  k[j].id # e
    BY DEF OfferFirst, Line
  <2>2. CASE k = l
    BY <1>8, <2>1, <2>2 DEF OfferFirst, Line
  <2>3. CASE k # l
    <3>1. /\ Len(l) \in Nat \ {0} /\ DOMAIN l = 1..Len(l) /\ DOMAIN k = 1..(Len(l) - 1)
          /\ \A n \in DOMAIN k : k[n] = l[n + 1]
      BY <1>3, <1>6, <2>3
    <3>2. i + 1 \in DOMAIN l /\ j + 1 \in DOMAIN l /\ j + 1 < i + 1 /\ k[i] = l[i + 1] /\ k[j] = l[j + 1]
      BY <2>1, <3>1
    <3> QED BY <1>8, <2>1, <3>2 DEF OfferFirst, Line
  <2> QED BY <2>2, <2>3
<1>9. ASSUME OfferFirst(chan, m.id), s = Caller(m.id), Holds(new, s, m.id, "offer") PROVE FALSE
  <2> PICK l : l = chan[s][d]
    OBVIOUS
  <2> PICK k : k = new[s][d]
    OBVIOUS
  <2>1. PICK i \in DOMAIN k : k[i] = [t |-> "offer", id |-> m.id]
    BY <1>4, <1>9 DEF Holds, Line
  <2>2. /\ Len(l) \in Nat \ {0} /\ DOMAIN l = 1..Len(l) /\ DOMAIN k = 1..(Len(l) - 1)
        /\ \A n \in DOMAIN k : k[n] = l[n + 1]
    BY <1>3
  <2>3. i + 1 \in DOMAIN l /\ 1 \in DOMAIN l /\ 1 < i + 1 /\ l[i + 1] = [t |-> "offer", id |-> m.id]
    BY <2>1, <2>2
  <2>4. l[1].id # m.id
    BY <1>4, <1>9, <2>3 DEF OfferFirst, Line
  <2> QED BY <1>1, <2>4
<1> QED BY <1>2, <1>5, <1>7, <1>8, <1>9

LEMMA CutHolds ==
    ASSUME Inv, NEW d \in Phone, Crash(d), NEW e \in Ids, NEW y, Party(y, e)
    PROVE  /\ \A u : Holds(chan', y, e, u) => Holds(chan, y, e, u)
           /\ y # d => \A u : Holds(chan, y, e, u) => Holds(chan', y, e, u)
           /\ OfferFirst(chan, e) => OfferFirst(chan', e)
<1> PICK s \in Phone \ {d} : \E n \in 0..Len(chan[d][s]) : chan' = [chan EXCEPT ![d][s] = SubSeq(@, 1, n)]
  BY DEF Crash
<1>1. PICK n \in 0..Len(chan[d][s]) : chan' = [chan EXCEPT ![d][s] = SubSeq(@, 1, n)]
  OBVIOUS
<1>2. chan[d][s] \in Seq(Signals)
  BY DEF Inv, Chans
<1>3. \A i \in DOMAIN SubSeq(chan[d][s], 1, n) :
         i \in DOMAIN chan[d][s] /\ SubSeq(chan[d][s], 1, n)[i] = chan[d][s][i]
  BY <1>2
<1>4. \A x, o \in Phone : /\ x # d => chan'[x][o] = chan[x][o]
                          /\ \A i \in DOMAIN chan'[x][o] : i \in DOMAIN chan[x][o] /\ chan'[x][o][i] = chan[x][o][i]
  <2>1. \A x, o \in Phone : chan'[x][o] = IF x = d /\ o = s THEN SubSeq(chan[d][s], 1, n) ELSE chan[x][o]
    BY <1>1 DEF Inv, Chans
  <2> QED BY <1>3, <2>1
<1>5. y \in Phone /\ Other(y, e) \in Phone /\ Caller(e) \in Phone /\ Other(Caller(e), e) \in Phone
  BY Parties
<1>6. ASSUME NEW u PROVE /\ Holds(chan', y, e, u) => Holds(chan, y, e, u)
                         /\ y # d => (Holds(chan, y, e, u) => Holds(chan', y, e, u))
  BY <1>4, <1>5 DEF Holds, Line
<1>7. OfferFirst(chan, e) => OfferFirst(chan', e)
  BY <1>4, <1>5 DEF OfferFirst, Line
<1> QED BY <1>6, <1>7

-----------------------------------------------------------------------------
(* Steps that change nothing of a call but how far it has come.            *)

\* The record p of the phone x becomes q.
Alike(x, p, q, c) ==
    /\ q.call.id = c <=> p.call.id = c
    /\ p.call.id = c =>
          /\ q.call.answered = p.call.answered \/ ~(Unheard(c) \/ Unanswered(c))
          /\ \/ q.call.stage = p.call.stage
             \/ p.call.stage = "turn" /\ q.call.stage = "engine"
             \/ p.call.stage = "sending" /\ q.call.stage = "done"
          /\ \/ q.status = p.status
             \/ q.status # "incoming-ringing" /\ (q.status \in Talking <=> p.status \in Talking)
    /\ q.rows[c] = p.rows[c]
    /\ c \in q.talked <=> c \in p.talked
    /\ c \in q.placed <=> c \in p.placed
    /\ c \in q.asking => c \in p.asking \/ (c \notin p.placed /\ c \in luck.calls)
    /\ q.locking.id = c <=> p.locking.id = c
    /\ x = Caller(c) => (c \in q.recent => c \in p.recent)

Keeps(x, c) == Alike(x, phone[x], phone'[x], c)

LinesKeep(c) ==
    /\ \A y \in {Caller(c), Callee(c)} : \A u : Holds(chan', y, c, u) => Holds(chan, y, c, u)
    /\ \A y \in {Caller(c), Callee(c)} : \A u \in Reasons : Holds(chan, y, c, u) => Holds(chan', y, c, u)
    /\ OfferFirst(chan, c) => OfferFirst(chan', c)

LuckKeeps == luck'.calls = luck.calls /\ luck'.faults = luck.faults

LEMMA Stays ==
    ASSUME NEW c \in Ids, Owed(c), Keeps(Caller(c), c), Keeps(Callee(c), c), LinesKeep(c), LuckKeeps
    PROVE  Owed(c)'
<1> PICK a : a = phone[Caller(c)]
  OBVIOUS
<1> PICK b : b = phone[Callee(c)]
  OBVIOUS
<1>a. Caller(c) # Callee(c)
  BY Parties
<1>u. Unsent(c)' => Unsent(c)
  BY DEF Unsent, In, Keeps, Alike
<1>h. Unheard(c)' => Unheard(c)
  BY <1>u DEF Unheard, LinesKeep
<1>n. (Unanswered(c)' => Unanswered(c)) /\ (In(Callee(c), c)' /\ Unanswered(c) => In(Callee(c), c))
  BY DEF Unanswered, In, Keeps, Alike
<1>r. Rings(c)' => Rings(c) /\ (phone[Callee(c)].call.stage = "none" => phone'[Callee(c)].call.stage = "none")
  <2>1. SUFFICES ASSUME Rings(c)' PROVE Rings(c) /\ (b.call.stage = "none" => phone'[Callee(c)].call.stage = "none")
    OBVIOUS
  <2>2. phone'[Callee(c)].call.id = c /\ phone'[Callee(c)].status = "incoming-ringing"
    BY <2>1 DEF Rings, In
  <2>3. b.call.id = c /\ b.status = "incoming-ringing"
    BY <2>2 DEF Keeps, Alike
  <2> QED BY <2>2, <2>3 DEF Rings, In, Keeps, Alike
<1>q. \A y \in {Caller(c), Callee(c)} : Quiet(chan, y, c) => Quiet(chan', y, c)
  BY DEF Quiet, LinesKeep
<1>e. \A y \in {Caller(c), Callee(c)} : Ends(chan, y, c) <=> Ends(chan', y, c)
  BY DEF Ends, LinesKeep, Reasons, Kinds
<1>x. Beaten(c)' <=> Beaten(c)
  BY DEF Beaten, LuckKeeps
<1>g. Gone(c)' => Gone(c)
  BY DEF Gone, LeftBy, Upset, Keeps, Alike, LuckKeeps
<1>1. Once(c)'
  <2>1. Once(c)
    BY DEF Owed
  <2> HIDE DEF Unsent, Unheard, Unanswered, Rings, Quiet
  <2>2. (In(Caller(c), c)' <=> In(Caller(c), c)) /\ (In(Callee(c), c)' <=> In(Callee(c), c))
    BY DEF In, Keeps, Alike
  <2> QED BY <1>u, <1>h, <1>n, <1>r, <1>q, <2>1, <2>2 DEF Once, Keeps, Alike, LinesKeep, LuckKeeps, In
<1>2. Told(c)'
  <2>1. Told(c)
    BY DEF Owed
  <2>2. In(Callee(c), c)' <=> In(Callee(c), c)
    BY DEF In, Keeps, Alike
  <2> QED BY <1>e, <1>g, <1>x, <2>1, <2>2 DEF Told, Keeps, Alike, LinesKeep
<1>3. (Trouble \/ Logged(c))'
  <2>1. Trouble' <=> Trouble
    BY DEF Trouble, LuckKeeps
  <2>2. ASSUME Logged(c) PROVE Logged(c)'
    <3>1. (In(Caller(c), c)' <=> In(Caller(c), c)) /\ (In(Callee(c), c)' <=> In(Callee(c), c))
      BY DEF In, Keeps, Alike
    <3>2. Kept(Caller(c), c)' /\ Kept(Callee(c), c)'
      BY <2>2 DEF Logged, Kept, Keeps, Alike, In
    <3>3. (In(Callee(c), c) /\ phone'[Callee(c)].status \in Talking) => phone[Callee(c)].status \in Talking
      BY DEF In, Keeps, Alike
    <3> QED BY <1>h, <1>n, <2>2, <3>1, <3>2, <3>3 DEF Logged, Keeps, Alike
  <2> QED BY <2>1, <2>2 DEF Owed
<1> QED BY <1>1, <1>2, <1>3 DEF Owed

\* The other phones of a step.
LEMMA Unmoved ==
    ASSUME Inv, NEW d \in Phone, NEW q, phone' = [phone EXCEPT ![d] = q]
    PROVE  /\ phone'[d] = q
           /\ \A y \in Phone : y # d => phone'[y] = phone[y]
           /\ \A y \in Phone : \A c \in Ids : y # d => Keeps(y, c)
           /\ \A c \in Ids : Alike(d, phone[d], q, c) => Keeps(Caller(c), c) /\ Keeps(Callee(c), c)
<1>1. phone'[d] = q /\ \A y \in Phone : y # d => phone'[y] = phone[y]
  BY DEF Inv
<1>2. \A y \in Phone : \A c \in Ids : y # d => Keeps(y, c)
  BY <1>1 DEF Keeps, Alike
<1>3. \A c \in Ids : Caller(c) \in Phone /\ Callee(c) \in Phone
  BY Parties
<1> QED BY <1>1, <1>2, <1>3 DEF Keeps

LEMMA LinesStill == ASSUME chan' = chan PROVE \A c \in Ids : LinesKeep(c)
BY DEF LinesKeep

LEMMA LocksStay ==
    ASSUME Inv, Locks, NEW d \in Phone, NEW q, phone' = [phone EXCEPT ![d] = q],
           \A c \in Ids : Holding(q, c) => Holding(phone[d], c) \/ Party(d, c),
           \A c \in Ids : q.locking.id = c => phone[d].locking.id = c \/ "lock" \in luck.faults, LuckKeeps
    PROVE  Locks'
<1>1. phone'[d] = q /\ \A y \in Phone : y # d => phone'[y] = phone[y]
  BY Unmoved
<1> QED BY <1>1 DEF Locks, LuckKeeps

\* A step of one phone that at most advances calls, lines untouched.
LEMMA Advances ==
    ASSUME Inv, AllOwed, NEW d \in Phone, NEW q, phone' = [phone EXCEPT ![d] = q],
           \A c \in Ids : Alike(d, phone[d], q, c) /\ LinesKeep(c), LuckKeeps
    PROVE  AllOwed'
<1>0. \A c \in Ids : Holding(q, c) => Holding(phone[d], c) \/ Party(d, c)
  BY DEF Alike, Holding
<1>a. Locks
  BY DEF AllOwed
<1>b. \A c \in Ids : q.locking.id = c => phone[d].locking.id = c \/ "lock" \in luck.faults
  BY DEF Alike
<1>1. Locks'
  BY <1>0, <1>a, <1>b, LocksStay
<1> QED BY <1>1, Unmoved, Stays DEF AllOwed

\* A step that does more with the call e only.
LEMMA Others ==
    ASSUME Inv, AllOwed, NEW d \in Phone, NEW q, phone' = [phone EXCEPT ![d] = q], NEW e \in Ids,
           \A c \in Ids : c # e => Alike(d, phone[d], q, c) /\ LinesKeep(c), LuckKeeps, Owed(e)',
           Holding(q, e) => Holding(phone[d], e) \/ Party(d, e),
           q.locking.id = e => phone[d].locking.id = e \/ "lock" \in luck.faults
    PROVE  AllOwed'
<1>0. \A c \in Ids : Holding(q, c) => Holding(phone[d], c) \/ Party(d, c)
  BY DEF Alike, Holding
<1>a. Locks
  BY DEF AllOwed
<1>b. \A c \in Ids : q.locking.id = c => phone[d].locking.id = c \/ "lock" \in luck.faults
  BY DEF Alike
<1>1. Locks'
  BY <1>0, <1>a, <1>b, LocksStay
<1> QED BY <1>1, Unmoved, Stays DEF AllOwed

LEMMA LuckStill ==
    ASSUME Inv, luck' = luck \/ \E kind : Spend(kind)
    PROVE  LuckKeeps
BY Spending DEF LuckKeeps

\* A record that differs in nothing the calls see.
LEMMA SameRecord ==
    ASSUME NEW p, NEW q, NEW x, q.status = p.status, q.call = p.call, q.rows = p.rows, q.talked = p.talked,
           q.placed = p.placed, q.asking = p.asking, q.locking = p.locking,
           NEW c, x = Caller(c) => (c \in q.recent => c \in p.recent)
    PROVE  Alike(x, p, q, c)
BY DEF Alike

LEMMA Quieter ==
    ASSUME NEW ch, NEW x, NEW c, Quiet(ch, x, c)
    PROVE  (\A t \in Kinds : ~Holds(ch, x, c, t)) /\ ~Holds(ch, x, c, "offer") /\ ~Holds(ch, x, c, "answer") /\ ~Ends(ch, x, c)
BY DEF Quiet, Kinds, Ends

LEMMA AskOwes == ASSUME Inv, AllOwed, NEW d \in Phone, NEW c \in Ids, Ask(d, c) PROVE AllOwed'
<1> PICK p : p = phone[d]
  OBVIOUS
<1> PICK q : q = [p EXCEPT !.asking = @ \cup {c}]
  OBVIOUS
<1>1. p \in Phones /\ c \notin p.placed /\ c \in luck.calls
  BY Current DEF Ask
<1>2. phone' = [phone EXCEPT ![d] = q] /\ chan' = chan /\ luck' = luck
  BY DEF Ask
<1>3. /\ q.status = p.status /\ q.call = p.call /\ q.rows = p.rows /\ q.talked = p.talked /\ q.placed = p.placed
      /\ q.asking = p.asking \cup {c} /\ q.locking = p.locking /\ q.recent = p.recent
  BY <1>1 DEF Phones
<1>4. \A e \in Ids : Alike(d, p, q, e)
  BY <1>1, <1>3 DEF Alike
<1> QED BY <1>2, <1>4, LinesStill, LuckStill, Advances

LEMMA CredentialsOwes == ASSUME Inv, AllOwed, NEW d \in Phone, Credentials(d) PROVE AllOwed'
<1> PICK p : p = phone[d]
  OBVIOUS
<1> PICK k : k = [p.call EXCEPT !.stage = "engine"]
  OBVIOUS
<1> PICK on : on = p.mics \cup {p.call.id}
  OBVIOUS
<1> PICK q : q = [p EXCEPT !.call = k, !.mics = on]
  OBVIOUS
<1>1. p \in Phones /\ p.call \in Calls /\ p.call.stage = "turn"
  BY Current DEF Credentials
<1>2. phone' = [phone EXCEPT ![d] = q] /\ chan' = chan /\ luck' = luck
  BY DEF Credentials, Inv
<1>3. k.id = p.call.id /\ k.stage = "engine" /\ k.answered = p.call.answered
  BY <1>1 DEF Calls
<1>4. /\ q.status = p.status /\ q.call = k /\ q.rows = p.rows /\ q.talked = p.talked /\ q.placed = p.placed
      /\ q.asking = p.asking /\ q.locking = p.locking /\ q.recent = p.recent
  BY <1>1 DEF Phones
<1>5. \A e \in Ids : Alike(d, p, q, e)
  BY <1>1, <1>3, <1>4 DEF Alike
<1> QED BY <1>2, <1>5, LinesStill, LuckStill, Advances

LEMMA AckedOwes == ASSUME Inv, AllOwed, NEW d \in Phone, Acked(d) PROVE AllOwed'
<1> PICK p : p = phone[d]
  OBVIOUS
<1> PICK k : k = [p.call EXCEPT !.stage = "done"]
  OBVIOUS
<1> PICK st : st = IF Outgoing(d, p) THEN "outgoing-ringing" ELSE p.status
  OBVIOUS
<1> PICK ti : ti = p.timers \cup (IF Outgoing(d, p) THEN {"ring"} ELSE {"connect"})
  OBVIOUS
<1> PICK q : q = [p EXCEPT !.call = k, !.status = st, !.timers = ti]
  OBVIOUS
<1>1. p \in Phones /\ p.call \in Calls /\ p.call.stage = "sending" /\ Coherent(d, p)
  BY Current DEF Acked
<1>2. phone' = [phone EXCEPT ![d] = q] /\ chan' = chan /\ luck' = luck
  <2>1. CASE Outgoing(d, p)
    <3>1. phone' = [phone EXCEPT ![d] = [p EXCEPT !.call.stage = "done", !.status = "outgoing-ringing",
                                                 !.timers = @ \cup {"ring"}]]
      BY <2>1 DEF Acked
    <3> QED BY <2>1, <3>1 DEF Acked
  <2>2. CASE ~Outgoing(d, p)
    <3>1. phone' = [phone EXCEPT ![d] = [p EXCEPT !.call.stage = "done", !.timers = @ \cup {"connect"}]]
      BY <2>2 DEF Acked
    <3>2. q = [p EXCEPT !.call.stage = "done", !.timers = @ \cup {"connect"}]
      BY <1>1, <2>2 DEF Phones
    <3> QED BY <2>2, <3>1, <3>2 DEF Acked
  <2> QED BY <2>1, <2>2
<1>3. k.id = p.call.id /\ k.stage = "done" /\ k.answered = p.call.answered
  BY <1>1 DEF Calls
<1>4. /\ q.status = st /\ q.call = k /\ q.rows = p.rows /\ q.talked = p.talked /\ q.placed = p.placed
      /\ q.asking = p.asking /\ q.locking = p.locking /\ q.recent = p.recent
  BY <1>1 DEF Phones
<1>5. Outgoing(d, p) => p.status = "starting"
  BY <1>1 DEF Coherent, Begun
<1>a. q.status = p.status \/ (q.status = "outgoing-ringing" /\ p.status = "starting")
  BY <1>4, <1>5
<1>6. \A e \in Ids : Alike(d, p, q, e)
  BY <1>1, <1>3, <1>4, <1>a DEF Alike, Talking
<1> QED BY <1>2, <1>6, LinesStill, LuckStill, Advances

LEMMA TimerOwes ==
    ASSUME Inv, AllOwed, NEW d \in Phone, NEW t, phone' = [phone EXCEPT ![d].timers = @ \ {t}],
           UNCHANGED <<chan, luck>>
    PROVE  AllOwed'
<1> PICK p : p = phone[d]
  OBVIOUS
<1> PICK left : left = p.timers \ {t}
  OBVIOUS
<1> PICK q : q = [p EXCEPT !.timers = left]
  OBVIOUS
<1>1. p \in Phones
  BY Current
<1>2. phone' = [phone EXCEPT ![d] = q]
  OBVIOUS
<1>3. /\ q.status = p.status /\ q.call = p.call /\ q.rows = p.rows /\ q.talked = p.talked /\ q.placed = p.placed
      /\ q.asking = p.asking /\ q.locking = p.locking /\ q.recent = p.recent
  BY <1>1 DEF Phones
<1>4. \A e \in Ids : Alike(d, p, q, e)
  BY <1>3 DEF Alike
<1> QED BY <1>2, <1>4, LinesStill, LuckStill, Advances

LEMMA LingerOwes == ASSUME Inv, AllOwed, NEW d \in Phone, LingerTimeout(d) PROVE AllOwed'
<1> PICK p : p = phone[d]
  OBVIOUS
<1> PICK left : left = p.timers \ {"linger"}
  OBVIOUS
<1> PICK st : st = IF p.status = "ending" THEN "idle" ELSE p.status
  OBVIOUS
<1> PICK q : q = [p EXCEPT !.timers = left, !.status = st]
  OBVIOUS
<1>1. p \in Phones /\ (p.status = "ending" => p.call.id = 0)
  BY Current DEF AtRest
<1>2. phone' = [phone EXCEPT ![d] = q] /\ chan' = chan /\ luck' = luck
  BY DEF LingerTimeout, Inv
<1>3. /\ q.status = st /\ q.call = p.call /\ q.rows = p.rows /\ q.talked = p.talked /\ q.placed = p.placed
      /\ q.asking = p.asking /\ q.locking = p.locking /\ q.recent = p.recent
  BY <1>1 DEF Phones
<1>4. \A e \in Ids : Alike(d, p, q, e)
  BY <1>1, <1>3, Plans DEF Alike
<1> QED BY <1>2, <1>4, LinesStill, LuckStill, Advances

LEMMA IceDisconnectedOwes == ASSUME Inv, AllOwed, NEW d \in Phone, IceDisconnected(d) PROVE AllOwed'
<1> PICK p : p = phone[d]
  OBVIOUS
<1> PICK armed : armed = p.timers \cup {"disconnect"}
  OBVIOUS
<1> PICK q : q = [p EXCEPT !.status = "reconnecting", !.timers = armed]
  OBVIOUS
<1>1. p \in Phones /\ p.status = "active"
  BY Current DEF IceDisconnected
<1>2. phone' = [phone EXCEPT ![d] = q] /\ chan' = chan /\ (luck' = luck \/ Spend("ice"))
  BY DEF IceDisconnected, PathLost, Inv
<1>3. /\ q.status = "reconnecting" /\ q.call = p.call /\ q.rows = p.rows /\ q.talked = p.talked
      /\ q.placed = p.placed /\ q.asking = p.asking /\ q.locking = p.locking /\ q.recent = p.recent
  BY <1>1 DEF Phones
<1>4. \A e \in Ids : Alike(d, p, q, e)
  BY <1>1, <1>3 DEF Alike, Talking
<1> QED BY <1>2, <1>4, LinesStill, LuckStill, Advances

LEMMA LockedOwes ==
    ASSUME Inv, AllOwed, NEW d \in Phone, NEW v, phone' = [phone EXCEPT ![d].locked = v],
           UNCHANGED chan, LuckKeeps
    PROVE  AllOwed'
<1> PICK p : p = phone[d]
  OBVIOUS
<1> PICK q : q = [p EXCEPT !.locked = v]
  OBVIOUS
<1>1. p \in Phones
  BY Current
<1>2. phone' = [phone EXCEPT ![d] = q]
  OBVIOUS
<1>3. /\ q.status = p.status /\ q.call = p.call /\ q.rows = p.rows /\ q.talked = p.talked /\ q.placed = p.placed
      /\ q.asking = p.asking /\ q.locking = p.locking /\ q.recent = p.recent
  BY <1>1 DEF Phones
<1>4. \A e \in Ids : Alike(d, p, q, e)
  BY <1>3 DEF Alike
<1> QED BY <1>2, <1>4, LinesStill, Advances

-----------------------------------------------------------------------------
(* Placing, sending and answering.                                         *)

LEMMA PlaceOwes == ASSUME Inv, AllOwed, NEW d \in Phone, NEW c \in Ids, Place(d, c) PROVE AllOwed'
<1> PICK p : p = phone[d]
  OBVIOUS
<1> PICK asked : asked = [p EXCEPT !.asking = @ \ {c}, !.placed = @ \cup {c}]
  OBVIOUS
<1> PICK left : left = asked.timers \ {"linger"}
  OBVIOUS
<1> PICK fresh : fresh = [id |-> c, stage |-> "turn", answered |-> FALSE]
  OBVIOUS
<1> PICK began : began = [asked EXCEPT !.call = fresh, !.status = "starting", !.timers = left]
  OBVIOUS
<1>q. PICK q : q = IF Free(p) THEN began ELSE asked
  OBVIOUS
<1>1. p \in Phones /\ c \in p.asking /\ Caller(c) = d
  BY Current DEF Place, Asks
<1>2. phone' = [phone EXCEPT ![d] = q] /\ chan' = chan /\ luck' = luck
  BY <1>q DEF Place, Inv
<1>3. /\ asked.status = p.status /\ asked.call = p.call /\ asked.rows = p.rows /\ asked.talked = p.talked
      /\ asked.placed = p.placed \cup {c} /\ asked.asking = p.asking \ {c} /\ asked.locking = p.locking
      /\ asked.recent = p.recent /\ asked \in Phones
  BY <1>1 DEF Phones
<1>4. /\ began.status = "starting" /\ began.call = fresh /\ began.rows = p.rows /\ began.talked = p.talked
      /\ began.placed = p.placed \cup {c} /\ began.asking = p.asking \ {c} /\ began.locking = p.locking
      /\ began.recent = p.recent
  BY <1>3 DEF Phones
<1>5. Free(p) => p.call.id = 0
  BY DEF Free, InCall
<1>6. ASSUME NEW e \in Ids, e # c PROVE Alike(d, p, q, e)
  <2>1. CASE Free(p)
    BY <1>q, <1>3, <1>4, <1>5, <1>6, <2>1, Plans DEF Alike
  <2>2. CASE ~Free(p)
    BY <1>q, <1>3, <1>6, <2>2 DEF Alike
  <2> QED BY <2>1, <2>2
<1>7. Owed(c)'
  <2> PICK b : b = phone[Callee(c)]
    OBVIOUS
  <2>1. Owed(c) /\ c \notin p.placed /\ Unsent(c) /\ Unheard(c) /\ Callee(c) # d
    BY <1>1, Parties DEF AllOwed, Owed, Once, Unsent, Unheard
  <2>a. Callee(c) \in Phone
    BY Parties
  <2>2. phone'[Callee(c)] = b /\ phone'[Caller(c)] = q
    BY <1>1, <1>2, <2>1, <2>a DEF Inv
  <2>3. /\ c \in q.placed /\ c \notin q.asking /\ c \in luck.calls /\ c \notin q.recent /\ q.locking.id # c
        /\ q.rows = p.rows /\ q.talked = p.talked
    BY <1>q, <1>1, <1>3, <1>4, <2>1 DEF Owed, Once
  <2>4. q.call.id = c => q.call.stage = "turn" /\ ~q.call.answered
    BY <1>q, <1>1, <1>3, <1>4, <2>1 DEF Owed, Once, In
  <2>5. Quiet(chan, Caller(c), c) /\ Quiet(chan, Callee(c), c) /\ ~In(Callee(c), c) /\ OfferFirst(chan, c)
    BY <2>1 DEF Owed, Once
  <2>6. Once(c)'
    BY <1>2, <2>2, <2>3, <2>4, <2>5, Quieter DEF Once, In, Rings, Unanswered
  <2>7. Told(c)'
    BY <1>2, <2>2, <2>3, <2>5, Quieter DEF Told, In
  <2>8. (Trouble \/ Logged(c))'
    <3>1. SUFFICES ASSUME Logged(c) PROVE Logged(c)'
      BY <1>2, <2>1 DEF Owed, Trouble
    <3> QED BY <1>1, <1>2, <2>1, <2>2, <2>3, <2>5, <3>1 DEF Logged, In, Unanswered, Kept
  <2> QED BY <2>6, <2>7, <2>8 DEF Owed
<1>8. Party(d, c)
  BY <1>1 DEF Party
<1>9. \A e \in Ids : e # c => Alike(d, phone[d], q, e) /\ LinesKeep(e)
  BY <1>2, <1>6, LinesStill
<1>10. LuckKeeps
  BY <1>2, LuckStill
<1>11. q.locking.id = c => phone[d].locking.id = c
  BY <1>q, <1>3, <1>4
<1> QED BY <1>2, <1>7, <1>8, <1>9, <1>10, <1>11, Others

LEMMA PostKeeps ==
    ASSUME Inv, NEW d \in Phone, NEW c \in Ids, Party(d, c), NEW t \in Kinds, chan' = Post(chan, d, c, t)
    PROVE  /\ \A e \in Ids : e # c => LinesKeep(e)
           /\ \A y \in {Caller(c), Callee(c)} : \A u :
                 Holds(chan', y, c, u) <=> Holds(chan, y, c, u) \/ (y = d /\ u = t)
           /\ OfferFirst(chan, c) /\ (t = "offer" => Quiet(chan, d, c)) => OfferFirst(chan', c)
<1>1. chan \in Chans
  BY DEF Inv
<1>2. \A e \in Ids : \A y \in {Caller(e), Callee(e)} : Party(y, e)
  BY Parties
<1>3. ASSUME NEW e \in Ids, NEW y \in {Caller(e), Callee(e)}
      PROVE  /\ \A u : Holds(chan', y, e, u) <=> Holds(chan, y, e, u) \/ (y = d /\ e = c /\ u = t)
             /\ OfferFirst(chan, e) /\ (e = c /\ t = "offer" => Quiet(chan, d, c)) => OfferFirst(chan', e)
  BY <1>1, <1>2, PostHolds
<1>4. \A e \in Ids : OfferFirst(chan, e) /\ (e = c /\ t = "offer" => Quiet(chan, d, c)) => OfferFirst(chan', e)
  BY <1>3
<1> HIDE DEF Holds, OfferFirst
<1>5. \A e \in Ids : e # c => LinesKeep(e)
  BY <1>3, <1>4 DEF LinesKeep
<1>6. \A y \in {Caller(c), Callee(c)} : \A u :
                 Holds(chan', y, c, u) <=> Holds(chan, y, c, u) \/ (y = d /\ u = t)
  BY <1>3
<1> QED BY <1>4, <1>5, <1>6

\* The frame m that d takes from s.
LEMMA RestKeeps ==
    ASSUME Inv, NEW s \in Phone, NEW d \in Phone, Take(s, d)
    PROVE  LET m == Head(chan[s][d]) IN
           /\ m.id \in Ids /\ m.t \in Kinds /\ Party(s, m.id) /\ Party(d, m.id) /\ s # d /\ Holds(chan, s, m.id, m.t)
           /\ m.t = "offer" => s = Caller(m.id)
           /\ \A e \in Ids : \A y \in {Caller(e), Callee(e)} :
                 /\ \A u : Holds(Rest(s, d), y, e, u) => Holds(chan, y, e, u)
                 /\ \A u : Holds(chan, y, e, u) => Holds(Rest(s, d), y, e, u) \/ (y = s /\ e = m.id /\ u = m.t)
           /\ \A e \in Ids : OfferFirst(chan, e) => OfferFirst(Rest(s, d), e)
           /\ OfferFirst(chan, m.id) /\ s = Caller(m.id) => ~Holds(Rest(s, d), s, m.id, "offer")
<1> PICK m : m = Head(chan[s][d])
  OBVIOUS
<1>1. /\ chan \in Chans /\ chan[s][d] # <<>> /\ m.id \in Ids /\ Route(s, d, m) /\ Party(d, m.id) /\ s # d
      /\ m.t = "offer" => s = Caller(m.id)
  BY Taken DEF Inv, Take
<1>2. Party(s, m.id)
  BY <1>1 DEF Route
<1>3. \A e \in Ids : \A y \in {Caller(e), Callee(e)} : Party(y, e)
  BY Parties
<1>4. ASSUME NEW e \in Ids, NEW y \in {Caller(e), Callee(e)}
      PROVE  /\ \A u : Holds(Rest(s, d), y, e, u) => Holds(chan, y, e, u)
             /\ \A u : Holds(chan, y, e, u) => Holds(Rest(s, d), y, e, u) \/ (y = s /\ e = m.id /\ u = m.t)
             /\ OfferFirst(chan, e) => OfferFirst(Rest(s, d), e)
  BY <1>1, <1>3, RestHolds
<1>5. /\ m.t \in Kinds /\ Holds(chan, s, m.id, m.t)
      /\ OfferFirst(chan, m.id) /\ s = Caller(m.id) => ~Holds(Rest(s, d), s, m.id, "offer")
  BY <1>1, <1>2, RestHolds
<1>6. \A e \in Ids : OfferFirst(chan, e) => OfferFirst(Rest(s, d), e)
  BY <1>4
<1>7. \A e \in Ids : \A y \in {Caller(e), Callee(e)} :
                 /\ \A u : Holds(Rest(s, d), y, e, u) => Holds(chan, y, e, u)
                 /\ \A u : Holds(chan, y, e, u) => Holds(Rest(s, d), y, e, u) \/ (y = s /\ e = m.id /\ u = m.t)
  BY <1>4
<1> QED BY <1>1, <1>2, <1>5, <1>6, <1>7

LEMMA FrameKeeps ==
    ASSUME Inv, NEW s \in Phone, NEW d \in Phone, Take(s, d), chan' = Rest(s, d)
    PROVE  \A e \in Ids : e # Head(chan[s][d]).id \/ ~IsEnd(Head(chan[s][d])) => LinesKeep(e)
BY RestKeeps DEF LinesKeep, IsEnd

LEMMA SdpOwes == ASSUME Inv, AllOwed, NEW d \in Phone, SdpReady(d) PROVE AllOwed'
<1> PICK p : p = phone[d]
  OBVIOUS
<1> PICK c : c = p.call.id
  OBVIOUS
<1>k. PICK k : k = [p.call EXCEPT !.stage = "sending"]
  OBVIOUS
<1>q. PICK q : q = [p EXCEPT !.call = k]
  OBVIOUS
<1>t. PICK t : t = IF Outgoing(d, p) THEN "offer" ELSE "answer"
  OBVIOUS
<1>1. /\ p \in Phones /\ p.call \in Calls /\ p.call.stage = "engine" /\ c \in Ids /\ c # 0 /\ Party(d, c)
      /\ Coherent(d, p)
  BY Current DEF SdpReady
<1>2. phone' = [phone EXCEPT ![d] = q] /\ chan' = Post(chan, d, c, t) /\ luck' = luck
  BY <1>k, <1>q, <1>t DEF SdpReady, Inv
<1>3. k.id = c /\ k.stage = "sending" /\ k.answered = p.call.answered
  BY <1>k, <1>1 DEF Calls
<1>4. /\ q.status = p.status /\ q.call = k /\ q.rows = p.rows /\ q.talked = p.talked /\ q.placed = p.placed
      /\ q.asking = p.asking /\ q.locking = p.locking /\ q.recent = p.recent
  BY <1>q, <1>1 DEF Phones
<1>5. ASSUME NEW e \in Ids, e # c PROVE Alike(d, p, q, e)
  BY <1>3, <1>4, <1>5 DEF Alike
<1>6. /\ \A e \in Ids : e # c => LinesKeep(e)
      /\ \A y \in {Caller(c), Callee(c)} : \A u :
            Holds(chan', y, c, u) <=> Holds(chan, y, c, u) \/ (y = d /\ u = t)
      /\ OfferFirst(chan, c) /\ (t = "offer" => Quiet(chan, d, c)) => OfferFirst(chan', c)
  BY <1>t, <1>1, <1>2, PostKeeps DEF Kinds
<1>7. Owed(c)'
  <2>1. Owed(c) /\ Caller(c) # Callee(c) /\ Caller(c) \in Phone /\ Callee(c) \in Phone /\ d \in {Caller(c), Callee(c)}
    BY <1>1, Parties DEF AllOwed
  <2>2. (Beaten(c)' <=> Beaten(c)) /\ (Trouble' <=> Trouble)
    BY <1>2 DEF Beaten, Trouble
  <2>e. \A y \in {Caller(c), Callee(c)} : Ends(chan', y, c) <=> Ends(chan, y, c)
    BY <1>t, <1>6 DEF Ends, Reasons
  <2>3. CASE d = Caller(c)
    <3> PICK b : b = phone[Callee(c)]
      OBVIOUS
    <3>1. phone'[Callee(c)] = b /\ phone'[Caller(c)] = q /\ phone[Caller(c)] = p
      BY <1>2, <2>1, <2>3 DEF Inv
    <3>2. t = "offer" /\ Unsent(c) /\ Unheard(c)
      BY <1>t, <1>1, <2>3 DEF Outgoing, InCall, Unsent, Unheard, In
    <3>3. /\ Quiet(chan, Caller(c), c) /\ Quiet(chan, Callee(c), c) /\ ~In(Callee(c), c) /\ OfferFirst(chan, c)
          /\ c \notin p.recent /\ p.locking.id # c /\ c \in p.placed /\ ~p.call.answered
      BY <2>1, <2>3, <3>2 DEF Owed, Once, In
    <3>4. OfferFirst(chan', c) /\ Quiet(chan', Callee(c), c)
      BY <1>6, <2>1, <2>3, <3>3 DEF Quiet
    <3>5. ~Unsent(c)' /\ ~In(Callee(c), c)'
      <4>1. q.call.stage = "sending" /\ c \in q.placed
        BY <1>3, <1>4, <3>3
      <4> QED BY <3>1, <3>3, <4>1 DEF Unsent, In
    <3>6. Once(c)'
      BY <1>2, <1>3, <1>4, <2>1, <3>1, <3>3, <3>4, <3>5 DEF Once, Owed, In, Rings, Unanswered
    <3>7. Told(c)'
      <4>1. ~Gone(c)'
        BY <1>3, <1>4, <3>1, <3>3 DEF Gone, LeftBy
      <4> QED BY <3>5, <4>1 DEF Told
    <3>8. (Trouble \/ Logged(c))'
      BY <1>3, <1>4, <2>1, <2>2, <3>1, <3>2, <3>3, <3>5 DEF Owed, Logged, Kept, In
    <3> QED BY <3>6, <3>7, <3>8 DEF Owed
  <2>4. CASE d = Callee(c)
    <3> PICK a : a = phone[Caller(c)]
      OBVIOUS
    <3>1. phone'[Caller(c)] = a /\ phone'[Callee(c)] = q /\ phone[Callee(c)] = p
      BY <1>2, <2>1, <2>4 DEF Inv
    <3>2. t = "answer" /\ In(Callee(c), c) /\ In(Callee(c), c)' /\ ~Unanswered(c)'
      <4>1. t = "answer"
        BY <1>t, <1>1, <2>1, <2>4 DEF Outgoing
      <4>2. p.call.id = c /\ q.call.id = c /\ q.call.stage = "sending"
        BY <1>3, <1>4
      <4> QED BY <3>1, <4>1, <4>2 DEF In, Unanswered
    <3>3. ~Unheard(c) /\ OfferFirst(chan, c) /\ ~Rings(c)
      BY <1>1, <2>1, <3>1, <3>2 DEF Owed, Once, Rings
    <3>4. OfferFirst(chan', c) /\ ~Unheard(c)' /\ ~Unsent(c)'
      BY <1>6, <2>1, <2>4, <3>1, <3>2, <3>3 DEF Unheard, Unsent, In
    <3>5. ~Rings(c)'
      BY <1>4, <3>1, <3>2, <3>3 DEF Rings, In
    <3>6. Once(c)'
      BY <1>2, <2>1, <3>1, <3>2, <3>4, <3>5 DEF Once, Owed, In
    <3>7. Told(c)'
      <4>1. Gone(c)' <=> Gone(c)
        BY <1>2, <3>1 DEF Gone, LeftBy, Upset
      <4> QED BY <1>4, <2>1, <2>2, <2>e, <3>1, <3>2, <3>4, <4>1 DEF Told, Owed, Unheard
    <3>8. (Trouble \/ Logged(c))'
      BY <1>3, <1>4, <2>1, <2>2, <3>1, <3>2, <3>4 DEF Owed, Logged, Kept, In
    <3> QED BY <3>6, <3>7, <3>8 DEF Owed
  <2> QED BY <2>1, <2>3, <2>4
<1>8. \A e \in Ids : e # c => Alike(d, phone[d], q, e) /\ LinesKeep(e)
  BY <1>5, <1>6
<1>9. LuckKeeps
  BY <1>2, LuckStill
<1>10. q.locking = phone[d].locking
  BY <1>4
<1> QED BY <1>1, <1>2, <1>7, <1>8, <1>9, <1>10, Others

-----------------------------------------------------------------------------
(* Leaving a call.                                                         *)

\* The phone d leaves the call c and becomes q, with this row unless another was there.  Its
\* caller leaves no offer and no ringing behind without an end, and an end its callee takes
\* leaves no offer behind it.
Leaves(d, q, c, row) ==
    /\ phone' = [phone EXCEPT ![d] = q] /\ phone[d].call.id = c /\ q.call.id # c /\ LuckKeeps
    /\ c \in q.talked <=> c \in phone[d].talked
    /\ c \in q.placed <=> c \in phone[d].placed
    /\ c \in q.asking => c \in phone[d].asking
    /\ q.locking.id = c => phone[d].locking.id = c
    /\ q.rows[c] = row \/ Trouble
    /\ ~Trouble /\ phone[d].status \in Talking => row = CompletedRow(d, phone[d])
    /\ \A y \in {Caller(c), Callee(c)} : \A u :
          Holds(chan', y, c, u) => Holds(chan, y, c, u) \/ (y = d /\ u \in Reasons)
    /\ OfferFirst(chan', c)
    /\ d = Caller(c) /\ ~Beaten(c) /\ LeftBy(q, c)
          /\ (Holds(chan', d, c, "offer") \/ (In(Callee(c), c) /\ phone[Callee(c)].locking.id # c))
       => Ends(chan', d, c)
    /\ d = Callee(c) /\ Ends(chan, Caller(c), c) /\ Holds(chan', Caller(c), c, "offer")
       => Ends(chan', Caller(c), c)

LEMMA Left ==
    ASSUME Inv, AllOwed, NEW d \in Phone, NEW q, NEW c \in Ids, NEW row, Leaves(d, q, c, row)
    PROVE  Owed(c)'
<1> USE DEF Leaves
<1> PICK p : p = phone[d]
  OBVIOUS
<1>1. /\ Owed(c) /\ Caller(c) # Callee(c) /\ Caller(c) \in Phone /\ Callee(c) \in Phone /\ d \in {Caller(c), Callee(c)}
  BY Parties, Current, Plans DEF AllOwed
<1>2. (Beaten(c)' <=> Beaten(c)) /\ (Trouble' <=> Trouble)
  BY DEF Beaten, Trouble, LuckKeeps
<1>u. Upset' <=> Upset
  BY DEF Upset, LuckKeeps
<1>3. CASE d = Caller(c)
  <2> PICK b : b = phone[Callee(c)]
    OBVIOUS
  <2>1. phone'[Callee(c)] = b /\ phone'[Caller(c)] = q /\ phone[Caller(c)] = p
    BY <1>1, <1>3 DEF Inv
  <2>2. In(Caller(c), c) /\ ~In(Caller(c), c)' /\ c \in p.placed /\ c \in q.placed
    BY <1>1, <1>3, <2>1 DEF Owed, Once, In
  <2>3. ~Unsent(c)' /\ (Unheard(c)' => Unheard(c))
    BY <1>1, <1>3, <2>1, <2>2 DEF Unsent, Unheard, Reasons
  <2>4. Quiet(chan, Callee(c), c) => Quiet(chan', Callee(c), c)
    BY <1>1, <1>3 DEF Quiet
  <2>5. (Rings(c)' <=> Rings(c)) /\ (In(Callee(c), c)' <=> In(Callee(c), c)) /\ (Unanswered(c)' <=> Unanswered(c))
    BY <2>1 DEF Rings, In, Unanswered
  <2>6. \A u : Holds(chan', Callee(c), c, u) => Holds(chan, Callee(c), c, u)
    BY <1>1, <1>3
  <2>7. Once(c)'
    BY <1>1, <2>1, <2>2, <2>3, <2>4, <2>5, <2>6 DEF Once, Owed, LuckKeeps
  <2>8. Told(c)'
    <3>1. Ends(chan', Callee(c), c) => Ends(chan, Callee(c), c)
      BY <2>6 DEF Ends
    <3>2. Told(c)
      BY <1>1 DEF Owed
    <3>3. Gone(c)' <=> LeftBy(q, c)
      BY <1>u, <2>1 DEF Gone, LeftBy
    <3> QED BY <1>2, <1>3, <2>1, <2>5, <3>1, <3>2, <3>3 DEF Told
  <2>9. (Trouble \/ Logged(c))'
    <3>1. SUFFICES ASSUME ~Trouble, Logged(c) PROVE Logged(c)'
      BY <1>1, <1>2 DEF Owed
    <3>2. Kept(Caller(c), c)'
      <4>1. CompletedRow(d, p) = "outgoing"
        BY <1>3, Plans DEF CompletedRow, Outgoing, InCall
      <4>2. c \in p.talked => p.status \in Talking
        BY <2>1, <2>2, <3>1 DEF Logged, Kept
      <4> QED BY <2>1, <2>2, <3>1, <4>1, <4>2 DEF Kept
    <3>3. Kept(Callee(c), c)'
      BY <1>1, <2>1, <2>5, <3>1 DEF Logged, Kept
    <3> QED BY <2>1, <2>2, <2>3, <2>5, <3>1, <3>2, <3>3 DEF Logged
  <2> QED BY <2>7, <2>8, <2>9 DEF Owed
<1>4. CASE d = Callee(c)
  <2> PICK a : a = phone[Caller(c)]
    OBVIOUS
  <2>1. phone'[Caller(c)] = a /\ phone'[Callee(c)] = q /\ phone[Callee(c)] = p
    BY <1>1, <1>4 DEF Inv
  <2>2. In(Callee(c), c) /\ ~In(Callee(c), c)' /\ ~Unheard(c)
    BY <1>1, <1>4, <2>1 DEF Owed, Once, In
  <2>3. ~Unsent(c)' /\ ~Unheard(c)' /\ ~Rings(c)' /\ ~Unanswered(c)' /\ (In(Caller(c), c)' <=> In(Caller(c), c))
    BY <1>1, <1>4, <2>1, <2>2 DEF Unsent, Unheard, Rings, Unanswered, In
  <2>4. Once(c)'
    BY <1>1, <2>1, <2>2, <2>3 DEF Once, Owed, LuckKeeps
  <2>5. Told(c)'
    BY <2>2, <2>3 DEF Told, Unheard
  <2>6. (Trouble \/ Logged(c))'
    <3>1. SUFFICES ASSUME ~Trouble, Logged(c) PROVE Logged(c)'
      BY <1>1, <1>2 DEF Owed
    <3>2. Kept(Callee(c), c)'
      <4>1. CompletedRow(d, p) = "incoming"
        BY <1>1, <1>4 DEF CompletedRow, Outgoing
      <4>2. c \in p.talked => p.status \in Talking
        BY <2>1, <2>2, <3>1 DEF Logged, Kept
      <4> QED BY <1>1, <2>1, <2>2, <3>1, <4>1, <4>2 DEF Kept
    <3>3. Kept(Caller(c), c)'
      BY <1>1, <2>1, <2>3, <3>1 DEF Logged, Kept
    <3> QED BY <2>1, <2>2, <2>3, <3>1, <3>2, <3>3 DEF Logged
  <2> QED BY <2>4, <2>5, <2>6 DEF Owed
<1> QED BY <1>1, <1>3, <1>4

LEMMA FinishOwes ==
    ASSUME Inv, AllOwed, NEW d \in Phone, NEW row \in Rows, NEW c \in Ids, phone[d].call.id = c,
           phone' = [phone EXCEPT ![d] = Finish(@, row)], LuckKeeps,
           ~Trouble /\ phone[d].status \in Talking => row = CompletedRow(d, phone[d]),
           \A e \in Ids : e # c => LinesKeep(e),
           \A y \in {Caller(c), Callee(c)} : \A u :
              Holds(chan', y, c, u) => Holds(chan, y, c, u) \/ (y = d /\ u \in Reasons),
           OfferFirst(chan', c),
           d = Caller(c) /\ (Holds(chan', d, c, "offer") \/ (In(Callee(c), c) /\ phone[Callee(c)].locking.id # c))
              => Ends(chan', d, c),
           d = Callee(c) /\ Ends(chan, Caller(c), c) /\ Holds(chan', Caller(c), c, "offer")
              => Ends(chan', Caller(c), c)
    PROVE  AllOwed'
<1> PICK p : p = phone[d]
  OBVIOUS
<1>q. PICK q : q = Finish(p, row)
  OBVIOUS
<1>1. p \in Phones /\ c # 0 /\ d \in {Caller(c), Callee(c)} /\ phone' = [phone EXCEPT ![d] = q]
  BY <1>q, Current, Plans, Parties
<1>2. /\ q.call = NoCall
      /\ \A x \in Ids : q.rows[x] = IF x = c /\ p.rows[x] = "none" THEN row ELSE p.rows[x]
      /\ q.talked = p.talked /\ q.placed = p.placed /\ q.asking = p.asking /\ q.locking = p.locking
      /\ q.recent = p.recent \cup {c}
  BY <1>q, <1>1, FinishIs
<1>3. q.call.id = 0 /\ \A e \in Ids : q.call.id # e
  BY <1>2, Plans DEF NoCall
<1>4. ASSUME NEW e \in Ids, e # c PROVE Alike(d, p, q, e)
  BY <1>2, <1>3, <1>4 DEF Alike
<1>5. q.rows[c] = row \/ Trouble
  <2>1. Trouble \/ Logged(c)
    BY DEF AllOwed, Owed
  <2>2. Logged(c) => p.rows[c] = "none"
    BY <1>1 DEF Logged, In
  <2> QED BY <1>2, <2>1, <2>2
<1>6. Owed(c)'
  <2>1. /\ c \in q.talked <=> c \in phone[d].talked
        /\ c \in q.placed <=> c \in phone[d].placed
        /\ c \notin q.asking \/ c \in phone[d].asking
        /\ q.locking.id = c => phone[d].locking.id = c
    BY <1>2
  <2> HIDE DEF Finish
  <2>2. Leaves(d, q, c, row)
    BY <1>1, <1>3, <1>5, <2>1 DEF Leaves
  <2> QED BY <2>2, Left
<1>7. \A e \in Ids : e # c => Alike(d, phone[d], q, e) /\ LinesKeep(e)
  BY <1>4
<1>8. (Holding(q, c) => Holding(phone[d], c)) /\ (q.locking.id = c => phone[d].locking.id = c)
  <2> HIDE DEF Finish
  <2> QED BY <1>2 DEF Holding
<1> QED BY <1>1, <1>6, <1>7, <1>8, Others

\* The current call ends at this phone; only a call that has not signaled ends silently at its caller.
LEMMA EndOwes ==
    ASSUME Inv, AllOwed, NEW d \in Phone, phone[d].call.id # 0, NEW row \in Rows, LuckKeeps,
           ~Trouble /\ phone[d].status \in Talking => row = CompletedRow(d, phone[d]),
           \/ EndSilently(d, row) /\ (d = Caller(phone[d].call.id) => Unsent(phone[d].call.id))
           \/ \E reason \in Reasons : EndWith(d, reason, row)
    PROVE  AllOwed'
<1>c. PICK c : c = phone[d].call.id
  OBVIOUS
<1>1. /\ phone' = [phone EXCEPT ![d] = Finish(@, row)] /\ c \in Ids /\ Party(d, c) /\ d \in {Caller(c), Callee(c)}
      /\ Caller(c) # Callee(c)
  BY <1>c, Current, Parties DEF EndSilently, EndWith
<1>2. Once(c)
  BY <1>1 DEF AllOwed, Owed
<1>3. CASE EndSilently(d, row) /\ (d = Caller(c) => Unsent(c))
  <2>1. chan' = chan
    BY <1>3 DEF EndSilently
  <2>2. d = Caller(c) => ~Holds(chan, d, c, "offer") /\ ~In(Callee(c), c)
    BY <1>2, <1>3, Quieter DEF Once, Unheard
  <2>3. OfferFirst(chan, c)
    BY <1>2 DEF Once
  <2> QED BY <1>c, <1>1, <2>1, <2>2, <2>3, LinesStill, FinishOwes
<1>4. ASSUME NEW reason \in Reasons, EndWith(d, reason, row) PROVE AllOwed'
  <2>1. chan' = Post(chan, d, c, reason) /\ reason \in Kinds /\ reason # "offer"
    BY <1>c, <1>4 DEF EndWith, Kinds, Reasons
  <2>2. /\ \A e \in Ids : e # c => LinesKeep(e)
        /\ \A y \in {Caller(c), Callee(c)} : \A u :
              Holds(chan', y, c, u) <=> Holds(chan, y, c, u) \/ (y = d /\ u = reason)
        /\ OfferFirst(chan, c) => OfferFirst(chan', c)
    BY <1>1, <2>1, PostKeeps
  <2>3. OfferFirst(chan', c)
    BY <1>2, <2>2 DEF Once
  <2>4. Ends(chan', d, c)
    BY <1>1, <1>4, <2>2 DEF Ends
  <2>5. d = Callee(c) /\ Ends(chan, Caller(c), c) => Ends(chan', Caller(c), c)
    BY <2>2 DEF Ends
  <2>6. \A y \in {Caller(c), Callee(c)} : \A u :
              Holds(chan', y, c, u) => Holds(chan, y, c, u) \/ (y = d /\ u \in Reasons)
    BY <1>4, <2>2
  <2> QED BY <1>c, <1>1, <2>2, <2>3, <2>4, <2>5, <2>6, FinishOwes
<1> QED BY <1>c, <1>3, <1>4

\* A call that talks is past its setting up: its callee has handed over the answer.
LEMMA TalkingIsSet ==
    ASSUME Inv, AllOwed, ~Trouble, NEW d \in Phone, phone[d].status \in Talking
    PROVE  phone[d].call.stage \notin {"turn", "engine"}
<1> PICK c : c = phone[d].call.id
  OBVIOUS
<1>1. /\ c # 0 /\ c \in Ids /\ d \in {Caller(c), Callee(c)} /\ Coherent(d, phone[d])
  BY Current, Parties DEF Talking, AtRest
<1>2. Logged(c)
  BY <1>1 DEF AllOwed, Owed
<1>3. CASE d = Caller(c)
  BY <1>1, <1>3 DEF Coherent, Outgoing, InCall, Begun, Talking
<1>4. CASE d = Callee(c)
  BY <1>1, <1>2, <1>4 DEF Logged, Unanswered, In
<1> QED BY <1>1, <1>3, <1>4

LEMMA MediaFailsOwes == ASSUME Inv, AllOwed, NEW d \in Phone, MediaFails(d) PROVE AllOwed'
<1> PICK p : p = phone[d]
  OBVIOUS
<1>1. /\ LuckKeeps /\ p.call.id # 0 /\ p.call.id \in Ids /\ p.call.stage \in {"turn", "engine"}
  BY LuckStill, Current DEF MediaFails
<1>2. ~Trouble => p.status \notin Talking
  BY <1>1, TalkingIsSet
<1>3. "none" \in Rows /\ "missed" \in Rows /\ "error" \in Reasons
  BY DEF Rows, Reasons
<1>4. CASE Outgoing(d, p)
  <2>1. EndSilently(d, "none")
    BY <1>4 DEF MediaFails
  <2>2. d = Caller(p.call.id) => Unsent(p.call.id)
    BY <1>1 DEF Unsent, In
  <2> QED BY <1>1, <1>2, <1>3, <2>1, <2>2, EndOwes
<1>5. CASE ~Outgoing(d, p)
  <2>1. EndWith(d, "error", "missed")
    BY <1>5 DEF MediaFails
  <2> QED BY <1>1, <1>2, <1>3, <2>1, EndOwes
<1> QED BY <1>4, <1>5

LEMMA AckTimesOutOwes == ASSUME Inv, AllOwed, NEW d \in Phone, AckTimesOut(d) PROVE AllOwed'
<1>1. LuckKeeps /\ phone[d].call.id # 0 /\ Trouble
  BY LuckStill, Current DEF AckTimesOut, Trouble, Spend
<1>2. "none" \in Rows /\ "missed" \in Rows /\ "error" \in Reasons /\ "hangup" \in Reasons
  BY DEF Rows, Reasons
<1>3. \E row \in Rows : \E reason \in Reasons : EndWith(d, reason, row)
  BY <1>2 DEF AckTimesOut
<1> QED BY <1>1, <1>3, EndOwes

LEMMA HangUpOwes == ASSUME Inv, AllOwed, NEW d \in Phone, HangUp(d) PROVE AllOwed'
<1> PICK p : p = phone[d]
  OBVIOUS
<1>1. LuckKeeps /\ p.call.id # 0 /\ p.call.id \in Ids /\ Coherent(d, p) /\ p.status \notin {"idle", "ending"}
  BY LuckStill, Current DEF HangUp, InCall
<1>2. "none" \in Rows /\ HangUpRow(d, p) \in Rows /\ HangUpReason(p) \in Reasons
  BY RowsOfHangUp DEF Rows
<1>3. CASE Silent(p)
  <2>1. EndSilently(d, "none") /\ p.status = "starting" /\ p.call.stage \notin {"sending", "done"}
    BY <1>3 DEF HangUp, Silent, OfferSendStarted
  <2>2. Unsent(p.call.id)
    BY <1>1, <2>1 DEF Coherent, Begun, Outgoing, Unsent, In
  <2> QED BY <1>1, <1>2, <2>1, <2>2, EndOwes DEF Talking
<1>4. CASE ~Silent(p)
  <2>1. EndWith(d, HangUpReason(p), HangUpRow(d, p))
    BY <1>4 DEF HangUp
  <2>2. p.status \in Talking => HangUpRow(d, p) = CompletedRow(d, p)
    BY DEF HangUpRow, Talking
  <2> QED BY <1>1, <1>2, <2>1, <2>2, EndOwes
<1> QED BY <1>3, <1>4

LEMMA TimeoutOwes ==
    ASSUME Inv, AllOwed, NEW d \in Phone, RingTimeout(d) \/ ConnectTimeout(d) \/ GraceTimeout(d)
    PROVE  AllOwed'
<1> PICK p : p = phone[d]
  OBVIOUS
<1>1. LuckKeeps /\ luck' = luck
  BY LuckStill DEF RingTimeout, ConnectTimeout, GraceTimeout
<1>2. /\ {"missed", "missed-unread", CompletedRow(d, p)} \subseteq Rows
      /\ {"timeout", "error"} \subseteq Reasons
  BY DEF Rows, Reasons, CompletedRow
<1>3. p.status \notin AtRest => p.call.id # 0 /\ p.call.id \in Ids /\ Coherent(d, p)
  BY Current
<1>4. CASE RingTimeout(d)
  <2>1. CASE p.status = "outgoing-ringing"
    <3>1. EndWith(d, "timeout", "missed")
      BY <1>4, <2>1 DEF RingTimeout
    <3> QED BY <1>1, <1>2, <1>3, <2>1, <3>1, EndOwes DEF AtRest, Talking
  <2>2. CASE p.status = "incoming-ringing"
    <3>1. EndSilently(d, "missed-unread")
      BY <1>4, <2>2 DEF RingTimeout
    <3>2. d # Caller(p.call.id) /\ p.call.id # 0
      BY <1>3, <2>2 DEF Coherent, Outgoing, InCall, AtRest
    <3> QED BY <1>1, <1>2, <2>2, <3>1, <3>2, EndOwes DEF Talking
  <2>3. CASE p.status \notin {"outgoing-ringing", "incoming-ringing"}
    <3>1. phone' = [phone EXCEPT ![d].timers = @ \ {"ring"}] /\ UNCHANGED <<chan, luck>>
      BY <1>4, <2>3 DEF RingTimeout
    <3> QED BY <3>1, TimerOwes
  <2> QED BY <2>1, <2>2, <2>3
<1>5. CASE ConnectTimeout(d)
  <2>1. CASE p.status = "connecting"
    <3>1. EndWith(d, "error", "missed")
      BY <1>5, <2>1 DEF ConnectTimeout
    <3> QED BY <1>1, <1>2, <1>3, <2>1, <3>1, EndOwes DEF AtRest, Talking
  <2>2. CASE p.status # "connecting"
    <3>1. phone' = [phone EXCEPT ![d].timers = @ \ {"connect"}] /\ UNCHANGED <<chan, luck>>
      BY <1>5, <2>2 DEF ConnectTimeout
    <3> QED BY <3>1, TimerOwes
  <2> QED BY <2>1, <2>2
<1>6. CASE GraceTimeout(d)
  <2>1. CASE p.status = "reconnecting"
    <3>1. EndWith(d, "error", CompletedRow(d, p))
      BY <1>6, <2>1 DEF GraceTimeout
    <3> QED BY <1>1, <1>2, <1>3, <2>1, <3>1, EndOwes DEF AtRest
  <2>2. CASE p.status # "reconnecting"
    <3>1. phone' = [phone EXCEPT ![d].timers = @ \ {"disconnect"}] /\ UNCHANGED <<chan, luck>>
      BY <1>6, <2>2 DEF GraceTimeout
    <3> QED BY <3>1, TimerOwes
  <2> QED BY <2>1, <2>2
<1> QED BY <1>4, <1>5, <1>6

LEMMA IceFailedOwes == ASSUME Inv, AllOwed, NEW d \in Phone, IceFailed(d) PROVE AllOwed'
<1> PICK p : p = phone[d]
  OBVIOUS
<1>1. LuckKeeps /\ p.call.id # 0 /\ p.status \in {"connecting", "active", "reconnecting"}
  BY LuckStill, Current DEF IceFailed, AtRest
<1> PICK row : row = IF p.status = "connecting" THEN "missed" ELSE CompletedRow(d, p)
  OBVIOUS
<1>2. row \in Rows /\ "error" \in Reasons
  BY DEF Rows, Reasons, CompletedRow
<1>3. EndWith(d, "error", row)
  BY DEF IceFailed
<1>4. p.status \in Talking => row = CompletedRow(d, p)
  BY DEF Talking
<1> QED BY <1>1, <1>2, <1>3, <1>4, EndOwes

-----------------------------------------------------------------------------
(* The end marker of a call.                                               *)

\* It meets its call.
LEMMA EndMeetsOwes ==
    ASSUME Inv, AllOwed, NEW s \in Phone, NEW d \in Phone, HandleEnd(s, d),
           Head(chan[s][d]).id = phone[d].call.id, phone[d].status # "starting"
    PROVE  AllOwed'
<1>m. PICK m : m = Head(chan[s][d])
  OBVIOUS
<1>c. PICK c : c = m.id
  OBVIOUS
<1>r. PICK row : row = EndRow(d, phone[d], m.t)
  OBVIOUS
<1>1. Take(s, d) /\ chan' = Rest(s, d) /\ LuckKeeps /\ IsEnd(m)
  BY <1>m, LuckStill DEF HandleEnd, Take
<1>2. /\ c \in Ids /\ m.t \in Reasons /\ Party(s, c) /\ Party(d, c) /\ s # d /\ Holds(chan, s, c, m.t)
      /\ \A y \in {Caller(c), Callee(c)} : \A u : Holds(chan', y, c, u) => Holds(chan, y, c, u)
      /\ OfferFirst(chan, c) => OfferFirst(chan', c)
  BY <1>m, <1>c, <1>1, RestKeeps DEF IsEnd
<1>3. /\ phone[d].call.id = c /\ Owed(c) /\ Caller(c) # Callee(c)
      /\ d \in {Caller(c), Callee(c)} /\ s \in {Caller(c), Callee(c)}
  BY <1>m, <1>c, <1>2, Parties DEF AllOwed
<1>4. phone' = [phone EXCEPT ![d] = Finish(@, row)]
  BY <1>m, <1>r, <1>3, Current, Plans DEF HandleEnd
<1>5. row \in Rows /\ (phone[d].status \in Talking => row = CompletedRow(d, phone[d]))
  BY <1>r, RowsOfEnd DEF EndRow, Talking
<1>6. \A e \in Ids : e # c => LinesKeep(e)
  BY <1>m, <1>c, <1>1, FrameKeeps
<1>7. OfferFirst(chan', c) /\ Ends(chan, s, c) /\ ~Quiet(chan, s, c)
  BY <1>2, <1>3 DEF Owed, Once, Ends, Quiet, Kinds
<1>8. CASE d = Caller(c)
  <2>1. s = Callee(c)
    BY <1>2, <1>3, <1>8
  <2>2. ~Unheard(c)
    BY <1>3, <1>7, <2>1 DEF Owed, Once
  <2>3. ~Holds(chan', d, c, "offer")
    BY <1>2, <1>8, <2>2 DEF Unheard
  <2>4. In(Callee(c), c) => phone[Callee(c)].locking.id = c
    BY <1>3, <1>7, <2>1 DEF Owed, Told
  <2> QED BY <1>1, <1>2, <1>3, <1>4, <1>5, <1>6, <1>7, <1>8, <2>3, <2>4, FinishOwes
<1>9. CASE d = Callee(c)
  <2>1. ~Unheard(c)
    BY <1>3, <1>9 DEF Owed, Once, In
  <2>2. ~Holds(chan', Caller(c), c, "offer")
    BY <1>2, <2>1 DEF Unheard
  <2> QED BY <1>1, <1>2, <1>3, <1>4, <1>5, <1>6, <1>7, <1>9, <2>2, FinishOwes
<1> QED BY <1>3, <1>8, <1>9

\* It meets another call, none, or an attempt that has not heard of it.
EndPassed(s, d, q, c) ==
    /\ Take(s, d) /\ IsEnd(Head(chan[s][d])) /\ c = Head(chan[s][d]).id
    /\ chan' = Rest(s, d) /\ phone' = [phone EXCEPT ![d] = q]
    /\ phone[d].call.id = c => phone[d].status = "starting"
    /\ q.status = phone[d].status /\ q.call = phone[d].call /\ q.talked = phone[d].talked
    /\ q.placed = phone[d].placed /\ q.asking = phone[d].asking /\ q.locking = phone[d].locking
    /\ \A e \in Ids : e # c => q.rows[e] = phone[d].rows[e] /\ (e \in q.recent <=> e \in phone[d].recent)
    /\ q.rows[c] = phone[d].rows[c] \/ (phone[d].rows[c] = "none" /\ phone[d].call.id # c)

LEMMA EndPasses ==
    ASSUME Inv, AllOwed, NEW s \in Phone, NEW d \in Phone, NEW q, NEW c, EndPassed(s, d, q, c)
    PROVE  AllOwed'
<1> USE DEF EndPassed
<1>m. PICK m : m = Head(chan[s][d])
  OBVIOUS
<1>p. PICK p : p = phone[d]
  OBVIOUS
<1>1. LuckKeeps
  BY LuckStill DEF Take
<1>2. /\ c \in Ids /\ m.t \in Reasons /\ Party(s, c) /\ Party(d, c) /\ s # d /\ Holds(chan, s, c, m.t)
      /\ \A y \in {Caller(c), Callee(c)} : \A u :
            /\ Holds(chan', y, c, u) => Holds(chan, y, c, u)
            /\ Holds(chan, y, c, u) => Holds(chan', y, c, u) \/ (y = s /\ u = m.t)
      /\ OfferFirst(chan, c) => OfferFirst(chan', c)
      /\ OfferFirst(chan, c) /\ s = Caller(c) => ~Holds(chan', s, c, "offer")
  <2>1. /\ c \in Ids /\ m.t \in Reasons /\ Party(s, c) /\ Party(d, c) /\ s # d /\ Holds(chan, s, c, m.t)
        /\ OfferFirst(chan, c) => OfferFirst(chan', c)
        /\ OfferFirst(chan, c) /\ s = Caller(c) => ~Holds(chan', s, c, "offer")
    BY <1>m, RestKeeps DEF IsEnd
  <2>2. \A y \in {Caller(c), Callee(c)} :
            /\ \A u : Holds(chan', y, c, u) => Holds(chan, y, c, u)
            /\ \A u : Holds(chan, y, c, u) => Holds(chan', y, c, u) \/ (y = s /\ u = m.t)
    <3>1. \A e \in Ids : \A y \in {Caller(e), Callee(e)} :
            /\ \A u : Holds(Rest(s, d), y, e, u) => Holds(chan, y, e, u)
            /\ \A u : Holds(chan, y, e, u) =>
                  Holds(Rest(s, d), y, e, u) \/ (y = s /\ e = Head(chan[s][d]).id /\ u = Head(chan[s][d]).t)
      BY RestKeeps
    <3>0. chan' = Rest(s, d)
      OBVIOUS
    <3> HIDE DEF EndPassed
    <3>2. ASSUME NEW y \in {Caller(c), Callee(c)}
          PROVE  /\ \A u : Holds(Rest(s, d), y, c, u) => Holds(chan, y, c, u)
                 /\ \A u : Holds(chan, y, c, u) => Holds(Rest(s, d), y, c, u) \/ (y = s /\ u = m.t)
      BY <1>m, <2>1, <3>1
    <3> QED BY <3>0, <3>2
  <2> QED BY <2>1, <2>2
<1>3. /\ Owed(c) /\ Caller(c) # Callee(c) /\ Caller(c) \in Phone /\ Callee(c) \in Phone
      /\ d \in {Caller(c), Callee(c)} /\ s \in {Caller(c), Callee(c)}
  BY <1>2, Parties DEF AllOwed
<1>4. \A e \in Ids : e # c => LinesKeep(e)
  BY <1>m, FrameKeeps
<1>5. \A e \in Ids : e # c => Alike(d, phone[d], q, e)
  BY DEF Alike
<1>6. OfferFirst(chan', c) /\ Ends(chan, s, c) /\ ~Quiet(chan, s, c)
  BY <1>2, <1>3 DEF Owed, Once, Ends, Quiet, Kinds
<1>7. (Beaten(c)' <=> Beaten(c)) /\ (Trouble' <=> Trouble)
  BY <1>1 DEF Beaten, Trouble, LuckKeeps
<1>8. phone'[d] = q /\ \A y \in Phone : y # d => phone'[y] = phone[y]
  BY Unmoved
<1>9. \A y \in {Caller(c), Callee(c)} :
         /\ In(y, c)' <=> In(y, c)
         /\ phone'[y].status = phone[y].status /\ phone'[y].call = phone[y].call
         /\ phone'[y].talked = phone[y].talked /\ phone'[y].placed = phone[y].placed
         /\ phone'[y].asking = phone[y].asking /\ phone'[y].locking = phone[y].locking
  BY <1>3, <1>8 DEF In
<1>10. /\ Unsent(c)' <=> Unsent(c)
       /\ Unheard(c)' => Unheard(c)
       /\ Unanswered(c)' <=> Unanswered(c)
       /\ Rings(c)' <=> Rings(c)
  BY <1>2, <1>9 DEF Unsent, Unheard, Unanswered, Rings, In
<1>11. ~Unsent(c)
  BY <1>3, <1>6 DEF Owed, Once, Unheard
<1>12. \A y \in {Caller(c), Callee(c)} : Quiet(chan, y, c) => Quiet(chan', y, c)
  BY <1>2 DEF Quiet
<1>13. Once(c)'
  <2>1. Once(c)
    BY <1>3 DEF Owed
  <2> QED BY <1>1, <1>2, <1>3, <1>6, <1>9, <1>10, <1>11, <1>12, <2>1 DEF Once, LuckKeeps
<1>14. Told(c)'
  <2>0. Told(c)
    BY <1>3 DEF Owed
  <2>1. Ends(chan', Callee(c), c) => Ends(chan, Callee(c), c)
    BY <1>2 DEF Ends
  <2>2. CASE d = Caller(c)
    <3>1. s = Callee(c)
      BY <1>2, <1>3, <2>2
    <3>2. ~Holds(chan', Caller(c), c, "offer")
      BY <1>2, <1>3, <1>6, <3>1 DEF Owed, Once, Unheard
    <3>3. In(Callee(c), c) => phone[Callee(c)].locking.id = c
      BY <1>6, <2>0, <3>1 DEF Told
    <3> QED BY <1>9, <1>10, <2>0, <2>1, <3>2, <3>3 DEF Told
  <2>3. CASE d = Callee(c)
    <3>1. s = Caller(c)
      BY <1>2, <1>3, <2>3
    <3>2. ~Holds(chan', Caller(c), c, "offer")
      BY <1>2, <1>3, <3>1 DEF Owed, Once
    <3>3. ~In(Callee(c), c)
      <4>1. Coherent(d, p)
        BY <1>p, Current
      <4> QED BY <1>p, <1>3, <2>3, <4>1 DEF In, Coherent, Outgoing
    <3> QED BY <1>9, <1>10, <2>0, <2>1, <3>2, <3>3 DEF Told
  <2> QED BY <1>3, <2>2, <2>3
<1>15. (Trouble \/ Logged(c))'
  <2>1. SUFFICES ASSUME Logged(c) PROVE Logged(c)'
    BY <1>3, <1>7 DEF Owed
  <2>a. Coherent(d, p) /\ (p.call.id = c => Caller(c) = d)
    BY <1>p, Current DEF Coherent, Outgoing
  <2>2. CASE d = Caller(c)
    <3>1. phone'[Callee(c)] = phone[Callee(c)] /\ phone'[Caller(c)] = q
      BY <1>3, <1>8, <2>2
    <3>2. (c \notin q.placed \/ In(Caller(c), c)') => q.rows[c] = "none"
      <4>1. c \in q.placed
        BY <1>11, <2>2 DEF Unsent
      <4>2. In(Caller(c), c)' => q.rows[c] = phone[d].rows[c] /\ In(Caller(c), c)
        BY <1>3, <1>9, <2>2 DEF In
      <4>3. In(Caller(c), c) => phone[d].rows[c] = "none"
        BY <2>1, <2>2 DEF Logged
      <4> QED BY <4>1, <4>2, <4>3
    <3>3. Kept(Caller(c), c)'
      <4>1. CASE In(Caller(c), c)
        BY <1>9, <2>1, <4>1 DEF Logged, Kept
      <4>2. CASE ~In(Caller(c), c)
        <5>1. c \in q.talked => phone[d].rows[c] = "outgoing"
          BY <2>1, <2>2, <4>2 DEF Logged, Kept
        <5>2. c \in q.talked => q.rows[c] = "outgoing"
          BY <5>1
        <5> QED BY <1>9, <2>2, <3>1, <4>2, <5>2 DEF Kept
      <4> QED BY <4>1, <4>2
    <3>4. Kept(Callee(c), c)'
      BY <1>9, <2>1, <3>1 DEF Logged, Kept
    <3> QED BY <1>9, <1>10, <2>1, <3>1, <3>2, <3>3, <3>4 DEF Logged
  <2>3. CASE d = Callee(c)
    <3>1. phone'[Caller(c)] = phone[Caller(c)] /\ phone'[Callee(c)] = q /\ s = Caller(c)
      BY <1>2, <1>3, <1>8, <2>3
    <3>2. ~Unheard(c)' /\ ~In(Callee(c), c)'
      BY <1>2, <1>3, <1>9, <1>10, <1>11, <1>p, <2>3, <2>a, <3>1 DEF Unheard, Owed, Once, In
    <3>3. Kept(Callee(c), c)'
      <4>1. ~In(Callee(c), c)
        BY <1>9, <3>2, <1>3
      <4>2. c \in q.talked => q.rows[c] = "incoming"
        BY <1>3, <2>1, <2>3, <4>1 DEF Logged, Kept
      <4> QED BY <1>3, <3>1, <3>2, <4>2 DEF Kept
    <3>4. Kept(Caller(c), c)'
      BY <1>9, <2>1, <3>1 DEF Logged, Kept
    <3> QED BY <1>9, <1>10, <2>1, <3>1, <3>2, <3>3, <3>4 DEF Logged
  <2> QED BY <1>3, <2>2, <2>3
<1>16. Owed(c)'
  BY <1>13, <1>14, <1>15 DEF Owed
<1> QED BY <1>1, <1>2, <1>4, <1>5, <1>16, Others

LEMMA EndOfCallOwes == ASSUME Inv, AllOwed, NEW s \in Phone, NEW d \in Phone, HandleEnd(s, d) PROVE AllOwed'
<1>m. PICK m : m = Head(chan[s][d])
  OBVIOUS
<1>p. PICK p : p = phone[d]
  OBVIOUS
<1>rem. PICK rem : rem = [p EXCEPT !.recent = @ \cup {m.id}]
  OBVIOUS
<1>1. Take(s, d) /\ IsEnd(m) /\ chan' = Rest(s, d) /\ m.id \in Ids /\ p \in Phones
  BY <1>m, <1>p, Current, Taken DEF HandleEnd
<1>2. /\ rem \in Phones /\ rem.status = p.status /\ rem.call = p.call /\ rem.asking = p.asking /\ rem.rows = p.rows
      /\ rem.talked = p.talked /\ rem.placed = p.placed /\ rem.locking = p.locking
      /\ rem.recent = p.recent \cup {m.id}
  BY <1>rem, <1>1, RememberedIs
<1>n. PICK noted : noted = WriteRow(rem, m.id, "missed-unread")
  OBVIOUS
<1>w. rem \in Phones /\ m.id \in Ids /\ "missed-unread" \in Rows
  BY <1>1, <1>2 DEF Rows
<1>3. /\ noted.status = p.status /\ noted.call = p.call /\ noted.asking = p.asking
      /\ noted.talked = p.talked /\ noted.placed = p.placed /\ noted.locking = p.locking
      /\ noted.recent = p.recent \cup {m.id}
  BY <1>n, <1>w, <1>2, WrittenIs
<1>4. \A x \in Ids : noted.rows[x] = IF x = m.id /\ p.rows[x] = "none" THEN "missed-unread" ELSE p.rows[x]
  BY <1>n, <1>w, <1>2, WriteRowIs
<1>5. CASE m.id = p.call.id /\ p.status # "starting"
  BY <1>m, <1>p, <1>5, EndMeetsOwes
<1>6. CASE UNCHANGED phone /\ (m.id = p.call.id => p.status = "starting")
  <2>1. phone' = [phone EXCEPT ![d] = p]
    BY <1>p, <1>6 DEF Inv
  <2>2. EndPassed(s, d, p, m.id)
    BY <1>m, <1>p, <1>1, <1>6, <2>1 DEF EndPassed
  <2> QED BY <2>2, EndPasses
<1>7. CASE m.id # p.call.id /\ phone' = [phone EXCEPT ![d] = rem]
  <2>1. EndPassed(s, d, rem, m.id)
    BY <1>m, <1>p, <1>1, <1>2, <1>7 DEF EndPassed
  <2> QED BY <2>1, EndPasses
<1>8. CASE m.id # p.call.id /\ phone' = [phone EXCEPT ![d] = noted]
  <2>1. EndPassed(s, d, noted, m.id)
    BY <1>m, <1>p, <1>1, <1>3, <1>4, <1>8 DEF EndPassed
  <2> QED BY <2>1, EndPasses
<1> QED BY <1>m, <1>p, <1>rem, <1>n, <1>5, <1>6, <1>7, <1>8 DEF HandleEnd

-----------------------------------------------------------------------------
(* Answering, and the frames that say so.                                  *)

LEMMA AnswerOwes == ASSUME Inv, AllOwed, NEW d \in Phone, Answer(d) PROVE AllOwed'
<1>p. PICK p : p = phone[d]
  OBVIOUS
<1>c. PICK c : c = p.call.id
  OBVIOUS
<1>q. PICK q : q = Accepting(p)
  OBVIOUS
<1>1. /\ p \in Phones /\ c \in Ids /\ p.status = "incoming-ringing" /\ Party(d, c) /\ Coherent(d, p) /\ c # 0
  BY <1>p, <1>c, Current DEF Answer, AtRest
<1>2. phone' = [phone EXCEPT ![d] = q] /\ chan' = Post(chan, d, c, "accept") /\ luck' = luck
  BY <1>p, <1>c, <1>q DEF Answer
<1>3. /\ q.status = "connecting" /\ q.call.id = c /\ q.call.stage = "turn" /\ q.rows = p.rows /\ q.talked = p.talked
      /\ q.placed = p.placed /\ q.asking = p.asking /\ q.locking = p.locking /\ q.recent = p.recent
  BY <1>c, <1>q, <1>1, AcceptingIs
<1>4. ASSUME NEW e \in Ids, e # c PROVE Alike(d, p, q, e)
  BY <1>c, <1>3, <1>4 DEF Alike
<1>5. /\ \A e \in Ids : e # c => LinesKeep(e)
      /\ \A y \in {Caller(c), Callee(c)} : \A u :
            Holds(chan', y, c, u) <=> Holds(chan, y, c, u) \/ (y = d /\ u = "accept")
      /\ OfferFirst(chan, c) => OfferFirst(chan', c)
  BY <1>1, <1>2, PostKeeps DEF Kinds
<1>6. d = Callee(c) /\ Owed(c) /\ Caller(c) # d /\ Caller(c) \in Phone
  BY <1>1, <1>c, Parties DEF Coherent, Outgoing, InCall, AllOwed
<1>7. phone'[Caller(c)] = phone[Caller(c)] /\ phone'[Callee(c)] = q /\ phone[Callee(c)] = p
  BY <1>p, <1>2, <1>6 DEF Inv
<1>8. In(Callee(c), c) /\ In(Callee(c), c)' /\ Rings(c)
  BY <1>c, <1>1, <1>3, <1>7 DEF In, Rings
<1>9. ~Unheard(c) /\ Unanswered(c) /\ OfferFirst(chan', c)
  BY <1>5, <1>6, <1>8 DEF Owed, Once, Unanswered
<1>10. ~Unheard(c)' /\ ~Unsent(c)' /\ ~Rings(c)'
  BY <1>3, <1>5, <1>6, <1>7, <1>9 DEF Unheard, Unsent, In, Rings
<1>11. ~Holds(chan', Callee(c), c, "answer") /\ (Ends(chan', Callee(c), c) <=> Ends(chan, Callee(c), c))
  BY <1>5, <1>6, <1>9 DEF Owed, Once, Ends, Reasons
<1>12. Once(c)'
  BY <1>2, <1>6, <1>7, <1>9, <1>10, <1>11 DEF Once, Owed, In
<1>13. Told(c)'
  <2>1. Gone(c)' <=> Gone(c)
    BY <1>2, <1>7 DEF Gone, LeftBy, Upset
  <2>2. (Ends(chan', Caller(c), c) <=> Ends(chan, Caller(c), c)) /\ (Beaten(c)' <=> Beaten(c))
    BY <1>2, <1>5, <1>6 DEF Ends, Beaten
  <2> QED BY <1>3, <1>6, <1>7, <1>8, <1>10, <1>11, <2>1, <2>2 DEF Told, Owed, Unheard
<1>14. (Trouble \/ Logged(c))'
  <2>1. Trouble' <=> Trouble
    BY <1>2 DEF Trouble
  <2>2. ASSUME Logged(c) PROVE Logged(c)'
    <3>1. c \notin p.talked
      BY <1>1, <1>7, <1>8, <2>2 DEF Logged, Kept, Talking
    <3>2. Kept(Caller(c), c)' /\ Kept(Callee(c), c)'
      BY <1>3, <1>7, <2>2, <3>1 DEF Logged, Kept, In
    <3> QED BY <1>3, <1>7, <1>8, <1>10, <2>2, <3>2 DEF Logged, Talking, In
  <2> QED BY <1>6, <2>1, <2>2 DEF Owed
<1>15. Owed(c)'
  BY <1>12, <1>13, <1>14 DEF Owed
<1>16. \A e \in Ids : e # c => Alike(d, phone[d], q, e) /\ LinesKeep(e)
  BY <1>p, <1>4, <1>5
<1>17. LuckKeeps
  BY <1>2, LuckStill
<1>18. q.locking = phone[d].locking
  BY <1>p, <1>3
<1> QED BY <1>1, <1>2, <1>15, <1>16, <1>17, <1>18, Others

\* A frame that is no end and at most advances the call.
LEMMA FrameOwes ==
    ASSUME Inv, AllOwed, NEW s \in Phone, NEW d \in Phone, Take(s, d), chan' = Rest(s, d),
           ~IsEnd(Head(chan[s][d])), NEW q, phone' = [phone EXCEPT ![d] = q],
           \A c \in Ids : Alike(d, phone[d], q, c)
    PROVE  AllOwed'
<1>1. LuckKeeps
  BY LuckStill DEF Take
<1>2. \A c \in Ids : LinesKeep(c)
  BY FrameKeeps
<1> QED BY <1>1, <1>2, Advances

LEMMA AcceptedOwes ==
    ASSUME Inv, AllOwed, NEW s \in Phone, NEW d \in Phone, HandleAccepted(s, d)
    PROVE  AllOwed'
<1>m. PICK m : m = Head(chan[s][d])
  OBVIOUS
<1>p. PICK p : p = phone[d]
  OBVIOUS
<1>1. Take(s, d) /\ chan' = Rest(s, d) /\ p \in Phones /\ ~IsEnd(m)
  BY <1>m, <1>p, Current DEF HandleAccepted, IsEnd, Reasons
<1>2. CASE m.id = p.call.id /\ Outgoing(d, p) /\ p.status = "outgoing-ringing"
  <2>t. PICK armed : armed = (p.timers \ {"ring"}) \cup {"connect"}
    OBVIOUS
  <2>q. PICK q : q = [p EXCEPT !.status = "connecting", !.timers = armed]
    OBVIOUS
  <2>1. phone' = [phone EXCEPT ![d] = q]
    BY <1>m, <1>p, <1>2, <2>t, <2>q DEF HandleAccepted, Inv
  <2>2. /\ q.status = "connecting" /\ q.call = p.call /\ q.rows = p.rows /\ q.talked = p.talked
        /\ q.placed = p.placed /\ q.asking = p.asking /\ q.locking = p.locking /\ q.recent = p.recent
    BY <1>1, <2>q DEF Phones
  <2>3. \A c \in Ids : Alike(d, p, q, c)
    BY <1>2, <2>2 DEF Alike, Talking
  <2> QED BY <1>m, <1>p, <1>1, <2>1, <2>3, FrameOwes
<1>3. CASE UNCHANGED phone
  <2>1. phone' = [phone EXCEPT ![d] = p]
    BY <1>p, <1>3 DEF Inv
  <2>2. \A c \in Ids : Alike(d, p, p, c)
    BY DEF Alike
  <2> QED BY <1>m, <1>p, <1>1, <2>1, <2>2, FrameOwes
<1> QED BY <1>m, <1>p, <1>2, <1>3 DEF HandleAccepted

LEMMA AnsweredOwes ==
    ASSUME Inv, AllOwed, NEW s \in Phone, NEW d \in Phone, HandleAnswer(s, d)
    PROVE  AllOwed'
<1>m. PICK m : m = Head(chan[s][d])
  OBVIOUS
<1>p. PICK p : p = phone[d]
  OBVIOUS
<1>1. Take(s, d) /\ chan' = Rest(s, d) /\ p \in Phones /\ p.call \in Calls /\ m.t = "answer" /\ ~IsEnd(m)
  BY <1>m, <1>p, Current DEF HandleAnswer, IsEnd, Reasons
<1>2. CASE /\ m.id = p.call.id /\ Outgoing(d, p)
           /\ p.status \in {"outgoing-ringing", "connecting"}
           /\ phone' = [phone EXCEPT ![d].status = "connecting", ![d].call.answered = TRUE,
                                     ![d].timers = (@ \ {"ring"}) \cup {"connect"}]
  <2>t. PICK armed : armed = (p.timers \ {"ring"}) \cup {"connect"}
    OBVIOUS
  <2>k. PICK k : k = [p.call EXCEPT !.answered = TRUE]
    OBVIOUS
  <2>q. PICK q : q = [p EXCEPT !.status = "connecting", !.call = k, !.timers = armed]
    OBVIOUS
  <2>1. phone' = [phone EXCEPT ![d] = q]
    BY <1>p, <1>1, <1>2, <2>t, <2>k, <2>q DEF Inv, Phones
  <2>2. k.id = p.call.id /\ k.stage = p.call.stage
    BY <1>1, <2>k DEF Calls
  <2>3. /\ q.status = "connecting" /\ q.call = k /\ q.rows = p.rows /\ q.talked = p.talked
        /\ q.placed = p.placed /\ q.asking = p.asking /\ q.locking = p.locking /\ q.recent = p.recent
    BY <1>1, <2>q DEF Phones
  <2>4. m.id \in Ids /\ Party(s, m.id) /\ s # d /\ d = Caller(m.id) /\ Holds(chan, s, m.id, "answer")
    BY <1>m, <1>1, <1>2, RestKeeps DEF Outgoing
  <2>5. s = Callee(m.id) /\ Once(m.id)
    BY <2>4 DEF Party, AllOwed, Owed
  <2>6. ~Unheard(m.id) /\ ~Unanswered(m.id)
    BY <2>4, <2>5, Quieter DEF Once
  <2>7. \A c \in Ids : Alike(d, p, q, c)
    BY <1>2, <2>2, <2>3, <2>6 DEF Alike, Talking
  <2> QED BY <1>m, <1>p, <1>1, <2>1, <2>7, FrameOwes
<1>3. CASE UNCHANGED phone
  <2>1. phone' = [phone EXCEPT ![d] = p]
    BY <1>p, <1>3 DEF Inv
  <2>2. \A c \in Ids : Alike(d, p, p, c)
    BY DEF Alike
  <2> QED BY <1>m, <1>p, <1>1, <2>1, <2>2, FrameOwes
<1> QED BY <1>m, <1>p, <1>2, <1>3 DEF HandleAnswer

-----------------------------------------------------------------------------
(* The offer of a call is taken.                                           *)

\* The lines after d took the offer of c from s and replied with the kinds of T.
Replied(s, d, c, T) ==
    /\ \A e \in Ids : e # c => LinesKeep(e)
    /\ \A y \in {Caller(c), Callee(c)} : \A u :
          Holds(chan', y, c, u) => Holds(chan, y, c, u) \/ (y = d /\ u \in T)
    /\ \A u \in Reasons : Holds(chan, s, c, u) => Holds(chan', s, c, u)
    /\ ~Holds(chan', s, c, "offer") /\ OfferFirst(chan', c)

TakesOffer(s, d, c) == Take(s, d) /\ Head(chan[s][d]).t = "offer" /\ c = Head(chan[s][d]).id

LEMMA OfferIs ==
    ASSUME Inv, AllOwed, NEW s \in Phone, NEW d \in Phone, NEW c, TakesOffer(s, d, c)
    PROVE  /\ c \in Ids /\ s = Caller(c) /\ d = Callee(c) /\ s # d /\ Owed(c)
           /\ Unheard(c) /\ ~Unsent(c) /\ ~In(d, c) /\ Quiet(chan, d, c) /\ c \in luck.calls
           /\ Holds(chan, s, c, "offer") /\ ~Holds(Rest(s, d), s, c, "offer") /\ OfferFirst(chan, c)
<1>1. /\ c \in Ids /\ s = Caller(c) /\ Party(d, c) /\ s # d /\ Holds(chan, s, c, "offer")
      /\ OfferFirst(chan, c) => ~Holds(Rest(s, d), s, c, "offer")
  BY RestKeeps DEF TakesOffer
<1>2. d = Callee(c) /\ Owed(c)
  BY <1>1 DEF Party, AllOwed
<1>3. Unheard(c) /\ ~Unsent(c)
  BY <1>1, <1>2, Quieter DEF Unheard, Owed, Once
<1>4. c \in phone[s].placed
  BY <1>1, <1>3 DEF Unsent
<1> QED BY <1>1, <1>2, <1>3, <1>4 DEF Owed, Once

LEMMA OfferRests ==
    ASSUME Inv, AllOwed, NEW s \in Phone, NEW d \in Phone, NEW c, TakesOffer(s, d, c), chan' = Rest(s, d)
    PROVE  Replied(s, d, c, {})
<1>1. c \in Ids /\ s = Caller(c) /\ ~Holds(Rest(s, d), s, c, "offer") /\ OfferFirst(chan, c) /\ s # d
  BY OfferIs
<1>2. \A e \in Ids : LinesKeep(e)
  BY FrameKeeps DEF IsEnd, Reasons, TakesOffer
<1>3. LinesKeep(c)
  BY <1>1, <1>2
<1> QED BY <1>1, <1>2, <1>3 DEF Replied, LinesKeep

LEMMA Reply ==
    ASSUME NEW ch \in Chans, NEW d \in Phone, NEW c \in Ids, Party(d, c), NEW t \in Kinds, t # "offer",
           NEW e \in Ids, NEW y \in {Caller(e), Callee(e)}
    PROVE  /\ \A u : Holds(Post(ch, d, c, t), y, e, u) <=> Holds(ch, y, e, u) \/ (y = d /\ e = c /\ u = t)
           /\ OfferFirst(ch, e) => OfferFirst(Post(ch, d, c, t), e)
<1>1. Party(y, e)
  BY Parties
<1>2. \A u : Holds(Post(ch, d, c, t), y, e, u) <=> Holds(ch, y, e, u) \/ (y = d /\ e = c /\ u = t)
  BY <1>1, PostHolds
<1>3. OfferFirst(ch, e) => OfferFirst(Post(ch, d, c, t), e)
  BY <1>1, PostHolds
<1> QED BY <1>2, <1>3

LEMMA OfferReplies ==
    ASSUME Inv, AllOwed, NEW s \in Phone, NEW d \in Phone, NEW c, TakesOffer(s, d, c), NEW t \in Kinds, t # "offer", chan' = Post(Rest(s, d), d, c, t)
    PROVE  Replied(s, d, c, {t})
<1>1. /\ c \in Ids /\ s = Caller(c) /\ ~Holds(Rest(s, d), s, c, "offer") /\ OfferFirst(chan, c) /\ s # d
      /\ d = Callee(c)
  BY OfferIs
<1>2. Rest(s, d) \in Chans /\ Party(d, c)
  BY <1>1, Taken DEF TakesOffer
<1>n. PICK new : new = Rest(s, d)
  OBVIOUS
<1>4. \A e \in Ids : \A y \in {Caller(e), Callee(e)} :
            /\ \A u : Holds(Rest(s, d), y, e, u) => Holds(chan, y, e, u)
            /\ \A u : Holds(chan, y, e, u) =>
                  Holds(Rest(s, d), y, e, u) \/ (y = s /\ e = c /\ u = "offer")
  BY RestKeeps DEF TakesOffer
<1>5. \A e \in Ids : OfferFirst(chan, e) => OfferFirst(Rest(s, d), e)
  BY RestKeeps DEF TakesOffer
<1>6. ASSUME NEW e \in Ids, NEW y \in {Caller(e), Callee(e)}
      PROVE  /\ \A u : Holds(chan', y, e, u) <=> Holds(Rest(s, d), y, e, u) \/ (y = d /\ e = c /\ u = t)
             /\ OfferFirst(Rest(s, d), e) => OfferFirst(chan', e)
  BY <1>n, <1>1, <1>2, Reply
<1> HIDE DEF Holds, OfferFirst
<1>7. ASSUME NEW e \in Ids, NEW y \in {Caller(e), Callee(e)}
      PROVE  /\ \A u : Holds(chan', y, e, u) => Holds(chan, y, e, u) \/ (y = d /\ e = c /\ u = t)
             /\ \A u : Holds(chan, y, e, u) => Holds(chan', y, e, u) \/ (y = s /\ e = c /\ u = "offer")
  BY <1>4, <1>6
<1>8. \A e \in Ids : OfferFirst(chan, e) => OfferFirst(chan', e)
  BY <1>5, <1>6
<1>9. ASSUME NEW e \in Ids, e # c PROVE LinesKeep(e)
  BY <1>7, <1>8, <1>9 DEF LinesKeep
<1>10. ~Holds(chan', s, c, "offer")
  BY <1>1, <1>6
<1>11. \A u \in Reasons : Holds(chan, s, c, u) => Holds(chan', s, c, u)
  BY <1>1, <1>7 DEF Reasons
<1>12. \A y \in {Caller(c), Callee(c)} : \A u :
          Holds(chan', y, c, u) => Holds(chan, y, c, u) \/ (y = d /\ u \in {t})
  BY <1>1, <1>7
<1> QED BY <1>1, <1>8, <1>9, <1>10, <1>11, <1>12 DEF Replied

\* What its callee makes of the call.
Taking(d, q, c, T) ==
    /\ phone' = [phone EXCEPT ![d] = q] /\ LuckKeeps
    /\ q.talked = phone[d].talked /\ q.placed = phone[d].placed /\ q.asking = phone[d].asking
    /\ q.locking = phone[d].locking
    /\ T \cap {"offer", "answer"} = {}
    /\ q.call.id = c => /\ T \cap Reasons = {} /\ q.rows[c] = phone[d].rows[c] /\ q.status \notin Talking
                        /\ q.call.stage \in {"none", "turn"}
                        /\ q.status = "incoming-ringing" => q.call.stage = "none"

LEMMA OfferOwed ==
    ASSUME Inv, AllOwed, NEW s \in Phone, NEW d \in Phone, NEW c, TakesOffer(s, d, c), NEW q, NEW T, Taking(d, q, c, T), Replied(s, d, c, T)
    PROVE  Owed(c)'
<1>1. /\ c \in Ids /\ s = Caller(c) /\ d = Callee(c) /\ s # d /\ Owed(c)
      /\ Unheard(c) /\ ~Unsent(c) /\ ~In(d, c) /\ Quiet(chan, d, c) /\ Holds(chan, s, c, "offer")
  BY OfferIs
<1>2. phone'[Caller(c)] = phone[Caller(c)] /\ phone'[Callee(c)] = q
  BY <1>1 DEF Taking, Inv
<1>3. /\ \A u : Holds(chan', s, c, u) => Holds(chan, s, c, u)
      /\ \A u : Holds(chan', d, c, u) => Holds(chan, d, c, u) \/ u \in T
      /\ \A u \in Reasons : Holds(chan, s, c, u) => Holds(chan', s, c, u)
      /\ ~Holds(chan', s, c, "offer") /\ OfferFirst(chan', c)
  BY <1>1 DEF Replied
<1>4. /\ \A u \in Kinds : Holds(chan', d, c, u) => u \in T
      /\ "answer" \in Kinds /\ "answer" \notin T /\ Reasons \subseteq Kinds
  BY <1>1, <1>3 DEF Quiet, Kinds, Taking
<1>5. ~Unsent(c)' /\ ~Unheard(c)' /\ (In(Caller(c), c)' <=> In(Caller(c), c))
  BY <1>1, <1>2, <1>3 DEF Unsent, Unheard, In
<1>6. ~Holds(chan', Callee(c), c, "answer")
  BY <1>1, <1>4
<1>7. Rings(c)' => q.call.stage = "none"
  BY <1>2 DEF Rings, In, Taking
<1>8. Once(c)'
  <2>1. Once(c)
    BY <1>1 DEF Owed
  <2> QED BY <1>1, <1>2, <1>3, <1>5, <1>6, <1>7, <2>1 DEF Once, Taking, LuckKeeps, In
<1>9. Told(c)'
  <2>1. In(Callee(c), c)' => ~Ends(chan', Callee(c), c)
    BY <1>1, <1>2, <1>4 DEF In, Ends, Taking
  <2>2. Ends(chan, Caller(c), c) => Ends(chan', Caller(c), c)
    BY <1>1, <1>3 DEF Ends
  <2>3. Beaten(c)' <=> Beaten(c)
    BY DEF Beaten, Taking, LuckKeeps
  <2>4. Gone(c)' <=> Gone(c)
    BY <1>2 DEF Gone, LeftBy, Upset, Taking, LuckKeeps
  <2> QED BY <1>1, <1>2, <1>5, <2>1, <2>2, <2>3, <2>4 DEF Told, Owed, Unheard
<1>10. (Trouble \/ Logged(c))'
  <2>1. Trouble' <=> Trouble
    BY DEF Trouble, Taking, LuckKeeps
  <2>2. ASSUME Logged(c) PROVE Logged(c)'
    <3>1. c \notin q.talked /\ phone[d].rows[c] = "none" /\ q.locking.id # c
      BY <1>1, <2>2 DEF Logged, Taking
    <3>2. In(Callee(c), c)' => q.rows[c] = "none" /\ q.status \notin Talking
      BY <1>1, <1>2, <3>1 DEF Taking, In
    <3>3. Kept(Caller(c), c)' /\ Kept(Callee(c), c)'
      BY <1>1, <1>2, <2>2, <3>1 DEF Logged, Kept, In
    <3> QED BY <1>2, <1>5, <2>2, <3>1, <3>2, <3>3 DEF Logged
  <2> QED BY <1>1, <2>1, <2>2 DEF Owed
<1> QED BY <1>8, <1>9, <1>10 DEF Owed

\* The offer leaves the call of the phone as it is, or finds none.
LEMMA OfferTaken ==
    ASSUME Inv, AllOwed, NEW s \in Phone, NEW d \in Phone, NEW c, TakesOffer(s, d, c),
           NEW q, NEW T, Taking(d, q, c, T), Replied(s, d, c, T),
           \A e \in Ids : e # c => Alike(d, phone[d], q, e)
    PROVE  AllOwed'
<1>1. c \in Ids /\ Owed(c)'
  BY OfferIs, OfferOwed
<1>2. phone' = [phone EXCEPT ![d] = q] /\ LuckKeeps /\ (Holding(q, c) => Holding(phone[d], c))
      /\ (q.locking.id = c => phone[d].locking.id = c)
  BY DEF Taking, Holding
<1>3. \A e \in Ids : e # c => Alike(d, phone[d], q, e) /\ LinesKeep(e)
  BY DEF Replied
<1> QED BY <1>1, <1>2, <1>3, Others

\* The tie is lost: the attempt of this phone is dropped and the offer accepted.
GivesWay(s, d, q, mine, c) ==
    /\ mine = phone[d].call.id /\ GlareEligible(d, s) /\ ~CallOfferWins(mine, c)
    /\ chan' = Post(Rest(s, d), d, c, "accept") /\ phone' = [phone EXCEPT ![d] = q]
    /\ q.status = "connecting" /\ q.call.id = c /\ q.call.stage = "turn"
    /\ q.rows = phone[d].rows /\ q.talked = phone[d].talked /\ q.placed = phone[d].placed
    /\ q.asking = phone[d].asking /\ q.locking = phone[d].locking
    /\ q.recent = phone[d].recent \cup {mine}

LEMMA TieLostOwes ==
    ASSUME Inv, AllOwed, NEW s \in Phone, NEW d \in Phone, NEW c, TakesOffer(s, d, c),
           NEW mine, NEW q, GivesWay(s, d, q, mine, c)
    PROVE  AllOwed'
<1> USE DEF GivesWay
<1>p. PICK p : p = phone[d]
  OBVIOUS
<1>1. /\ c \in Ids /\ s = Caller(c) /\ d = Callee(c) /\ s # d /\ c \in luck.calls /\ Owed(c) /\ ~In(d, c)
  BY OfferIs
<1>2. /\ mine \in Ids /\ d = Caller(mine) /\ Other(d, mine) = s /\ p.status \in {"outgoing-ringing", "starting"}
  BY <1>p, Current DEF GlareEligible, Outgoing, InCall
<1>3. s = Callee(mine) /\ mine # c /\ Owed(mine)
  BY <1>1, <1>2, Parties DEF AllOwed
<1>4. Replied(s, d, c, {"accept"})
  <2>1. "accept" \in Kinds
    BY DEF Kinds
  <2> QED BY <2>1, OfferReplies
<1>5. LuckKeeps
  BY LuckStill DEF Take, TakesOffer
<1>6. ASSUME NEW e \in Ids, e # c, e # mine PROVE Alike(d, phone[d], q, e)
  BY <1>6 DEF Alike
<1>7. Taking(d, q, c, {"accept"})
  BY <1>5 DEF Taking, Talking, Reasons
<1>8. Owed(c)'
  BY <1>4, <1>7, OfferOwed
<1>9. Beaten(mine)
  <2>1. Plan[c] = <<s, d>> /\ Plan[mine] = <<d, s>>
    <3>1. \A e \in Ids : Plan[e] = <<Caller(e), Callee(e)>>
      BY CallConstants DEF Caller, Callee, Ids
    <3> QED BY <1>1, <1>2, <1>3, <3>1
  <2>2. c < mine
    <3> HIDE DEF GivesWay
    <3>1. ~CallOfferWins(mine, c)
      BY DEF GivesWay
    <3>2. mine \in Nat /\ c \in Nat
      BY <1>1, <1>2, CallConstants DEF Ids
    <3> QED BY <1>3, <3>1, <3>2 DEF CallOfferWins
  <2> QED BY <1>1, <2>1, <2>2 DEF Beaten
<1>10. Owed(mine)'
  <2>1. LinesKeep(mine)
    BY <1>2, <1>3, <1>4 DEF Replied
  <2>2. OfferFirst(chan', mine)
    BY <1>3, <2>1 DEF LinesKeep, Owed, Once
  <2>3. \A y \in {Caller(mine), Callee(mine)} : \A u :
          Holds(chan', y, mine, u) => Holds(chan, y, mine, u)
    BY <2>1 DEF LinesKeep
  <2>4. q.rows[mine] = "none" \/ Trouble
    <3>1. Logged(mine) => p.rows[mine] = "none"
      BY <1>2, <1>p DEF Logged, In
    <3> QED BY <1>3, <1>p, <3>1 DEF Owed
  <2>5. d # Callee(mine) /\ q.call.id # mine /\ phone[d].status \notin Talking
    BY <1>1, <1>2, <1>3, <1>p DEF Talking
  <2>6. Leaves(d, q, mine, "none")
    BY <1>5, <1>9, <2>2, <2>3, <2>4, <2>5 DEF Leaves
  <2> QED BY <1>2, <2>6, Left
<1>11. ASSUME NEW e \in Ids PROVE Owed(e)'
  <2>1. CASE e # c /\ e # mine
    <3>1. Alike(d, phone[d], q, e) /\ LinesKeep(e) /\ Owed(e)
      BY <1>4, <1>6, <2>1 DEF Replied, AllOwed
    <3>2. Keeps(Caller(e), e) /\ Keeps(Callee(e), e)
      BY <3>1, Unmoved
    <3> QED BY <1>5, <3>1, <3>2, Stays
  <2> QED BY <1>8, <1>10, <2>1
<1>12. Locks'
  <2>1. Locks /\ \A e \in Ids : Holding(q, e) => Holding(phone[d], e)
    BY DEF AllOwed, Holding
  <2>2. phone' = [phone EXCEPT ![d] = q]
    OBVIOUS
  <2>3. \A e \in Ids : q.locking.id = e => phone[d].locking.id = e
    OBVIOUS
  <2> HIDE DEF GivesWay
  <2> QED BY <1>5, <2>1, <2>2, <2>3, LocksStay
<1> QED BY <1>11, <1>12 DEF AllOwed

LEMMA OfferOwes == ASSUME Inv, AllOwed, NEW s \in Phone, NEW d \in Phone, HandleOffer(s, d) PROVE AllOwed'
<1>m. PICK m : m = Head(chan[s][d])
  OBVIOUS
<1>c. PICK c : c = m.id
  OBVIOUS
<1>p. PICK p : p = phone[d]
  OBVIOUS
<1>mine. PICK mine : mine = p.call.id
  OBVIOUS
<1>rem. PICK rem : rem = [p EXCEPT !.recent = @ \cup {c}]
  OBVIOUS
<1>t. TakesOffer(s, d, c) /\ LuckKeeps
  BY <1>m, <1>c, LuckStill DEF HandleOffer, TakesOffer, Take
<1>1. /\ c \in Ids /\ s = Caller(c) /\ d = Callee(c) /\ s # d /\ ~In(d, c) /\ p \in Phones /\ p.call.id # c
  BY <1>p, <1>t, OfferIs, Current DEF In
<1>2. /\ rem \in Phones /\ rem.status = p.status /\ rem.call = p.call /\ rem.asking = p.asking /\ rem.rows = p.rows
      /\ rem.talked = p.talked /\ rem.placed = p.placed /\ rem.locking = p.locking
      /\ rem.recent = p.recent \cup {c}
  BY <1>rem, <1>1, RememberedIs
<1>n. PICK noted : noted = WriteRow(rem, c, "missed-unread")
  OBVIOUS
<1>w. rem \in Phones /\ c \in Ids /\ "missed-unread" \in Rows
  BY <1>1, <1>2 DEF Rows
<1>3. /\ noted.status = p.status /\ noted.call = p.call /\ noted.asking = p.asking
      /\ noted.talked = p.talked /\ noted.placed = p.placed /\ noted.locking = p.locking
      /\ noted.recent = p.recent \cup {c}
  BY <1>n, <1>w, <1>2, WrittenIs
<1>4. \A x \in Ids : x # c => noted.rows[x] = p.rows[x]
  BY <1>n, <1>w, <1>2, WriteRowIs
<1>5. ASSUME NEW q \in {p, rem, noted}, NEW T, phone' = [phone EXCEPT ![d] = q], Replied(s, d, c, T),
             T \cap {"offer", "answer"} = {}
      PROVE  AllOwed'
  <2>1. /\ q.status = p.status /\ q.call = p.call /\ q.asking = p.asking /\ q.talked = p.talked
        /\ q.placed = p.placed /\ q.locking = p.locking /\ q.recent \subseteq p.recent \cup {c}
        /\ \A x \in Ids : x # c => q.rows[x] = p.rows[x]
    BY <1>2, <1>3, <1>4, <1>5
  <2>2. Taking(d, q, c, T)
    BY <1>p, <1>t, <1>1, <1>5, <2>1 DEF Taking
  <2>3. \A e \in Ids : e # c => Alike(d, phone[d], q, e)
    BY <1>p, <2>1 DEF Alike
  <2> QED BY <1>t, <1>5, <2>2, <2>3, OfferTaken
<1>6. ASSUME chan' = Rest(s, d), NEW q \in {p, rem, noted}, phone' = [phone EXCEPT ![d] = q] PROVE AllOwed'
  <2>1. Replied(s, d, c, {})
    BY <1>t, <1>6, OfferRests
  <2> QED BY <1>5, <1>6, <2>1
<1>7. ASSUME chan' = Post(Rest(s, d), d, c, "busy"), NEW q \in {rem, noted}, phone' = [phone EXCEPT ![d] = q]
      PROVE  AllOwed'
  <2>1. "busy" \in Kinds
    BY DEF Kinds, Reasons
  <2>2. Replied(s, d, c, {"busy"})
    BY <1>t, <1>7, <2>1, OfferReplies
  <2> QED BY <1>5, <1>7, <2>2
<1>8. ASSUME chan' = Post(Rest(s, d), d, c, "accept"), GlareEligible(d, s), ~CallOfferWins(mine, c),
             phone' = [phone EXCEPT ![d] = Accepting(AdoptIncoming(
                [p EXCEPT !.timers = @ \cap {"linger"}, !.mics = @ \ {mine},
                          !.recent = @ \cup {mine}], c))]
      PROVE  AllOwed'
  <2>1. mine \in Ids
    BY <1>8, <1>p, <1>mine, Current DEF GlareEligible, Outgoing, InCall
  <2>gone. PICK gone : gone = [p EXCEPT !.timers = @ \cap {"linger"}, !.mics = @ \ {mine},
                                   !.recent = @ \cup {mine}]
    OBVIOUS
  <2>2. gone \in Phones
    BY <2>gone, <1>1, <2>1, ZenonT(30) DEF Phones
  <2>3. /\ gone.asking = p.asking /\ gone.rows = p.rows /\ gone.talked = p.talked /\ gone.placed = p.placed
        /\ gone.locking = p.locking /\ gone.recent = p.recent \cup {mine}
    BY <2>gone, <1>1 DEF Phones
  <2>r. PICK ringing : ringing = AdoptIncoming(gone, c)
    OBVIOUS
  <2>4. /\ ringing \in Phones /\ ringing.call.id = c /\ ringing.asking = gone.asking /\ ringing.rows = gone.rows
        /\ ringing.talked = gone.talked /\ ringing.placed = gone.placed /\ ringing.locking = gone.locking
        /\ ringing.recent = gone.recent
    BY <2>r, <2>2, <1>1, AdoptIs
  <2>q. PICK q : q = Accepting(ringing)
    OBVIOUS
  <2>5. /\ q.status = "connecting" /\ q.call.id = c /\ q.call.stage = "turn" /\ q.asking = ringing.asking
        /\ q.rows = ringing.rows /\ q.talked = ringing.talked /\ q.placed = ringing.placed
        /\ q.locking = ringing.locking /\ q.recent = ringing.recent
    BY <2>q, <2>4, AcceptingIs
  <2>6. phone' = [phone EXCEPT ![d] = q]
    BY <2>gone, <2>r, <2>q, <1>8
  <2>7. GivesWay(s, d, q, mine, c)
    BY <1>p, <1>mine, <1>8, <2>3, <2>4, <2>5, <2>6 DEF GivesWay
  <2> QED BY <1>t, <2>7, TieLostOwes
<1>9. ASSUME ~InCall(p), chan' = Rest(s, d), phone' = [phone EXCEPT ![d] = AdoptIncoming(p, c)]
      PROVE  AllOwed'
  <2>q. PICK q : q = AdoptIncoming(p, c)
    OBVIOUS
  <2>1. /\ q.status = "incoming-ringing" /\ q.call.id = c /\ q.call.stage = "none"
        /\ q.asking = p.asking /\ q.rows = p.rows /\ q.talked = p.talked /\ q.placed = p.placed
        /\ q.locking = p.locking /\ q.recent = p.recent
    BY <2>q, <1>1, AdoptIs
  <2>2. phone' = [phone EXCEPT ![d] = q]
    BY <2>q, <1>9
  <2>3. Taking(d, q, c, {})
    BY <1>p, <1>t, <2>1, <2>2 DEF Taking, Talking
  <2>4. \A e \in Ids : e # c => Alike(d, phone[d], q, e)
    BY <1>p, <1>9, <2>1, Plans DEF Alike, InCall
  <2>5. Replied(s, d, c, {})
    BY <1>t, <1>9, OfferRests
  <2> QED BY <1>t, <2>3, <2>4, <2>5, OfferTaken
<1>10. \/ UNCHANGED phone /\ chan' = Rest(s, d)
       \/ phone' = [phone EXCEPT ![d] = rem] /\ chan' = Rest(s, d)
       \/ GlareEligible(d, s) /\ ~CallOfferWins(mine, c) /\ chan' = Post(Rest(s, d), d, c, "accept")
          /\ phone' = [phone EXCEPT ![d] = Accepting(AdoptIncoming(
                [p EXCEPT !.timers = @ \cap {"linger"}, !.mics = @ \ {mine},
                          !.recent = @ \cup {mine}], c))]
       \/ /\ phone' = [phone EXCEPT ![d] = IF Other(d, mine) = s THEN rem ELSE noted]
          /\ chan' = Post(Rest(s, d), d, c, "busy")
       \/ phone' = [phone EXCEPT ![d] = noted] /\ chan' = Rest(s, d)
       \/ ~InCall(p) /\ chan' = Rest(s, d) /\ phone' = [phone EXCEPT ![d] = AdoptIncoming(p, c)]
  BY <1>m, <1>c, <1>p, <1>mine, <1>rem, <1>n DEF HandleOffer
<1>11. CASE UNCHANGED phone /\ chan' = Rest(s, d)
  <2>1. phone' = [phone EXCEPT ![d] = p]
    BY <1>p, <1>11 DEF Inv
  <2> QED BY <1>6, <1>11, <2>1
<1>12. CASE /\ phone' = [phone EXCEPT ![d] = IF Other(d, mine) = s THEN rem ELSE noted]
            /\ chan' = Post(Rest(s, d), d, c, "busy")
  BY <1>7, <1>12
<1> QED BY <1>6, <1>8, <1>9, <1>10, <1>11, <1>12

-----------------------------------------------------------------------------
(* The app lock and the crash.                                             *)

\* A call that is not silent has signaled.
LEMMA Signaled ==
    ASSUME Inv, AllOwed, NEW d \in Phone, NEW c \in Ids, phone[d].call.id = c
    PROVE  d = Caller(c) => (Silent(phone[d]) <=> Unsent(c) /\ phone[d].status = "starting")
                            /\ (~Silent(phone[d]) => ~Unsent(c))
<1> SUFFICES ASSUME d = Caller(c)
             PROVE  (Silent(phone[d]) <=> Unsent(c) /\ phone[d].status = "starting")
                    /\ (~Silent(phone[d]) => ~Unsent(c))
  OBVIOUS
<1>1. Outgoing(d, phone[d]) /\ Coherent(d, phone[d])
  BY Current, Plans DEF Outgoing, InCall
<1>2. c \in phone[d].placed
  BY DEF AllOwed, Owed, Once, In
<1>3. phone[d].call.stage \in Begun <=> phone[d].status = "starting"
  BY <1>1 DEF Coherent
<1>4. Unsent(c) <=> phone[d].call.stage \in {"turn", "engine"}
  BY <1>2 DEF Unsent, In
<1> QED BY <1>3, <1>4 DEF Silent, OfferSendStarted, Begun

LEMMA LockBeginOwes == ASSUME Inv, AllOwed, NEW d \in Phone, LockBegin(d) PROVE AllOwed'
<1>p. PICK p : p = phone[d]
  OBVIOUS
<1>c. PICK c : c = p.call.id
  OBVIOUS
<1>1. p \in Phones /\ LuckKeeps /\ Trouble /\ Trouble'
  BY <1>p, Current, LuckStill DEF LockBegin, Trouble, LuckKeeps, Spend
<1>2. InCall(p) => c \in Ids /\ Party(d, c) /\ d \in {Caller(c), Callee(c)} /\ Caller(c) # Callee(c) /\ c # 0
                   /\ Caller(c) \in Phone /\ Callee(c) \in Phone
  BY <1>p, <1>c, Current, Parties DEF InCall
<1>3. CASE phone' = [phone EXCEPT ![d].locked = TRUE] /\ UNCHANGED chan
  BY <1>1, <1>3, LockedOwes
<1>4. CASE /\ InCall(p) /\ Silent(p) /\ UNCHANGED chan
           /\ phone' = [phone EXCEPT ![d] = [Teardown(p, c) EXCEPT !.status = "idle", !.locked = TRUE]]
  <2>t. PICK t : t = Teardown(p, c)
    OBVIOUS
  <2>1. /\ t \in Phones /\ t.call = NoCall /\ t.rows = p.rows /\ t.talked = p.talked /\ t.placed = p.placed
        /\ t.asking = p.asking /\ t.locking = p.locking /\ t.recent = p.recent \cup {c}
    BY <1>1, <1>2, <1>4, <2>t, TeardownIs
  <2>q. PICK q : q = [t EXCEPT !.status = "idle", !.locked = TRUE]
    OBVIOUS
  <2>2. /\ q.call.id = 0 /\ q.rows = p.rows /\ q.talked = p.talked /\ q.placed = p.placed
        /\ q.asking = p.asking /\ q.locking = p.locking /\ q.recent = p.recent \cup {c}
    BY <2>1, <2>q DEF Phones, NoCall
  <2>3. phone' = [phone EXCEPT ![d] = q] /\ chan' = chan
    BY <1>4, <2>t, <2>q
  <2>4. \A e \in Ids : e # c => Alike(d, phone[d], q, e) /\ LinesKeep(e)
    BY <1>p, <1>c, <2>2, <2>3, LinesStill, Plans DEF Alike
  <2>5. Once(c)
    BY <1>2, <1>4 DEF AllOwed, Owed
  <2>6. d = Caller(c) => ~Holds(chan, d, c, "offer") /\ ~In(Callee(c), c)
    <3>1. d = Caller(c) => Unsent(c)
      BY <1>p, <1>c, <1>2, <1>4, Signaled
    <3> QED BY <2>5, <3>1, Quieter DEF Once, Unheard
  <2>7. OfferFirst(chan, c)
    BY <2>5 DEF Once
  <2>8. Leaves(d, q, c, "none")
    BY <1>1, <1>2, <1>4, <1>p, <1>c, <2>2, <2>3, <2>6, <2>7 DEF Leaves
  <2>9. Owed(c)'
    BY <1>2, <1>4, <2>8, Left
  <2>10. q.locking.id = c => phone[d].locking.id = c
    BY <1>p, <2>2
  <2> QED BY <1>1, <1>2, <1>4, <2>3, <2>4, <2>9, <2>10, Others
<1>5. CASE /\ InCall(p) /\ ~Silent(p) /\ chan' = Post(chan, d, c, HangUpReason(p))
           /\ phone' = [phone EXCEPT ![d].locking = [id |-> c, row |-> HangUpRow(d, p)]]
  <2>k. PICK k : k = [id |-> c, row |-> HangUpRow(d, p)]
    OBVIOUS
  <2>q. PICK q : q = [p EXCEPT !.locking = k]
    OBVIOUS
  <2>r. PICK reason : reason = HangUpReason(p)
    OBVIOUS
  <2>1. k.id = c /\ phone' = [phone EXCEPT ![d] = q]
    BY <1>p, <1>5, <2>k, <2>q
  <2>2. /\ q.status = p.status /\ q.call = p.call /\ q.rows = p.rows /\ q.talked = p.talked /\ q.placed = p.placed
        /\ q.asking = p.asking /\ q.locking.id = c /\ q.recent = p.recent
    BY <1>1, <2>q, <2>1 DEF Phones
  <2>3. reason \in Reasons /\ reason \in Kinds /\ reason # "offer" /\ reason # "answer"
    BY <2>r, RowsOfHangUp DEF Reasons, Kinds
  <2>4. /\ \A e \in Ids : e # c => LinesKeep(e)
        /\ \A y \in {Caller(c), Callee(c)} : \A u :
              Holds(chan', y, c, u) <=> Holds(chan, y, c, u) \/ (y = d /\ u = reason)
        /\ OfferFirst(chan, c) => OfferFirst(chan', c)
    BY <1>2, <1>5, <2>r, <2>3, PostKeeps
  <2>l. p.locking.id = 0
    BY <1>p DEF LockBegin, NotLocking
  <2>5. \A e \in Ids : e # c => Alike(d, phone[d], q, e)
    <3>1. \A e \in Ids : e # 0
      BY Plans
    <3> QED BY <1>p, <2>2, <2>l, <3>1 DEF Alike
  <2>6. Owed(c) /\ Once(c) /\ Told(c)
    BY <1>2, <1>5 DEF AllOwed, Owed
  <2>7. Ends(chan', d, c) /\ OfferFirst(chan', c) /\ (\A y \in {Caller(c), Callee(c)} : Ends(chan, y, c) => Ends(chan', y, c))
        /\ (\A y \in {Caller(c), Callee(c)} : y # d => (Ends(chan', y, c) => Ends(chan, y, c)))
    BY <1>2, <1>5, <2>3, <2>4, <2>6 DEF Ends, Once
  <2>8. In(d, c) /\ In(d, c)' /\ c # 0
    BY <1>p, <1>c, <1>2, <1>5, <2>1, <2>2 DEF In, Inv
  <2>9. \A y \in {Caller(c), Callee(c)} : phone'[y].status = phone[y].status /\ phone'[y].call = phone[y].call
           /\ phone'[y].placed = phone[y].placed /\ phone'[y].asking = phone[y].asking
           /\ phone'[y].recent = phone[y].recent /\ (y # d => phone'[y].locking = phone[y].locking)
           /\ (y = d => phone'[y].locking.id = c)
    <3>1. phone'[d] = q /\ \A y \in Phone : y # d => phone'[y] = phone[y]
      BY <2>1, Unmoved
    <3> QED BY <1>p, <1>2, <1>5, <2>2, <3>1
  <2>10. /\ (In(Caller(c), c)' <=> In(Caller(c), c)) /\ (In(Callee(c), c)' <=> In(Callee(c), c))
         /\ (Unsent(c)' <=> Unsent(c)) /\ (Rings(c)' <=> Rings(c)) /\ (Unanswered(c)' <=> Unanswered(c))
    BY <2>9 DEF In, Unsent, Rings, Unanswered
  <2>11. ~Unsent(c)
    <3>1. CASE d = Caller(c)
      BY <1>p, <1>c, <1>2, <1>5, <3>1, Signaled
    <3>2. CASE d = Callee(c)
      BY <2>6, <2>8, <3>2 DEF Once, Unheard
    <3> QED BY <1>2, <1>5, <3>1, <3>2
  <2>12. (Unheard(c)' <=> Unheard(c)) /\ (Holds(chan', Callee(c), c, "answer") <=> Holds(chan, Callee(c), c, "answer"))
    BY <2>3, <2>4, <2>10 DEF Unheard
  <2>13. Unheard(c) => d # Callee(c) /\ Quiet(chan', Callee(c), c)
    BY <1>2, <1>5, <2>4, <2>6, <2>8 DEF Once, Quiet
  <2>14. Once(c)'
    BY <1>1, <2>6, <2>7, <2>9, <2>10, <2>11, <2>12, <2>13 DEF Once, LuckKeeps
  <2>15. Told(c)'
    <3>1. Beaten(c)' <=> Beaten(c)
      BY <1>1 DEF Beaten, LuckKeeps
    <3>2. CASE d = Caller(c)
      BY <1>2, <1>5, <2>6, <2>7, <2>9, <2>10, <3>2 DEF Told
    <3>3. CASE d = Callee(c)
      <4>1. ~Holds(chan', Caller(c), c, "offer")
        BY <1>2, <1>5, <2>4, <2>6, <2>8, <3>3 DEF Once, Unheard
      <4> QED BY <2>9, <3>3, <4>1 DEF Told
    <3> QED BY <1>2, <1>5, <3>2, <3>3
  <2>16. Owed(c)'
    BY <1>1, <2>14, <2>15 DEF Owed
  <2>17. \A e \in Ids : e # c => Alike(d, phone[d], q, e) /\ LinesKeep(e)
    BY <2>4, <2>5
  <2>18. "lock" \in luck.faults
    BY DEF LockBegin, Spend
  <2> QED BY <1>1, <1>2, <1>5, <2>1, <2>16, <2>17, <2>18, Others
<1> QED BY <1>p, <1>c, <1>3, <1>4, <1>5 DEF LockBegin

LEMMA LockEndOwes == ASSUME Inv, AllOwed, NEW d \in Phone, LockEnd(d) PROVE AllOwed'
<1>p. PICK p : p = phone[d]
  OBVIOUS
<1>c. PICK c : c = p.locking.id
  OBVIOUS
<1>1. p \in Phones /\ c \in Ids /\ p.locking.row \in Rows /\ Party(d, c)
  BY <1>p, <1>c, Current DEF LockEnd, Phones, Locking, AllOwed, Locks, Holding
<1>w. PICK w : w = WriteRow(p, c, p.locking.row)
  OBVIOUS
<1>2. /\ w \in Phones /\ w.talked = p.talked /\ w.placed = p.placed /\ w.asking = p.asking /\ w.recent = p.recent
      /\ \A x \in Ids : x # c => w.rows[x] = p.rows[x]
  BY <1>1, <1>w, WrittenIs, WriteRowIs
<1>t. PICK t : t = Teardown(w, c)
  OBVIOUS
<1>3. /\ t \in Phones /\ t.call = NoCall /\ t.rows = w.rows /\ t.talked = w.talked /\ t.placed = w.placed
      /\ t.asking = w.asking /\ t.recent = w.recent \cup {c}
  BY <1>1, <1>2, <1>t, TeardownIs
<1>q. PICK q : q = [t EXCEPT !.status = "idle", !.locking = NotLocking, !.locked = TRUE]
  OBVIOUS
<1>4. /\ q.call.id = 0 /\ q.locking.id = 0 /\ q.talked = p.talked /\ q.placed = p.placed /\ q.asking = p.asking
      /\ q.recent = p.recent \cup {c} /\ \A x \in Ids : x # c => q.rows[x] = p.rows[x]
  BY <1>q, <1>2, <1>3 DEF Phones, NoCall, NotLocking
<1>5. phone' = [phone EXCEPT ![d] = q] /\ chan' = chan /\ luck' = luck
  BY <1>p, <1>c, <1>w, <1>t, <1>q DEF LockEnd
<1>6. Owed(c) /\ d \in {Caller(c), Callee(c)} /\ Caller(c) # Callee(c) /\ Caller(c) \in Phone /\ Callee(c) \in Phone
  BY <1>1, Parties DEF AllOwed
<1>7. Trouble /\ Trouble' /\ Upset /\ Upset' /\ LuckKeeps
  <2>1. ~Logged(c)
    BY <1>p, <1>c, <1>6 DEF Logged
  <2>2. "lock" \in luck.faults
    BY <1>p, <1>c, <1>1 DEF AllOwed, Locks
  <2> QED BY <1>5, <1>6, <2>1, <2>2 DEF Owed, Trouble, Upset, LuckKeeps
<1>8. \A x \in Ids : x # 0
  BY Plans
<1>9. ASSUME NEW x \in Ids, x # c, x # p.call.id PROVE Owed(x)'
  <2>1. Alike(d, phone[d], q, x)
    BY <1>p, <1>c, <1>4, <1>8, <1>9 DEF Alike
  <2>2. Keeps(Caller(x), x) /\ Keeps(Callee(x), x) /\ LinesKeep(x) /\ Owed(x)
    BY <1>5, <2>1, Unmoved, LinesStill DEF AllOwed
  <2> QED BY <1>7, <2>2, Stays
<1>10. ASSUME NEW x \in Ids, x = p.call.id PROVE Owed(x)'
  <2>1. Owed(x) /\ Once(x) /\ Told(x)
    BY DEF AllOwed, Owed
  <2>2. d = Caller(x) /\ ~Beaten(x) /\ LeftBy(q, x)
          /\ (Holds(chan, d, x, "offer") \/ (In(Callee(x), x) /\ phone[Callee(x)].locking.id # x))
        => Ends(chan, d, x)
    BY <1>p, <1>c, <1>4, <1>7, <1>8, <2>1 DEF Told, Gone, LeftBy
  <2>3. OfferFirst(chan, x)
    BY <2>1 DEF Once
  <2>4. Leaves(d, q, x, "none")
    BY <1>p, <1>4, <1>5, <1>7, <1>8, <1>10, <2>2, <2>3 DEF Leaves
  <2> QED BY <2>4, Left
<1>11. ASSUME c # p.call.id PROVE Owed(c)'
  <2>1. Once(c) /\ Told(c)
    BY <1>6 DEF Owed
  <2>2. /\ phone'[d] = q /\ \A y \in Phone : y # d => phone'[y] = phone[y]
    BY <1>5, Unmoved
  <2>3. ~In(d, c) /\ ~In(d, c)'
    BY <1>p, <1>1, <1>4, <1>8, <1>11, <2>2 DEF In
  <2>4. (In(Caller(c), c)' <=> In(Caller(c), c)) /\ (In(Callee(c), c)' <=> In(Callee(c), c))
    BY <1>6, <2>2, <2>3 DEF In
  <2>5. (Unsent(c)' <=> Unsent(c)) /\ (Rings(c)' <=> Rings(c)) /\ (Unanswered(c)' <=> Unanswered(c))
    BY <1>p, <1>4, <1>6, <2>2, <2>3, <2>4 DEF Unsent, Rings, Unanswered, In
  <2>6. Unheard(c)' <=> Unheard(c)
    BY <1>5, <2>5 DEF Unheard
  <2>7. d = Caller(c) => ~Unsent(c)
    BY <1>p, <1>c, <2>1 DEF Once
  <2>a. q.placed = phone[d].placed /\ q.asking = phone[d].asking /\ q.recent = phone[d].recent \cup {c}
        /\ q.locking.id # c /\ phone[d].locking.id = c
    BY <1>p, <1>c, <1>1, <1>4, <1>8
  <2>8. Once(c)'
    <3>1. CASE d = Caller(c)
      <4>1. phone'[Caller(c)] = q /\ phone'[Callee(c)] = phone[Callee(c)]
        BY <1>6, <2>2, <3>1
      <4>2. ~In(Caller(c), c) /\ ~In(Caller(c), c)' /\ ~Unsent(c) /\ ~Unsent(c)'
        BY <2>3, <2>5, <2>7, <3>1
      <4>3. /\ c \in q.asking => c \notin q.placed
            /\ c \in q.asking \cup q.placed => c \in luck.calls
        BY <2>1, <2>a, <3>1 DEF Once
      <4>4. Unheard(c) => ~In(Callee(c), c) /\ Quiet(chan, Callee(c), c)
        BY <2>1 DEF Once
      <4>5. Rings(c) => phone[Callee(c)].call.stage = "none"
        BY <2>1 DEF Once
      <4>6. OfferFirst(chan, c) /\ (Unanswered(c) => ~Holds(chan, Callee(c), c, "answer"))
        BY <2>1 DEF Once
      <4> HIDE DEF Unsent, Unheard, Rings, Unanswered, In, Quiet, Holds, OfferFirst
      <4> QED BY <1>5, <2>4, <2>5, <2>6, <4>1, <4>2, <4>3, <4>4, <4>5, <4>6 DEF Once
    <3>2. CASE d = Callee(c)
      <4>1. phone'[Callee(c)] = q /\ phone'[Caller(c)] = phone[Caller(c)]
        BY <1>6, <2>2, <3>2
      <4>2. ~In(Callee(c), c) /\ ~In(Callee(c), c)' /\ ~Rings(c)' /\ ~Unanswered(c)'
        BY <2>3, <3>2 DEF Rings, Unanswered
      <4> QED BY <1>5, <2>1, <2>4, <2>5, <2>6, <4>1, <4>2 DEF Once
    <3> QED BY <1>6, <3>1, <3>2
  <2>9. Told(c)'
    <3>1. Beaten(c)' <=> Beaten(c)
      BY <1>5 DEF Beaten
    <3>2. CASE d = Caller(c)
      BY <1>p, <1>c, <1>5, <1>6, <2>1, <2>2, <2>4, <2>5, <3>1, <3>2 DEF Told, Gone, LeftBy
    <3>3. CASE d = Callee(c)
      <4>1. ~In(Callee(c), c) /\ ~In(Callee(c), c)'
        BY <2>3, <3>3
      <4>2. Gone(c)' <=> Gone(c)
        BY <1>6, <1>7, <2>2, <3>3 DEF Gone, LeftBy
      <4> QED BY <1>5, <1>6, <2>1, <2>2, <2>3, <3>1, <3>3, <4>1, <4>2 DEF Told
    <3> QED BY <1>6, <3>2, <3>3
  <2> QED BY <1>7, <2>8, <2>9 DEF Owed
<1>12. \A x \in Ids : Owed(x)'
  BY <1>9, <1>10, <1>11
<1>13. Locks'
  <2>1. Locks /\ \A x \in Ids : Holding(q, x) => Holding(phone[d], x)
    BY <1>p, <1>4, <1>8 DEF AllOwed, Holding
  <2>2. \A x \in Ids : q.locking.id # x
    BY <1>4, <1>8
  <2> QED BY <1>5, <1>7, <2>1, <2>2, LocksStay
<1> QED BY <1>12, <1>13 DEF AllOwed

LEMMA CrashOwes == ASSUME Inv, AllOwed, NEW d \in Phone, Crash(d) PROVE AllOwed'
<1>p. PICK p : p = phone[d]
  OBVIOUS
<1>w. PICK were : were = p.placed \cup p.asking
  OBVIOUS
<1>r. PICK rs : rs = p.rows
  OBVIOUS
<1>1. p \in Phones /\ LuckKeeps /\ Upset /\ Upset'
  BY <1>p, Current, LuckStill DEF Crash, Spend, Upset, LuckKeeps
<1>f. PICK f : f = Fresh
  OBVIOUS
<1>2. /\ f \in Phones /\ f.status = "idle" /\ f.call = NoCall /\ f.asking = {} /\ f.recent = {} /\ f.talked = {}
      /\ f.locking = NotLocking
  BY <1>f, FreshIs DEF Fresh
<1>q. PICK q : q = [f EXCEPT !.rows = rs, !.placed = were, !.locked = TRUE]
  OBVIOUS
<1>3. /\ q.call.id = 0 /\ q.asking = {} /\ q.recent = {} /\ q.talked = {} /\ q.locking.id = 0
      /\ q.placed = p.placed \cup p.asking /\ q.rows = p.rows
  BY <1>q, <1>w, <1>r, <1>2 DEF Phones, NoCall, NotLocking
<1>4. phone' = [phone EXCEPT ![d] = q]
  BY <1>p, <1>w, <1>r, <1>f, <1>q DEF Crash
<1>5. phone'[d] = q /\ \A y \in Phone : y # d => phone'[y] = phone[y]
  BY <1>4, Unmoved
<1>6. \A x \in Ids : x # 0
  BY Plans
<1>7. ASSUME NEW x \in Ids PROVE Owed(x)'
  <2>1. /\ Owed(x) /\ Once(x) /\ Told(x) /\ Caller(x) # Callee(x) /\ Caller(x) \in Phone /\ Callee(x) \in Phone
    BY Parties DEF AllOwed, Owed
  <2>2. ASSUME NEW y \in {Caller(x), Callee(x)}
        PROVE  /\ \A u : Holds(chan', y, x, u) => Holds(chan, y, x, u)
               /\ y # d => \A u : Holds(chan, y, x, u) => Holds(chan', y, x, u)
               /\ OfferFirst(chan, x) => OfferFirst(chan', x)
    <3>1. Party(y, x)
      BY Parties
    <3> QED BY <3>1, CutHolds
  <2>3. OfferFirst(chan', x) /\ \A y \in {Caller(x), Callee(x)} : Quiet(chan, y, x) => Quiet(chan', y, x)
    BY <2>1, <2>2 DEF Once, Quiet
  <2>4. \A y \in {Caller(x), Callee(x)} : /\ Ends(chan', y, x) => Ends(chan, y, x)
                                          /\ y # d => (Ends(chan, y, x) => Ends(chan', y, x))
    BY <2>2 DEF Ends
  <2>5. (Beaten(x)' <=> Beaten(x)) /\ (Trouble' <=> Trouble)
    BY <1>1 DEF Beaten, Trouble, LuckKeeps
  <2>6. CASE d = Caller(x)
    <3>1. phone'[Caller(x)] = q /\ phone'[Callee(x)] = phone[Callee(x)]
      BY <1>5, <2>1, <2>6
    <3>2. ~In(Caller(x), x)' /\ (In(Callee(x), x)' <=> In(Callee(x), x)) /\ (Rings(x)' <=> Rings(x))
          /\ (Unanswered(x)' <=> Unanswered(x))
      BY <1>3, <1>6, <3>1 DEF In, Rings, Unanswered
    <3>3. (Unsent(x)' => Unsent(x)) /\ (Unheard(x)' => Unheard(x))
      BY <1>p, <1>3, <2>2, <2>6, <3>1, <3>2 DEF Unsent, Unheard
    <3>4. Once(x)'
      BY <1>p, <1>1, <1>3, <1>6, <2>1, <2>2, <2>3, <2>6, <3>1, <3>2, <3>3 DEF Once, LuckKeeps
    <3>5. Told(x)'
      <4>1. ~Gone(x)'
        BY <1>1, <1>3, <1>6, <3>1 DEF Gone, LeftBy
      <4> QED BY <2>1, <2>4, <3>1, <3>2, <4>1 DEF Told
    <3>6. ASSUME Logged(x) PROVE Logged(x)'
      <4>1. Kept(Caller(x), x)' /\ Kept(Callee(x), x)'
        BY <1>3, <3>1, <3>2, <3>6 DEF Logged, Kept
      <4>2. (x \notin q.placed) => q.rows[x] = "none"
        BY <1>p, <1>3, <2>6, <3>6 DEF Logged
      <4> QED BY <1>3, <1>6, <3>1, <3>2, <3>3, <3>6, <4>1, <4>2 DEF Logged
    <3> QED BY <2>1, <2>5, <3>4, <3>5, <3>6 DEF Owed
  <2>7. CASE d = Callee(x)
    <3>1. phone'[Callee(x)] = q /\ phone'[Caller(x)] = phone[Caller(x)]
      BY <1>5, <2>1, <2>7
    <3>2. ~In(Callee(x), x)' /\ (In(Caller(x), x)' <=> In(Caller(x), x)) /\ ~Rings(x)' /\ ~Unanswered(x)'
      BY <1>3, <1>6, <3>1 DEF In, Rings, Unanswered
    <3>3. (Unsent(x)' <=> Unsent(x)) /\ (Unheard(x)' <=> Unheard(x))
      BY <2>1, <2>2, <2>7, <3>1, <3>2 DEF Unsent, Unheard, In
    <3>4. Once(x)'
      BY <1>1, <2>1, <2>2, <2>3, <3>1, <3>2, <3>3 DEF Once, LuckKeeps
    <3>5. Told(x)'
      <4>1. Gone(x)' <=> Gone(x)
        BY <1>1, <3>1 DEF Gone, LeftBy
      <4> QED BY <2>1, <2>2, <2>4, <2>5, <2>7, <3>1, <3>2, <4>1 DEF Told
    <3>6. ASSUME Logged(x) PROVE Logged(x)'
      <4>1. Kept(Caller(x), x)' /\ Kept(Callee(x), x)'
        BY <1>3, <3>1, <3>2, <3>6 DEF Logged, Kept
      <4>2. Unheard(x) => q.rows[x] = "none"
        BY <1>p, <1>3, <2>7, <3>6 DEF Logged
      <4> QED BY <1>3, <1>6, <3>1, <3>2, <3>3, <3>6, <4>1, <4>2 DEF Logged
    <3> QED BY <2>1, <2>5, <3>4, <3>5, <3>6 DEF Owed
  <2>8. CASE d \notin {Caller(x), Callee(x)}
    <3>1. Keeps(Caller(x), x) /\ Keeps(Callee(x), x)
      BY <1>4, <2>1, <2>8, Unmoved
    <3>2. LinesKeep(x)
      BY <2>2, <2>8 DEF LinesKeep
    <3> QED BY <1>1, <2>1, <3>1, <3>2, Stays
  <2> QED BY <2>6, <2>7, <2>8
<1>8. Locks'
  <2>1. Locks /\ \A x \in Ids : Holding(q, x) => Holding(phone[d], x)
    BY <1>3, <1>6 DEF AllOwed, Holding
  <2>2. \A x \in Ids : q.locking.id # x
    BY <1>3, <1>6
  <2> QED BY <1>1, <1>4, <2>1, <2>2, LocksStay
<1> QED BY <1>7, <1>8 DEF AllOwed

LEMMA IceConnectedOwes == ASSUME Inv, AllOwed, NEW d \in Phone, IceConnected(d) PROVE AllOwed'
<1>p. PICK p : p = phone[d]
  OBVIOUS
<1>c. PICK c : c = p.call.id
  OBVIOUS
<1>1. /\ p \in Phones /\ c \in Ids /\ Party(d, c) /\ c # 0 /\ p.status \in {"connecting", "reconnecting"}
      /\ chan' = chan /\ luck' = luck
  BY <1>p, <1>c, Current DEF IceConnected, InCall
<1>l. PICK left : left = p.timers \ (IF p.status = "connecting" THEN {"connect"} ELSE {"disconnect"})
  OBVIOUS
<1>s. PICK said : said = p.talked \cup {c}
  OBVIOUS
<1>q. PICK q : q = [p EXCEPT !.status = "active", !.talked = said, !.timers = left]
  OBVIOUS
<1>2. phone' = [phone EXCEPT ![d] = q]
  BY <1>p, <1>c, <1>l, <1>s, <1>q DEF IceConnected, Inv
<1>3. /\ q.status = "active" /\ q.call = p.call /\ q.rows = p.rows /\ q.talked = p.talked \cup {c}
      /\ q.placed = p.placed /\ q.asking = p.asking /\ q.locking = p.locking /\ q.recent = p.recent
  BY <1>1, <1>q, <1>s DEF Phones
<1>4. \A e \in Ids : e # c => Alike(d, phone[d], q, e) /\ LinesKeep(e)
  BY <1>p, <1>c, <1>1, <1>3, LinesStill DEF Alike
<1>5. /\ phone'[d] = q /\ \A y \in Phone : y # d => phone'[y] = phone[y]
  BY <1>2, Unmoved
<1>6. Owed(c) /\ d \in {Caller(c), Callee(c)} /\ Caller(c) # Callee(c) /\ Caller(c) \in Phone /\ Callee(c) \in Phone
  BY <1>1, Parties DEF AllOwed
<1>7. In(d, c) /\ In(d, c)' /\ In(Caller(c), c) /\ ~Unheard(c) /\ ~Unanswered(c)
  BY <1>p, <1>c, <1>1, <1>3, <1>5, <1>6 DEF In, IceConnected, MediaPath, Owed, Once
<1>8. ASSUME NEW y \in {Caller(c), Callee(c)}
      PROVE  /\ phone'[y].call = phone[y].call /\ phone'[y].rows = phone[y].rows
             /\ phone'[y].placed = phone[y].placed /\ phone'[y].asking = phone[y].asking
             /\ phone'[y].locking = phone[y].locking /\ phone'[y].recent = phone[y].recent
             /\ y # d => phone'[y] = phone[y]
  BY <1>p, <1>3, <1>5, <1>6
<1>a. /\ phone'[Caller(c)].call = phone[Caller(c)].call /\ phone'[Caller(c)].rows = phone[Caller(c)].rows
      /\ phone'[Caller(c)].placed = phone[Caller(c)].placed /\ phone'[Caller(c)].asking = phone[Caller(c)].asking
      /\ phone'[Caller(c)].locking = phone[Caller(c)].locking /\ phone'[Caller(c)].recent = phone[Caller(c)].recent
  BY <1>8
<1>b. /\ phone'[Callee(c)].call = phone[Callee(c)].call /\ phone'[Callee(c)].rows = phone[Callee(c)].rows
      /\ phone'[Callee(c)].locking = phone[Callee(c)].locking
  BY <1>8
<1>9. /\ (In(Caller(c), c)' <=> In(Caller(c), c)) /\ (In(Callee(c), c)' <=> In(Callee(c), c))
      /\ (Unsent(c)' <=> Unsent(c)) /\ (Unanswered(c)' <=> Unanswered(c)) /\ (Unheard(c)' <=> Unheard(c))
  <2>1. (In(Caller(c), c)' <=> In(Caller(c), c)) /\ (In(Callee(c), c)' <=> In(Callee(c), c))
    BY <1>a, <1>b DEF In
  <2>2. Unsent(c)' <=> Unsent(c)
    BY <1>a, <2>1 DEF Unsent
  <2>3. Unanswered(c)' <=> Unanswered(c)
    BY <1>b, <2>1 DEF Unanswered
  <2>4. Unheard(c)' <=> Unheard(c)
    BY <1>1, <2>2 DEF Unheard
  <2> QED BY <2>1, <2>2, <2>3, <2>4
<1>10. Rings(c)' => Rings(c)
  BY <1>3, <1>5, <1>6, <1>8, <1>9 DEF Rings
<1>11. Once(c)'
  BY <1>1, <1>6, <1>a, <1>b, <1>9, <1>10 DEF Once, Owed
<1>12. Told(c)'
  <2>1. Beaten(c)' <=> Beaten(c)
    BY <1>1 DEF Beaten
  <2>2. Gone(c)' <=> Gone(c)
    BY <1>1, <1>a DEF Gone, LeftBy, Upset
  <2> QED BY <1>1, <1>6, <1>a, <1>b, <1>9, <2>1, <2>2 DEF Told, Owed
<1>13. (Trouble \/ Logged(c))'
  <2>1. Trouble' <=> Trouble
    BY <1>1 DEF Trouble
  <2>2. ASSUME Logged(c) PROVE Logged(c)'
    <3>1. /\ Kept(d, c)' /\ \A y \in {Caller(c), Callee(c)} : y # d => Kept(y, c)'
      <4>1. Kept(d, c)'
        BY <1>3, <1>5, <1>7 DEF Kept, In, Talking
      <4>2. ASSUME NEW y \in {Caller(c), Callee(c)}, y # d PROVE Kept(y, c)'
        <5>1. Kept(y, c)
          BY <2>2, <4>2 DEF Logged
        <5>2. phone'[y] = phone[y]
          BY <1>8, <4>2
        <5> QED BY <5>1, <5>2 DEF Kept, In
      <4> QED BY <4>1, <4>2
    <3>2. Kept(Caller(c), c)' /\ Kept(Callee(c), c)'
      <4>1. CASE d = Caller(c)
        BY <1>6, <3>1, <4>1
      <4>2. CASE d = Callee(c)
        BY <1>6, <3>1, <4>2
      <4> QED BY <1>6, <4>1, <4>2
    <3>3. (c \notin phone[Caller(c)].placed => c \notin phone'[Caller(c)].talked) /\ ~Unheard(c)
      BY <1>6, <1>7 DEF Owed, Once
    <3>4. (In(Callee(c), c)' /\ phone'[Callee(c)].status \in Talking) => ~Unanswered(c)'
      BY <1>7, <1>9
    <3>5. (c \notin phone'[Caller(c)].placed => c \notin phone'[Caller(c)].talked) /\ ~Unheard(c)'
      BY <1>9, <1>a, <3>3
    <3> QED BY <1>7, <1>a, <1>b, <1>9, <2>2, <3>2, <3>4, <3>5 DEF Logged
  <2> QED BY <1>6, <2>1, <2>2 DEF Owed
<1>14. Owed(c)' /\ LuckKeeps
  BY <1>1, <1>11, <1>12, <1>13, LuckStill DEF Owed
<1>15. q.locking = phone[d].locking
  BY <1>p, <1>3
<1> QED BY <1>1, <1>2, <1>4, <1>14, <1>15, Others

LEMMA UnlockOwes == ASSUME Inv, AllOwed, NEW d \in Phone, Unlock(d) PROVE AllOwed'
<1>1. phone' = [phone EXCEPT ![d].locked = FALSE] /\ UNCHANGED chan /\ luck' = luck
  BY DEF Unlock
<1> QED BY <1>1, LuckStill, LockedOwes

LEMMA StepOwes == ASSUME Inv, AllOwed, Next PROVE AllOwed'
<1>1. CASE \E d \in Phone : \E c \in Ids : Ask(d, c) \/ Place(d, c)
  BY <1>1, AskOwes, PlaceOwes
<1>2. ASSUME NEW d \in Phone,
             \/ Credentials(d) \/ SdpReady(d) \/ MediaFails(d) \/ Acked(d) \/ AckTimesOut(d)
             \/ Answer(d) \/ HangUp(d)
             \/ RingTimeout(d) \/ ConnectTimeout(d) \/ GraceTimeout(d) \/ LingerTimeout(d)
      PROVE  AllOwed'
  BY <1>2, CredentialsOwes, SdpOwes, MediaFailsOwes, AckedOwes, AckTimesOutOwes, AnswerOwes, HangUpOwes,
     TimeoutOwes, LingerOwes
<1>3. ASSUME NEW d \in Phone,
             \/ IceConnected(d) \/ IceDisconnected(d) \/ IceFailed(d)
             \/ LockBegin(d) \/ LockEnd(d) \/ Unlock(d) \/ Crash(d)
      PROVE  AllOwed'
  BY <1>3, IceConnectedOwes, IceDisconnectedOwes, IceFailedOwes, LockBeginOwes, LockEndOwes, UnlockOwes, CrashOwes
<1>4. ASSUME NEW s \in Phone, NEW d \in Phone, Deliver(s, d) PROVE AllOwed'
  BY <1>4, OfferOwes, AcceptedOwes, AnsweredOwes, EndOfCallOwes DEF Deliver
<1> QED BY <1>1, <1>2, <1>3, <1>4 DEF Next

LEMMA NothingOwed == ASSUME Init PROVE AllOwed
<1>1. /\ \A d \in Phone : phone[d] = Fresh
      /\ \A s, d \in Phone : chan[s][d] = <<>>
  BY DEF Init
<1>f. PICK f : f = Fresh
  OBVIOUS
<1>2. /\ f.call.id = 0 /\ f.locking.id = 0 /\ f.recent = {} /\ f.asking = {} /\ f.placed = {} /\ f.talked = {}
      /\ \A c \in Ids : f.rows[c] = "none"
  BY <1>f DEF Fresh, NoCall, NotLocking
<1>3. \A c \in Ids : c # 0
  BY Plans
<1>4. \A d \in Phone : phone[d] = f
  BY <1>1, <1>f
<1>5. ASSUME NEW c \in Ids PROVE Owed(c)
  <2>1. Caller(c) \in Phone /\ Callee(c) \in Phone /\ Other(Caller(c), c) = Callee(c) /\ Other(Callee(c), c) = Caller(c)
    BY Parties
  <2>2. phone[Caller(c)] = f /\ phone[Callee(c)] = f
    BY <1>4, <2>1
  <2>3. Line(chan, Caller(c), c) = <<>> /\ Line(chan, Callee(c), c) = <<>>
    BY <1>1, <2>1 DEF Line
  <2>4. (\A u : ~Holds(chan, Caller(c), c, u) /\ ~Holds(chan, Callee(c), c, u)) /\ OfferFirst(chan, c)
    BY <2>3 DEF Holds, OfferFirst
  <2>5. ~In(Caller(c), c) /\ ~In(Callee(c), c) /\ ~Rings(c) /\ ~Unanswered(c)
    BY <1>2, <1>3, <2>2 DEF In, Rings, Unanswered
  <2>6. Once(c)
    BY <1>2, <1>3, <2>2, <2>4, <2>5 DEF Once, Quiet
  <2>7. Told(c)
    BY <2>4, <2>5 DEF Told
  <2>8. Logged(c)
    BY <1>2, <1>3, <2>2, <2>5 DEF Logged, Kept
  <2> QED BY <2>6, <2>7, <2>8 DEF Owed
<1>6. Locks
  BY <1>2, <1>3, <1>4 DEF Locks, Holding
<1> QED BY <1>5, <1>6 DEF AllOwed

LEMMA AlwaysOwed == Spec => [](Inv /\ AllOwed)
<1>1. Inv /\ AllOwed /\ [Next]_vars => AllOwed'
  <2> SUFFICES ASSUME Inv, AllOwed, [Next]_vars PROVE AllOwed'
    OBVIOUS
  <2>1. CASE Next
    BY <2>1, StepOwes
  <2>2. CASE UNCHANGED vars
    <3>1. LuckKeeps /\ chan' = chan /\ phone' = phone
      BY <2>2 DEF vars, LuckKeeps
    <3>2. ASSUME NEW c \in Ids PROVE Owed(c)'
      <4>1. Keeps(Caller(c), c) /\ Keeps(Callee(c), c) /\ LinesKeep(c) /\ Owed(c)
        BY <3>1, LinesStill DEF Keeps, Alike, AllOwed
      <4> QED BY <3>1, <4>1, Stays
    <3>3. Locks'
      BY <3>1 DEF Locks, Holding, AllOwed, LuckKeeps
    <3> QED BY <3>2, <3>3 DEF AllOwed
  <2> QED BY <2>1, <2>2
<1> QED BY <1>1, NothingOwed, Inductive, PTL DEF Spec

\* For every plan of calls and every scene of faults without the two windows: after a call in
\* which a phone talked, its timeline holds the completed row of the right direction, never a
\* missed one (completedRow of calls/controller.ts and its INSERT OR IGNORE).
THEOREM ConversationsAreLogged == Spec => []ConversationIsLogged
<1>1. Inv /\ AllOwed => ConversationIsLogged
  <2> SUFFICES ASSUME Inv, AllOwed, ~Trouble, NEW d \in Phone, NEW c \in phone[d].talked, phone[d].call.id # c
               PROVE  phone[d].rows[c] = IF Caller(c) = d THEN "outgoing" ELSE "incoming"
    BY DEF ConversationIsLogged, Trouble
  <2>1. c \in Ids
    BY Current DEF Phones
  <2>2. Party(d, c) /\ Owed(c)
    BY <2>1 DEF AllOwed, Locks, Holding
  <2>3. Kept(d, c)
    BY <2>2, Parties DEF Owed, Logged, Party
  <2> QED BY <2>3 DEF Kept, In
<1> QED BY <1>1, AlwaysOwed, PTL

\* For every plan and every scene, faults included: the phone of a callee rings only for a call
\* its caller has not left, or has left with the end marker still on its way, unless a call of
\* the peer beats it in a glare: "so the peer never ghost rings" (hangUp of calls/controller.ts).
THEOREM NobodyRingsForNothing == Spec => []NoGhostRing
<1>1. Inv /\ AllOwed => NoGhostRing
  <2> SUFFICES ASSUME Inv, AllOwed, NEW d \in Phone, NEW c, c = phone[d].call.id,
                      phone[d].status = "incoming-ringing", ~Beaten(c),
                      c \in phone[Caller(c)].recent, phone[d].locking.id # c
               PROVE  \E i \in DOMAIN chan[Caller(c)][d] :
                         chan[Caller(c)][d][i].id = c /\ IsEnd(chan[Caller(c)][d][i])
    BY DEF NoGhostRing
  <2>1. c \in Ids /\ d = Callee(c) /\ Other(Caller(c), c) = d
    <3>1. c # 0 /\ Party(d, c) /\ ~Outgoing(d, phone[d]) /\ phone[d] \in Phones
      BY Current DEF Inv, Coherent, AtRest
    <3>2. c \in Ids
      BY <3>1 DEF Phones, Calls
    <3>3. d # Caller(c)
      BY <3>1 DEF Outgoing, InCall
    <3> QED BY <3>1, <3>2, <3>3, Parties DEF Party
  <2>2. Rings(c) /\ Told(c)
    BY <2>1 DEF Rings, In, AllOwed, Owed
  <2>3. Ends(chan, Caller(c), c)
    BY <2>1, <2>2 DEF Told, Gone, LeftBy, Rings
  <2>4. PICK t \in Reasons : Holds(chan, Caller(c), c, t)
    BY <2>3 DEF Ends
  <2>5. PICK i \in DOMAIN chan[Caller(c)][d] : chan[Caller(c)][d][i] = [t |-> t, id |-> c]
    BY <2>1, <2>4 DEF Holds, Line
  <2>6. chan[Caller(c)][d][i].id = c /\ chan[Caller(c)][d][i].t \in Reasons
    BY <2>4, <2>5
  <2> QED BY <2>5, <2>6 DEF IsEnd
<1> QED BY <1>1, AlwaysOwed, PTL

\* For every plan and every scene without a crash or a lock: of two crossing calls, placed once
\* each, callOfferWins leaves one, whatever the order of offers, answers, ends and timers.
THEOREM GlareIsSettled == Spec => []GlareHasOneWinner
<1>1. Inv /\ AllOwed => GlareHasOneWinner
  <2> SUFFICES ASSUME Inv, AllOwed, luck.faults \cap {"crash", "lock"} = {}, NEW s \in Phone, NEW d \in Phone,
                      NEW b, NEW c, b = phone[s].call.id, c = phone[d].call.id,
                      s # d, b # 0, c # 0, Caller(b) = d, Caller(c) = s, CalledOnce(b), CalledOnce(c)
               PROVE  \E x, y \in {s, d} : \E i \in DOMAIN chan[x][y] :
                         chan[x][y][i].id \in {b, c} /\ IsEnd(chan[x][y][i])
    BY DEF GlareHasOneWinner
  <2>1. b \in Ids /\ c \in Ids /\ Callee(b) = s /\ Callee(c) = d /\ Owed(b) /\ Owed(c)
    <3>1. Party(s, b) /\ Party(d, c) /\ b \in Ids /\ c \in Ids
      BY Current
    <3> QED BY <3>1 DEF Party, AllOwed
  <2>2. b \in Nat /\ c \in Nat /\ b # c
    BY <2>1, CallConstants DEF Ids
  <2>3. Plan[b] = <<d, s>> /\ Plan[c] = <<s, d>>
    BY <2>1, CallConstants DEF Caller, Callee, Ids
  \* The winner e, if its caller left it.
  <2>4. ASSUME NEW e \in Ids, NEW f \in Ids, ~(f < e), Plan[f] = <<Callee(e), Caller(e)>>, CalledOnce(f),
               Owed(e), In(Callee(e), e), ~In(Caller(e), e)
        PROVE  \E i \in DOMAIN chan[Caller(e)][Callee(e)] :
                  chan[Caller(e)][Callee(e)][i].id = e /\ IsEnd(chan[Caller(e)][Callee(e)][i])
    <3>1. ~Beaten(e)
      BY <2>4 DEF Beaten, CalledOnce, Caller, Callee
    <3>2. Gone(e) /\ phone[Callee(e)].locking.id # e
      BY <2>4, Parties DEF Gone, LeftBy, Upset, In, AllOwed, Locks
    <3>3. Ends(chan, Caller(e), e)
      BY <2>4, <3>1, <3>2 DEF Owed, Told
    <3>4. PICK t \in Reasons : Holds(chan, Caller(e), e, t)
      BY <3>3 DEF Ends
    <3>5. PICK i \in DOMAIN chan[Caller(e)][Callee(e)] : chan[Caller(e)][Callee(e)][i] = [t |-> t, id |-> e]
      BY <3>4, Parties DEF Holds, Line
    <3>6. chan[Caller(e)][Callee(e)][i].id = e /\ chan[Caller(e)][Callee(e)][i].t \in Reasons
      BY <3>4, <3>5
    <3> QED BY <3>5, <3>6 DEF IsEnd
  <2>5. In(Callee(b), b) /\ ~In(Caller(b), b) /\ In(Callee(c), c) /\ ~In(Caller(c), c)
    BY <2>1, <2>2 DEF In
  <2>6. CASE b < c
    <3>1. \E i \in DOMAIN chan[d][s] : chan[d][s][i].id = b /\ IsEnd(chan[d][s][i])
      BY <2>1, <2>2, <2>3, <2>4, <2>5, <2>6
    <3> QED BY <3>1
  <2>7. CASE c < b
    <3>1. \E i \in DOMAIN chan[s][d] : chan[s][d][i].id = c /\ IsEnd(chan[s][d][i])
      BY <2>1, <2>2, <2>3, <2>4, <2>5, <2>7
    <3> QED BY <3>1
  <2>8. b < c \/ c < b
    BY <2>2
  <2> QED BY <2>6, <2>7, <2>8
<1> QED BY <1>1, AlwaysOwed, PTL

=============================================================================
