--------------------------- MODULE DeliveryProofs ---------------------------
(***************************************************************************)
(* Delivery proved for any number of messages, chunks, resend loops and    *)
(* faults.                                                                 *)
(***************************************************************************)
EXTENDS Delivery, SequenceTheorems, WellFoundedInduction, TLAPS

QueueEntry == [env : Envelopes, by : Own..Nobody]
Entry == [env : Envelopes, read : BOOLEAN]

Types ==
    /\ row \in [Msg -> Rows]
    /\ unlocked \in BOOLEAN /\ open \in BOOLEAN /\ alive \in BOOLEAN
    /\ queue \in Seq(QueueEntry) /\ rest \in [Loop -> SUBSET Msg]
    /\ accepted \in Seq(Envelopes) /\ mailbox \in Seq(Entry) /\ handed \in 0..Len(mailbox)
    /\ stored \in [Msg -> {"none", "shown", "gone"}] /\ staged \in [Msg -> SUBSET Int]
    /\ handler \in [step : Steps, env : Envelopes]
    /\ missed \subseteq Msg /\ spent \in 0..MaxFaults

-----------------------------------------------------------------------------
(* The author.                                                             *)

\* A resend loop with the messages S yet to settle waits for exactly one entry of the
\* queue s, one of the message it is at.
Waits(s, S, k) ==
    IF S = {} THEN \A i \in DOMAIN s : s[i].by # k
    ELSE \E i \in DOMAIN s : /\ s[i].by = k /\ s[i].env \in Parts(Oldest(S))
                             /\ \A j \in DOMAIN s : s[j].by = k => j = i

\* What was sent before a part was accepted.
Leads(e) ==
    e.kind = "chunk" => Accepted(First(e.m)) /\ \A seq \in 0..(e.seq - 1) : Accepted(Chunk(e.m, seq))

Led(q) == Leads(q.env) /\ (q.by = Nobody <=> q.env.kind = "delete")

AllWait == \A k \in Loop : Waits(queue, rest[k], k)
AllLed == \A i \in DOMAIN queue : Led(queue[i])

AuthorInv ==
    /\ AllWait
    /\ AllLed
    /\ SentMeansAccepted

-----------------------------------------------------------------------------
(* The relay: its queue is in the order of acceptance.                     *)

Before(e, f) == \E i, j \in DOMAIN accepted : i < j /\ accepted[i] = e /\ accepted[j] = f

RelayInv ==
    /\ IsInjective(accepted)
    /\ \A e \in Envelopes : Accepted(e) /\ e.kind = "chunk" => Before(First(e.m), e)
    /\ \A i \in DOMAIN mailbox : Accepted(mailbox[i].env)
    /\ \A i, j \in DOMAIN mailbox : i < j => Before(mailbox[i].env, mailbox[j].env)

-----------------------------------------------------------------------------
(* The reader.                                                             *)

\* The envelope's message key is consumed, and what it carries has been dealt with.
Seen(e) == Accepted(e) /\ \A i \in DOMAIN mailbox : mailbox[i].env = e => mailbox[i].read
Decrypted(e) == handler.step = "decrypted" /\ handler.env = e
Taken(e) == Seen(e) /\ ~Decrypted(e)

\* What the socket has delivered was decrypted or left by a locked phone, so nothing is
\* decrypted before an announcement that came earlier and was not left.
SocketInv ==
    /\ \A i \in 1..handed : mailbox[i].read \/ (mailbox[i].env.kind = "first" => mailbox[i].env.m \in missed)
    /\ \A m \in Msg \ missed : \A e \in Envelopes : Seen(e) /\ Before(First(m), e) => Seen(First(m))
    /\ handler.step # "idle" =>
          \E i \in DOMAIN mailbox : mailbox[i].env = handler.env /\ mailbox[i].read

Whole(m) == staged[m] = 0..(Chunks[m] - 1)

\* A message has no row before its first envelope is dealt with, and a transfer no row.
RowInv ==
    /\ \A m \in Msg : ~Taken(First(m)) => stored[m] = "none" /\ ~Staged(m)
    /\ \A m \in Msg : Staged(m) => stored[m] = "none" /\ Chunks[m] > 0 /\ staged[m] \subseteq 0..(Chunks[m] - 1)
    /\ handler.step = "complete" => handler.env.kind = "chunk" /\ Staged(handler.env.m) /\ Whole(handler.env.m)

\* As long as no lock and no death interrupts a handler, what was dealt with has had its effect.
EffectInv ==
    /\ \A m \in Msg : Taken(First(m)) /\ ~Accepted(Delete(m)) => stored[m] # "none" \/ Staged(m)
    /\ \A m \in Msg \ missed : \A seq \in 0..(Chunks[m] - 1) :
          Taken(Chunk(m, seq)) /\ ~Accepted(Delete(m)) =>
              stored[m] # "none" \/ (Staged(m) /\ seq \in staged[m])
    /\ \A m \in Msg : Staged(m) /\ Whole(m) => handler.step = "complete" /\ handler.env.m = m
    /\ \A m \in Msg \ missed : Before(First(m), Delete(m)) /\ Taken(Delete(m)) =>
          Taken(First(m)) /\ stored[m] # "shown" /\ ~Staged(m)

-----------------------------------------------------------------------------
(* Constants, envelopes, sequences.                                        *)

LEMMA Bounds ==
    /\ Msg = 1..Len(Chunks) /\ Len(Chunks) \in Nat /\ 1 \in Msg /\ \A m \in Msg : Chunks[m] \in Nat
    /\ MaxFaults \in Nat /\ Own \notin Loop /\ Nobody \notin Loop /\ Own # Nobody
    /\ Loop \subseteq Own..Nobody /\ Own \in Own..Nobody /\ Nobody \in Own..Nobody
    /\ \A by \in Own..Nobody : by = Own \/ by = Nobody \/ by \in Loop
<1>1. Chunks \in Seq(Nat) /\ Chunks # <<>> /\ MaxLoops \in Nat /\ MaxFaults \in Nat
  BY DeliveryConstants
<1>2. Msg = 1..Len(Chunks) /\ Len(Chunks) \in Nat /\ Len(Chunks) # 0 /\ \A m \in Msg : Chunks[m] \in Nat
  BY <1>1 DEF Msg
<1> QED BY <1>1, <1>2 DEF Own, Nobody, Loop

\* The kinds of envelopes, and their parts.
LEMMA Kinds ==
    /\ \A m : First(m).kind = "first" /\ First(m).m = m /\ First(m).seq = 0
    /\ \A m : Delete(m).kind = "delete" /\ Delete(m).m = m /\ Delete(m).seq = 0
    /\ \A m, seq : Chunk(m, seq).kind = "chunk" /\ Chunk(m, seq).m = m /\ Chunk(m, seq).seq = seq
BY DEF First, Delete, Chunk, Envelope

LEMMA Made ==
    /\ \A m \in Msg : First(m) \in Envelopes /\ Delete(m) \in Envelopes /\ First(m) \in Parts(m)
    /\ \A m \in Msg : \A seq \in 0..(Chunks[m] - 1) : Chunk(m, seq) \in Envelopes /\ Chunk(m, seq) \in Parts(m)
    /\ \A m \in Msg : \A e \in Parts(m) : e \in Envelopes
BY DEF Envelopes, Parts

LEMMA Cases ==
    \A e \in Envelopes :
        /\ e.m \in Msg
        /\ \/ e = First(e.m)
           \/ e = Delete(e.m)
           \/ e.seq \in 0..(Chunks[e.m] - 1) /\ e = Chunk(e.m, e.seq)
        /\ e.kind # "delete" => e \in Parts(e.m)
<1> SUFFICES ASSUME NEW e \in Envelopes
             PROVE  /\ e.m \in Msg
                    /\ \/ e = First(e.m)
                       \/ e = Delete(e.m)
                       \/ e.seq \in 0..(Chunks[e.m] - 1) /\ e = Chunk(e.m, e.seq)
                    /\ e.kind # "delete" => e \in Parts(e.m)
  OBVIOUS
<1>1. PICK m \in Msg : e \in Parts(m) \cup {Delete(m)}
  BY DEF Envelopes
<1>2. CASE e = First(m)
  BY <1>2, Kinds DEF Parts
<1>3. CASE e = Delete(m)
  BY <1>3, Kinds
<1>4. ASSUME NEW seq \in 0..(Chunks[m] - 1), e = Chunk(m, seq)
      PROVE  e.m = m /\ e.seq = seq /\ e \in Parts(m)
  BY <1>4, Kinds, Made
<1> QED BY <1>1, <1>2, <1>3, <1>4 DEF Parts

\* Whoever is sent after an accepted envelope is another part of its message.
LEMMA NextIsPart ==
    ASSUME NEW e \in Envelopes, HasNext(e)
    PROVE  NextPart(e) \in Envelopes /\ NextPart(e) \in Parts(e.m) /\ NextPart(e).kind = "chunk"
<1>1. e.m \in Msg /\ Chunks[e.m] \in Nat
  BY Cases, Bounds
<1>2. CASE e = First(e.m)
  <2>1. NextPart(e) = Chunk(e.m, 0) /\ 0 < Chunks[e.m]
    BY <1>2, Kinds DEF HasNext, NextPart
  <2> QED BY <1>1, <2>1, Kinds, Made
<1>3. CASE e = Delete(e.m)
  BY <1>3, Kinds DEF HasNext
<1>4. CASE e.seq \in 0..(Chunks[e.m] - 1) /\ e = Chunk(e.m, e.seq)
  <2>1. NextPart(e) = Chunk(e.m, e.seq + 1) /\ e.seq + 1 < Chunks[e.m]
    BY <1>4, Kinds DEF HasNext, NextPart
  <2>2. e.seq + 1 \in 0..(Chunks[e.m] - 1)
    BY <1>1, <1>4, <2>1
  <2> QED BY <1>1, <2>1, <2>2, Kinds, Made
<1> QED BY <1>2, <1>3, <1>4, Cases

\* There is an oldest of any captured messages.
LEMMA OldestIsOne ==
    ASSUME NEW S, S \subseteq Msg, S # {}
    PROVE  Oldest(S) \in S
<1>1. S \subseteq Nat
  BY Bounds
<1>2. PICK m \in S : \A n \in S : ~(<<n, m>> \in OpToRel(<, Nat))
  BY <1>1, NatLessThanWellFounded, WFMin
<1>3. \A n \in S : ~(n < m)
  BY <1>1, <1>2 DEF OpToRel
<1>4. \A n \in S : m <= n
  BY <1>1, <1>3
<1> QED BY <1>4 DEF Oldest

\* Taking one element out of a sequence.
LEMMA Removal ==
    ASSUME NEW S, NEW s \in Seq(S), NEW i \in 1..Len(s)
    PROVE  /\ RemoveAt(s, i) \in Seq(S) /\ Len(RemoveAt(s, i)) = Len(s) - 1
           /\ \A j \in 1..(Len(s) - 1) : RemoveAt(s, i)[j] = IF j < i THEN s[j] ELSE s[j + 1]
<1> DEFINE l == SubSeq(s, 1, i - 1)
           r == SubSeq(s, i + 1, Len(s))
<1>1. /\ l \in Seq(S) /\ Len(l) = i - 1 /\ \A j \in 1..(i - 1) : l[j] = s[j]
      /\ r \in Seq(S) /\ Len(r) = Len(s) - i /\ \A j \in 1..(Len(s) - i) : r[j] = s[i + j]
      /\ Len(s) \in Nat /\ i \in Nat
  BY SubSeqProperties
<1> HIDE DEF l, r
<1>2. /\ l \o r \in Seq(S) /\ Len(l \o r) = Len(l) + Len(r)
      /\ \A j \in 1..(Len(l) + Len(r)) : (l \o r)[j] = IF j <= Len(l) THEN l[j] ELSE r[j - Len(l)]
  BY <1>1, ConcatProperties
<1>3. Len(l) + Len(r) = Len(s) - 1
  BY <1>1
<1>4. ASSUME NEW j \in 1..(Len(s) - 1) PROVE (l \o r)[j] = IF j < i THEN s[j] ELSE s[j + 1]
  <2>1. CASE j <= i - 1
    BY <1>1, <1>2, <1>3, <2>1
  <2>2. CASE j > i - 1
    <3>1. j - (i - 1) \in 1..(Len(s) - i) /\ i + (j - (i - 1)) = j + 1
      BY <1>1, <2>2
    <3>2. (l \o r)[j] = r[j - (i - 1)]
      BY <1>1, <1>2, <1>3, <2>2
    <3>3. r[j - (i - 1)] = s[j + 1]
      BY <1>1, <3>1
    <3> QED BY <1>1, <2>2, <3>2, <3>3
  <2> QED BY <1>1, <2>1, <2>2
<1> QED BY <1>2, <1>3, <1>4 DEF RemoveAt, l, r

-----------------------------------------------------------------------------
(* Types.                                                                  *)

LEMMA InitTypes == Init => Types
<1> SUFFICES ASSUME Init PROVE Types OBVIOUS
<1>1. Idle \in [step : Steps, env : Envelopes]
  BY Bounds, Made DEF Idle, Steps
<1>2. queue \in Seq(QueueEntry) /\ accepted \in Seq(Envelopes) /\ mailbox \in Seq(Entry)
      /\ handed \in 0..Len(mailbox)
  BY DEF Init
<1> QED BY <1>1, <1>2, Bounds DEF Init, Types, Rows, Absent

\* The head of the queue, and what remains of it.
LEMMA Heads ==
    ASSUME Types, queue # <<>>
    PROVE  /\ Head(queue) = queue[1] /\ Head(queue) \in QueueEntry /\ Head(queue).env \in Envelopes
           /\ Head(queue).by \in Own..Nobody /\ Tail(queue) \in Seq(QueueEntry)
           /\ Len(queue) \in Nat /\ Len(queue) > 0 /\ 1 \in DOMAIN queue
<1>1. queue \in Seq(QueueEntry)
  BY DEF Types
<1>2. Len(queue) \in Nat /\ Len(queue) > 0 /\ DOMAIN queue = 1..Len(queue)
      /\ Head(queue) = queue[1] /\ Head(queue) \in QueueEntry /\ Tail(queue) \in Seq(QueueEntry)
  BY <1>1
<1> QED BY <1>2 DEF QueueEntry

LEMMA Appends ==
    ASSUME NEW s \in Seq(QueueEntry), NEW e \in Envelopes, NEW by \in Own..Nobody
    PROVE  Append(s, Queued(e, by)) \in Seq(QueueEntry) /\ Queued(e, by).by = by /\ Queued(e, by).env = e
<1>1. Queued(e, by) \in QueueEntry /\ Queued(e, by).by = by /\ Queued(e, by).env = e
  BY DEF Queued, QueueEntry
<1> QED BY <1>1

LEMMA GoesOnTypes ==
    ASSUME Types, queue # <<>>, NEW by \in Own..Nobody, GoesOn(by)
    PROVE  queue' \in Seq(QueueEntry) /\ rest' \in [Loop -> SUBSET Msg]
<1>1. Tail(queue) \in Seq(QueueEntry) /\ rest \in [Loop -> SUBSET Msg]
  BY Heads DEF Types
<1>2. CASE by \in Loop
  <2> DEFINE left == Younger(rest[by])
  <2>1. left \subseteq Msg
    BY <1>1, <1>2 DEF Younger
  <2>2. left # {} => First(Oldest(left)) \in Envelopes
    BY <2>1, OldestIsOne, Made
  <2>3. rest' = [rest EXCEPT ![by] = left]
        /\ queue' = IF left = {} THEN Tail(queue) ELSE Append(Tail(queue), Queued(First(Oldest(left)), by))
    BY <1>2 DEF GoesOn
  <2> HIDE DEF left
  <2> QED BY <1>1, <1>2, <2>1, <2>2, <2>3, Appends
<1>3. CASE by \notin Loop
  BY <1>1, <1>3 DEF GoesOn
<1> QED BY <1>2, <1>3

LEMMA SettlesTypes ==
    ASSUME Types, NEW m \in Msg, NEW status \in Rows, SetStatus(m, status)
    PROVE  row' \in [Msg -> Rows]
BY DEF Types, SetStatus

LEMMA DiesTypes ==
    ASSUME Types, queue # <<>>, NEW by \in Own..Nobody, Dies(by)
    PROVE  queue' \in Seq(QueueEntry) /\ rest' \in [Loop -> SUBSET Msg] /\ row' = row
<1>1. Tail(queue) \in Seq(QueueEntry) /\ rest \in [Loop -> SUBSET Msg]
  BY Heads DEF Types
<1> QED BY <1>1 DEF Dies

LEMMA Spending ==
    ASSUME Types, NEW kind, Spend(kind)
    PROVE  spent' \in 0..MaxFaults
BY Bounds DEF Types, Spend

LEMMA AuthorTypes ==
    ASSUME Types, AuthorNext
    PROVE  Types'
<1> USE DEF author, relay, reader
<1>0. Own \in Own..Nobody /\ Nobody \in Own..Nobody /\ Loop \subseteq Own..Nobody
  BY Bounds
<1>f. {"new", "sending", "sent", "failed", "gone"} = Rows
  BY DEF Rows
<1>1. ASSUME NEW m \in Msg, Send(m) PROVE Types'
  <2>1. queue' \in Seq(QueueEntry)
    BY <1>0, <1>1, Made, Appends DEF Send, Types
  <2>2. row' \in [Msg -> Rows]
    BY <1>1, <1>f DEF Send, Types
  <2> QED BY <1>1, <2>1, <2>2 DEF Send, Types
<1>2. ASSUME NEW m \in Msg, DeleteForMe(m) PROVE Types'
  <2>1. row' \in [Msg -> Rows]
    BY <1>2, <1>f DEF DeleteForMe, Types
  <2> QED BY <1>2, <2>1 DEF DeleteForMe, Types
<1>3. ASSUME NEW m \in Msg, DeleteForEveryone(m) PROVE Types'
  <2>1. queue' \in Seq(QueueEntry)
    BY <1>0, <1>3, Made, Appends DEF DeleteForEveryone, Types
  <2>2. row' \in [Msg -> Rows]
    BY <1>3, <1>f DEF DeleteForEveryone, Types
  <2> QED BY <1>3, <2>1, <2>2 DEF DeleteForEveryone, Types
<1>4. CASE Answered
  <2> DEFINE e == Head(queue).env
             by == Head(queue).by
  <2>1. queue # <<>> /\ e \in Envelopes /\ by \in Own..Nobody /\ Tail(queue) \in Seq(QueueEntry) /\ e.m \in Msg
    BY <1>4, Heads, Cases DEF Answered
  <2>2. UNCHANGED <<unlocked, relay, reader, spent>>
    BY <1>4 DEF Answered
  <2>3. queue' \in Seq(QueueEntry) /\ rest' \in [Loop -> SUBSET Msg] /\ row' \in [Msg -> Rows]
    <3>0. rest \in [Loop -> SUBSET Msg] /\ row \in [Msg -> Rows]
      BY DEF Types
    <3>1. CASE queue' = Tail(queue) /\ UNCHANGED <<row, rest>>
      BY <2>1, <3>0, <3>1
    <3>2. CASE Dies(by)
      BY <2>1, <3>0, <3>2, DiesTypes
    <3>3. CASE HasNext(e) /\ queue' = Append(Tail(queue), Queued(NextPart(e), by)) /\ UNCHANGED <<row, rest>>
      BY <2>1, <3>0, <3>3, NextIsPart, Appends
    <3>4. CASE SetStatus(e.m, "sent") /\ GoesOn(by)
      BY <1>f, <2>1, <3>4, SettlesTypes, GoesOnTypes
    <3> QED BY <1>4, <3>1, <3>2, <3>3, <3>4 DEF Answered
  <2> QED BY <2>2, <2>3 DEF Types
<1>5. CASE Refused
  <2> DEFINE e == Head(queue).env
             by == Head(queue).by
  <2>1. queue # <<>> /\ e \in Envelopes /\ by \in Own..Nobody /\ Tail(queue) \in Seq(QueueEntry) /\ e.m \in Msg
    BY <1>5, Heads, Cases DEF Refused
  <2>2. UNCHANGED <<unlocked, relay, reader>> /\ spent' \in 0..MaxFaults
    BY <1>5, Spending DEF Refused
  <2>3. queue' \in Seq(QueueEntry) /\ rest' \in [Loop -> SUBSET Msg] /\ row' \in [Msg -> Rows]
    <3>0. rest \in [Loop -> SUBSET Msg] /\ row \in [Msg -> Rows]
      BY DEF Types
    <3>1. CASE queue' = Tail(queue) /\ UNCHANGED <<row, rest>>
      BY <2>1, <3>0, <3>1
    <3>2. CASE Dies(by)
      BY <2>1, <3>0, <3>2, DiesTypes
    <3>4. CASE SetStatus(e.m, "failed") /\ GoesOn(by)
      BY <1>f, <2>1, <3>4, SettlesTypes, GoesOnTypes
    <3> QED BY <1>5, <3>1, <3>2, <3>4 DEF Refused
  <2> QED BY <2>2, <2>3 DEF Types
<1>6. CASE KillAuthor
  <2>1. queue' = <<>> /\ rest' = [k \in Loop |-> {}] /\ spent' \in 0..MaxFaults
    BY <1>6, Spending DEF KillAuthor
  <2>2. queue' \in Seq(QueueEntry) /\ rest' \in [Loop -> SUBSET Msg]
    BY <2>1
  <2> QED BY <1>6, <2>1, <2>2 DEF KillAuthor, Types
<1>7. CASE LockAuthor
  <2>1. spent' \in 0..MaxFaults
    BY <1>7, Spending DEF LockAuthor
  <2> QED BY <1>7, <2>1 DEF LockAuthor, Types
<1>8. CASE UnlockAuthor
  <2> DEFINE pending == {m \in Msg : row[m] = "sending"}
  <2>1. pending # {} => First(Oldest(pending)) \in Envelopes
    BY OldestIsOne, Made
  <2>2. pending \subseteq Msg
    OBVIOUS
  <2>3. unlocked' = TRUE /\ UNCHANGED <<row, relay, reader, spent>>
        /\ IF pending = {} THEN UNCHANGED <<queue, rest>>
           ELSE \E k \in Loop : /\ rest' = [rest EXCEPT ![k] = pending]
                                /\ queue' = Append(queue, Queued(First(Oldest(pending)), k))
    BY <1>8 DEF UnlockAuthor
  <2> HIDE DEF pending
  <2>4. queue' \in Seq(QueueEntry) /\ rest' \in [Loop -> SUBSET Msg]
    <3>0. queue \in Seq(QueueEntry) /\ rest \in [Loop -> SUBSET Msg]
      BY DEF Types
    <3>1. CASE pending = {}
      BY <2>3, <3>0, <3>1
    <3>2. CASE pending # {}
      <4>1. PICK k \in Loop : /\ rest' = [rest EXCEPT ![k] = pending]
                              /\ queue' = Append(queue, Queued(First(Oldest(pending)), k))
        BY <2>3, <3>2
      <4>2. k \in Own..Nobody
        BY <1>0
      <4>3. queue' \in Seq(QueueEntry)
        BY <2>1, <3>0, <3>2, <4>1, <4>2, Appends
      <4> QED BY <2>2, <3>0, <4>1, <4>3
    <3> QED BY <3>1, <3>2
  <2> QED BY <2>3, <2>4 DEF Types
<1> QED BY <1>1, <1>2, <1>3, <1>4, <1>5, <1>6, <1>7, <1>8 DEF AuthorNext

\* An envelope the reader has not acknowledged, found and taken out.
LEMMA Found ==
    ASSUME Types, NEW e, InMailbox(e)
    PROVE  At(e) \in 1..Len(mailbox) /\ mailbox[At(e)].env = e
<1>1. DOMAIN mailbox = 1..Len(mailbox)
  BY DEF Types
<1> QED BY <1>1 DEF InMailbox, At

LEMMA AcksTypes ==
    ASSUME Types, NEW e, Acks(e)
    PROVE  mailbox' \in Seq(Entry) /\ handed' \in 0..Len(mailbox')
<1>0. mailbox \in Seq(Entry) /\ handed \in 0..Len(mailbox) /\ Len(mailbox) \in Nat
  BY DEF Types
<1>1. CASE InMailbox(e)
  <2> DEFINE i == At(e)
  <2>1. i \in 1..Len(mailbox)
    BY <1>1, Found
  <2>2. mailbox' = RemoveAt(mailbox, i) /\ handed' = IF i <= handed THEN handed - 1 ELSE handed
    BY <1>1 DEF Acks
  <2> HIDE DEF i
  <2>3. mailbox' \in Seq(Entry) /\ Len(mailbox') = Len(mailbox) - 1
    BY <1>0, <2>1, <2>2, Removal
  <2> QED BY <1>0, <2>1, <2>2, <2>3
<1>2. CASE ~InMailbox(e)
  BY <1>0, <1>2 DEF Acks
<1> QED BY <1>1, <1>2

\* The envelope a socket delivers next.
LEMMA Delivered ==
    ASSUME Types, handed < Len(mailbox)
    PROVE  /\ handed + 1 \in 1..Len(mailbox) /\ DOMAIN mailbox = 1..Len(mailbox)
           /\ mailbox[handed + 1] \in Entry /\ mailbox[handed + 1].env \in Envelopes
           /\ mailbox[handed + 1].env.m \in Msg
<1>1. handed + 1 \in 1..Len(mailbox) /\ DOMAIN mailbox = 1..Len(mailbox) /\ mailbox[handed + 1] \in Entry
  BY DEF Types
<1> QED BY <1>1, Cases DEF Entry

LEMMA ReceiveTypes == ASSUME Types, Receive PROVE Types'
<1> DEFINE e == mailbox[handed + 1].env
<1>1. /\ handed < Len(mailbox)
      /\ UNCHANGED <<author, accepted, stored, staged, open, alive, spent>>
      /\ Leaves \/ Duplicate \/ Decrypts
  BY DEF Receive
<1>2. handed + 1 \in 1..Len(mailbox) /\ e \in Envelopes /\ e.m \in Msg /\ mailbox[handed + 1] \in Entry
  BY <1>1, Delivered
<1>3. mailbox \in Seq(Entry) /\ handed \in 0..Len(mailbox) /\ handler \in [step : Steps, env : Envelopes]
      /\ missed \subseteq Msg
  BY DEF Types
<1>4. handed' = handed + 1 /\ missed' \subseteq Msg
  BY <1>1, <1>2, <1>3 DEF Leaves, Duplicate, Decrypts
<1>5. handler' \in [step : Steps, env : Envelopes]
  <2>1. {"done", "decrypted"} \subseteq Steps
    BY DEF Steps
  <2> QED BY <1>1, <1>2, <1>3, <2>1 DEF Leaves, Duplicate, Decrypts
<1>6. mailbox' \in Seq(Entry) /\ Len(mailbox') = Len(mailbox)
  <2>1. CASE mailbox' = mailbox
    BY <1>3, <2>1
  <2>2. CASE mailbox' = [mailbox EXCEPT ![handed + 1].read = TRUE]
    <3>1. [mailbox[handed + 1] EXCEPT !.read = TRUE] \in Entry
      BY <1>2 DEF Entry
    <3> QED BY <1>2, <1>3, <2>2, <3>1
  <2> QED BY <1>1, <2>1, <2>2 DEF Leaves, Duplicate, Decrypts
<1>7. handed' \in 0..Len(mailbox')
  BY <1>2, <1>3, <1>4, <1>6
<1> QED BY <1>1, <1>4, <1>5, <1>6, <1>7 DEF Types, author

LEMMA StoreTypes == ASSUME Types, Store PROVE Types'
<1> DEFINE e == handler.env
<1>1. /\ handler \in [step : Steps, env : Envelopes] /\ e.m \in Msg /\ {"done", "complete"} \subseteq Steps
      /\ stored \in [Msg -> {"none", "shown", "gone"}] /\ staged \in [Msg -> SUBSET Int]
  BY Cases DEF Types, Steps
<1>2. UNCHANGED <<author, relay, open, alive, missed, spent>>
  BY DEF Store
<1>3. stored' \in [Msg -> {"none", "shown", "gone"}] /\ staged' \in [Msg -> SUBSET Int]
      /\ handler' \in [step : Steps, env : Envelopes]
  <2>1. CASE StoresText(e.m)
    BY <1>1, <2>1 DEF StoresText, Shows, To
  <2>2. CASE Announced(e.m)
    BY <1>1, <2>2 DEF Announced, To
  <2>3. CASE e.kind = "chunk" /\ StoresChunk(e.m, e.seq)
    <3>0. e \in Envelopes
      BY <1>1
    <3>1. e.seq \in 0..(Chunks[e.m] - 1) /\ Chunks[e.m] \in Nat
      BY <1>1, <2>3, <3>0, Cases, Kinds, Bounds
    <3>2. e.seq \in Int
      BY <3>1
    <3> QED BY <1>1, <2>3, <3>2 DEF StoresChunk, To
  <2>4. CASE Retracts(e.m)
    BY <1>1, <2>4 DEF Retracts, To, Absent
  <2> QED BY <2>1, <2>2, <2>3, <2>4 DEF Store
<1> QED BY <1>2, <1>3 DEF Types, author, relay

LEMMA ReaderTypes ==
    ASSUME Types, ReaderNext
    PROVE  Types'
<1> USE DEF author, relay, reader
<1>0. Idle \in [step : Steps, env : Envelopes] /\ "done" \in Steps
  BY Bounds, Made DEF Idle, Steps
<1>1. CASE Receive
  BY <1>1, ReceiveTypes
<1>2. CASE Store
  BY <1>2, StoreTypes
<1>3. CASE Assemble
  <2>1. handler.env.m \in Msg /\ handler \in [step : Steps, env : Envelopes]
    BY Cases DEF Types
  <2> QED BY <1>0, <1>3, <2>1 DEF Assemble, Shows, To, Absent, Types
<1>4. CASE Ack
  <2>1. mailbox' \in Seq(Entry) /\ handed' \in 0..Len(mailbox') /\ spent' \in 0..MaxFaults
    <3>1. CASE Acks(handler.env) /\ spent' = spent
      BY <3>1, AcksTypes DEF Types
    <3>2. CASE Spend("drop") /\ handed' = 0 /\ mailbox' = mailbox
      BY <3>2, Spending DEF Types
    <3> QED BY <1>4, <3>1, <3>2 DEF Ack
  <2> QED BY <1>0, <1>4, <2>1 DEF Ack, Types
<1>5. ASSUME NEW m \in Msg, ReaderDeletes(m) PROVE Types'
  BY <1>5 DEF ReaderDeletes, Types
<1>6. CASE LockReader
  <2>1. spent' \in 0..MaxFaults
    BY <1>6, Spending DEF LockReader
  <2> QED BY <1>0, <1>6, <2>1 DEF LockReader, Types
<1>7. CASE KillReader
  <2>1. spent' \in 0..MaxFaults
    BY <1>7, Spending DEF KillReader
  <2>2. handed' \in 0..Len(mailbox')
    <3>1. Len(mailbox) \in Nat
      BY DEF Types
    <3>2. handed' = 0 /\ mailbox' = mailbox
      BY <1>7 DEF KillReader
    <3> QED BY <3>1, <3>2
  <2> QED BY <1>0, <1>7, <2>1, <2>2 DEF KillReader, Types
<1>8. CASE UnlockReader
  BY <1>8 DEF UnlockReader, Types
<1>9. CASE NewSocket
  BY <1>9 DEF NewSocket, Types
<1> QED BY <1>1, <1>2, <1>3, <1>4, <1>5, <1>6, <1>7, <1>8, <1>9 DEF ReaderNext

LEMMA StepTypes ==
    ASSUME Types, [Next]_vars
    PROVE  Types'
<1> USE DEF author, relay, reader
<1>1. CASE AuthorNext
  BY <1>1, AuthorTypes
<1>2. CASE RelayAccepts
  <2> DEFINE e == Head(queue).env
  <2>1. e \in Envelopes /\ [env |-> e, read |-> FALSE] \in Entry
    BY <1>2, Heads DEF RelayAccepts, Entry
  <2>2. accepted' = Append(accepted, e) /\ mailbox' = Append(mailbox, [env |-> e, read |-> FALSE])
        /\ UNCHANGED <<author, handed, reader, spent>>
    BY <1>2 DEF RelayAccepts
  <2> HIDE DEF e
  <2>3. accepted' \in Seq(Envelopes) /\ mailbox' \in Seq(Entry) /\ handed' \in 0..Len(mailbox')
    BY <2>1, <2>2 DEF Types
  <2> QED BY <2>2, <2>3 DEF Types
<1>3. CASE Drop
  <2>1. spent' \in 0..MaxFaults
    BY <1>3, Spending DEF Drop
  <2> QED BY <1>3, <2>1 DEF Drop, Types
<1>4. CASE ReaderNext
  BY <1>4, ReaderTypes
<1>5. CASE UNCHANGED vars
  BY <1>5 DEF vars, Types
<1> QED BY <1>1, <1>2, <1>3, <1>4, <1>5 DEF Next

-----------------------------------------------------------------------------
(* The author: who waits for what.                                         *)

\* The elements of a sequence one of which was taken off or put on.
LEMMA Tails ==
    ASSUME NEW S, NEW s \in Seq(S), s # <<>>
    PROVE  /\ Len(s) \in Nat /\ Len(s) > 0 /\ DOMAIN s = 1..Len(s) /\ Head(s) = s[1]
           /\ Tail(s) \in Seq(S) /\ DOMAIN Tail(s) = 1..(Len(s) - 1)
           /\ \A i \in 1..(Len(s) - 1) : Tail(s)[i] = s[i + 1]
OBVIOUS

LEMMA Grown ==
    ASSUME NEW S, NEW s \in Seq(S), NEW q \in S
    PROVE  /\ Append(s, q) \in Seq(S) /\ Len(s) \in Nat /\ DOMAIN s = 1..Len(s)
           /\ Len(Append(s, q)) = Len(s) + 1 /\ DOMAIN Append(s, q) = 1..(Len(s) + 1)
           /\ \A i \in 1..Len(s) : Append(s, q)[i] = s[i]
           /\ Append(s, q)[Len(s) + 1] = q
OBVIOUS

LEMMA WaitsAppend ==
    ASSUME NEW T, NEW s \in Seq(T), NEW q \in T, NEW R, NEW k, Waits(s, R, k), q.by # k
    PROVE  Waits(Append(s, q), R, k)
<1> PICK t : t = Append(s, q)
  OBVIOUS
<1>1. Len(s) \in Nat /\ DOMAIN s = 1..Len(s) /\ DOMAIN t = 1..(Len(s) + 1) /\ t[Len(s) + 1] = q
      /\ \A i \in 1..Len(s) : t[i] = s[i]
  BY Grown
<1>2. \A j \in DOMAIN t : t[j].by = k => j \in DOMAIN s /\ t[j] = s[j]
  BY <1>1
<1>3. CASE R = {}
  BY <1>2, <1>3 DEF Waits
<1>4. CASE R # {}
  <2>1. PICK i \in DOMAIN s : /\ s[i].by = k /\ s[i].env \in Parts(Oldest(R))
                              /\ \A j \in DOMAIN s : s[j].by = k => j = i
    BY <1>4 DEF Waits
  <2>2. i \in DOMAIN t /\ t[i] = s[i]
    BY <1>1, <2>1
  <2> QED BY <1>2, <1>4, <2>1, <2>2 DEF Waits
<1> QED BY <1>3, <1>4

LEMMA WaitsTail ==
    ASSUME NEW T, NEW s \in Seq(T), s # <<>>, NEW R, NEW k, Waits(s, R, k), s[1].by # k
    PROVE  Waits(Tail(s), R, k)
<1> PICK t : t = Tail(s)
  OBVIOUS
<1>1. Len(s) \in Nat /\ DOMAIN s = 1..Len(s) /\ DOMAIN t = 1..(Len(s) - 1)
      /\ \A i \in 1..(Len(s) - 1) : t[i] = s[i + 1]
  BY Tails
<1>2. \A j \in DOMAIN t : j + 1 \in DOMAIN s /\ t[j] = s[j + 1]
  BY <1>1
<1>3. CASE R = {}
  BY <1>2, <1>3 DEF Waits
<1>4. CASE R # {}
  <2>1. PICK i \in DOMAIN s : /\ s[i].by = k /\ s[i].env \in Parts(Oldest(R))
                              /\ \A j \in DOMAIN s : s[j].by = k => j = i
    BY <1>4 DEF Waits
  <2>2. i - 1 \in DOMAIN t /\ t[i - 1] = s[i]
    BY <1>1, <2>1
  <2>3. \A j \in DOMAIN t : t[j].by = k => j = i - 1
    <3> SUFFICES ASSUME NEW j \in DOMAIN t, t[j].by = k PROVE j = i - 1
      OBVIOUS
    <3>1. j + 1 = i
      BY <1>2, <2>1
    <3> QED BY <1>1, <2>1, <3>1
  <2> QED BY <1>4, <2>1, <2>2, <2>3 DEF Waits
<1> QED BY <1>3, <1>4

\* Once its entry is off the queue, the loop waits for nothing.
LEMMA WaitsOver ==
    ASSUME NEW T, NEW s \in Seq(T), s # <<>>, NEW R, NEW k, Waits(s, R, k), s[1].by = k
    PROVE  R # {} /\ s[1].env \in Parts(Oldest(R)) /\ Waits(Tail(s), {}, k)
<1> PICK t : t = Tail(s)
  OBVIOUS
<1>1. Len(s) \in Nat /\ Len(s) > 0 /\ DOMAIN s = 1..Len(s) /\ DOMAIN t = 1..(Len(s) - 1)
      /\ \A i \in 1..(Len(s) - 1) : t[i] = s[i + 1]
  BY Tails
<1>2. 1 \in DOMAIN s
  BY <1>1
<1>3. R # {} /\ s[1].env \in Parts(Oldest(R)) /\ \A j \in DOMAIN s : s[j].by = k => j = 1
  BY <1>2 DEF Waits
<1>4. \A j \in DOMAIN t : t[j].by # k
  <2> SUFFICES ASSUME NEW j \in DOMAIN t PROVE t[j].by # k
    OBVIOUS
  <2>1. t[j] = s[j + 1] /\ j + 1 \in DOMAIN s /\ j + 1 # 1
    BY <1>1
  <2> QED BY <1>3, <2>1
<1> QED BY <1>3, <1>4 DEF Waits

LEMMA WaitsStart ==
    ASSUME NEW T, NEW s \in Seq(T), NEW q \in T, NEW R, NEW k,
           Waits(s, {}, k), R # {}, q.by = k, q.env \in Parts(Oldest(R))
    PROVE  Waits(Append(s, q), R, k)
<1> PICK t : t = Append(s, q)
  OBVIOUS
<1>1. Len(s) \in Nat /\ DOMAIN s = 1..Len(s) /\ DOMAIN t = 1..(Len(s) + 1) /\ t[Len(s) + 1] = q
      /\ \A i \in 1..Len(s) : t[i] = s[i]
  BY Grown
<1>2. \A j \in DOMAIN s : s[j].by # k
  BY DEF Waits
<1>3. \A j \in DOMAIN t : t[j].by = k => j = Len(s) + 1
  BY <1>1, <1>2
<1>4. Len(s) + 1 \in DOMAIN t
  BY <1>1
<1> QED BY <1>1, <1>3, <1>4 DEF Waits

\* The head of the queue goes; the loop that waited for it, if any, is left with S.
LEMMA RestWaits ==
    ASSUME Types, AllWait, queue # <<>>,
           NEW by, by = Head(queue).by, NEW k \in Loop
    PROVE  /\ by # k => Waits(Tail(queue), rest[k], k)
           /\ by = k => /\ Waits(Tail(queue), {}, k) /\ rest[k] # {} /\ rest[k] \subseteq Msg
                        /\ Head(queue).env \in Parts(Oldest(rest[k]))
<1>1. queue \in Seq(QueueEntry) /\ Head(queue) = queue[1] /\ Waits(queue, rest[k], k) /\ rest[k] \subseteq Msg
  BY Heads DEF AllWait, Types
<1>2. CASE by # k
  BY <1>1, <1>2, WaitsTail
<1>3. CASE by = k
  BY <1>1, <1>3, WaitsOver
<1> QED BY <1>2, <1>3

LEMMA GoesOnWaits ==
    ASSUME Types, AllWait, queue # <<>>, NEW by, by = Head(queue).by, GoesOn(by)
    PROVE  AllWait'
<1> SUFFICES ASSUME NEW k \in Loop PROVE Waits(queue', rest'[k], k)
  BY DEF AllWait
<1>0. Tail(queue) \in Seq(QueueEntry) /\ by \in Own..Nobody /\ rest \in [Loop -> SUBSET Msg]
  BY Heads DEF Types
<1>1. CASE by \notin Loop
  <2>1. queue' = Tail(queue) /\ rest' = rest /\ by # k
    BY <1>1 DEF GoesOn
  <2> QED BY <2>1, RestWaits
<1>2. CASE by \in Loop
  <2> DEFINE left == Younger(rest[by])
             q == Queued(First(Oldest(left)), by)
  <2>1. rest' = [rest EXCEPT ![by] = left]
        /\ queue' = IF left = {} THEN Tail(queue) ELSE Append(Tail(queue), q)
    BY <1>2 DEF GoesOn
  <2>2. left \subseteq Msg
    BY <1>0, <1>2 DEF Younger
  <2>3. left # {} => q \in QueueEntry /\ q.by = by /\ q.env \in Parts(Oldest(left))
    <3>1. ASSUME left # {} PROVE Oldest(left) \in Msg
      BY <2>2, <3>1, OldestIsOne
    <3>2. ASSUME left # {} PROVE First(Oldest(left)) \in Envelopes /\ First(Oldest(left)) \in Parts(Oldest(left))
      BY <3>1, <3>2, Made
    <3> QED BY <1>0, <3>2 DEF Queued, QueueEntry
  <2> HIDE DEF left, q
  <2>4. CASE k = by
    <3>1. rest'[k] = left /\ Waits(Tail(queue), {}, k)
      BY <1>0, <2>1, <2>4, RestWaits
    <3>2. CASE left = {}
      BY <2>1, <3>1, <3>2
    <3>3. CASE left # {}
      BY <1>0, <2>1, <2>3, <2>4, <3>1, <3>3, WaitsStart
    <3> QED BY <3>2, <3>3
  <2>5. CASE k # by
    <3>1. rest'[k] = rest[k] /\ Waits(Tail(queue), rest[k], k)
      BY <1>0, <2>1, <2>5, RestWaits
    <3>2. CASE left = {}
      BY <2>1, <3>1, <3>2
    <3>3. CASE left # {}
      BY <1>0, <2>1, <2>3, <2>5, <3>1, <3>3, WaitsAppend
    <3> QED BY <3>2, <3>3
  <2> QED BY <2>4, <2>5
<1> QED BY <1>1, <1>2

LEMMA DiesWaits ==
    ASSUME Types, AllWait, queue # <<>>, NEW by, by = Head(queue).by, Dies(by)
    PROVE  AllWait'
<1> SUFFICES ASSUME NEW k \in Loop PROVE Waits(queue', rest'[k], k)
  BY DEF AllWait
<1>1. rest \in [Loop -> SUBSET Msg] /\ queue' = Tail(queue)
      /\ rest' = IF by \in Loop THEN [rest EXCEPT ![by] = {}] ELSE rest
  BY DEF Types, Dies
<1>2. CASE by = k
  <2>1. rest'[k] = {} /\ Waits(Tail(queue), {}, k)
    BY <1>1, <1>2, RestWaits
  <2> QED BY <1>1, <2>1
<1>3. CASE by # k
  <2>1. rest'[k] = rest[k] /\ Waits(Tail(queue), rest[k], k)
    BY <1>1, <1>3, RestWaits
  <2> QED BY <1>1, <2>1
<1> QED BY <1>2, <1>3

\* The next part of the same message takes the place of the one accepted.
LEMMA ContinuesWaits ==
    ASSUME Types, AllWait, queue # <<>>, NEW by, by = Head(queue).by,
           HasNext(Head(queue).env), rest' = rest,
           queue' = Append(Tail(queue), Queued(NextPart(Head(queue).env), by))
    PROVE  AllWait'
<1> DEFINE e == Head(queue).env
           q == Queued(NextPart(e), by)
<1> SUFFICES ASSUME NEW k \in Loop PROVE Waits(queue', rest[k], k)
  BY DEF AllWait
<1>0. Tail(queue) \in Seq(QueueEntry) /\ by \in Own..Nobody /\ e \in Envelopes
  BY Heads
<1>1. q \in QueueEntry /\ q.by = by /\ q.env \in Parts(e.m)
  BY <1>0, NextIsPart DEF Queued, QueueEntry
<1>2. queue' = Append(Tail(queue), q)
  OBVIOUS
<1>3. CASE by # k
  <2>1. Waits(Tail(queue), rest[k], k)
    BY <1>3, RestWaits
  <2> HIDE DEF q
  <2> QED BY <1>0, <1>1, <1>2, <1>3, <2>1, WaitsAppend
<1>4. CASE by = k
  <2>1. Waits(Tail(queue), {}, k) /\ rest[k] # {} /\ rest[k] \subseteq Msg /\ e \in Parts(Oldest(rest[k]))
    BY <1>4, RestWaits
  <2>2. e.m = Oldest(rest[k])
    BY <2>1, Kinds DEF Parts
  <2> HIDE DEF q, e
  <2> QED BY <1>0, <1>1, <1>2, <1>4, <2>1, <2>2, WaitsStart
<1> QED BY <1>3, <1>4

LEMMA StepWaits ==
    ASSUME Types, AllWait, [Next]_vars
    PROVE  AllWait'
<1> USE DEF author, relay, reader
<1>0. queue \in Seq(QueueEntry) /\ rest \in [Loop -> SUBSET Msg] /\ Own \in Own..Nobody /\ Nobody \in Own..Nobody
  BY Bounds DEF Types
\* Nobody's and a call's own entries are nothing to a loop.
<1>a. ASSUME NEW e \in Envelopes, NEW by \in {Own, Nobody}, queue' = Append(queue, Queued(e, by)), rest' = rest
      PROVE  AllWait'
  <2> PICK q : q = Queued(e, by)
    OBVIOUS
  <2>1. q \in QueueEntry /\ q.by = by /\ by \notin Loop
    BY <1>0, Bounds DEF Queued, QueueEntry
  <2>2. \A k \in Loop : Waits(Append(queue, q), rest[k], k)
    <3> SUFFICES ASSUME NEW k \in Loop PROVE Waits(Append(queue, q), rest[k], k)
      OBVIOUS
    <3>1. Waits(queue, rest[k], k)
      BY DEF AllWait
    <3> QED BY <1>0, <2>1, <3>1, WaitsAppend
  <2> QED BY <1>a, <2>2 DEF AllWait
<1>1. ASSUME NEW m \in Msg, Send(m) PROVE AllWait'
  BY <1>1, <1>a, Made DEF Send
<1>2. ASSUME NEW m \in Msg, DeleteForEveryone(m) PROVE AllWait'
  BY <1>2, <1>a, Made DEF DeleteForEveryone
<1>b. CASE UNCHANGED <<queue, rest>>
  BY <1>b DEF AllWait
<1>3. ASSUME NEW by, queue # <<>>, by = Head(queue).by,
             (queue' = Tail(queue) /\ rest' = rest /\ by \notin Loop) \/ Dies(by) \/ GoesOn(by)
      PROVE  AllWait'
  <2>1. CASE queue' = Tail(queue) /\ rest' = rest /\ by \notin Loop
    <3>1. GoesOn(by)
      BY <2>1 DEF GoesOn
    <3> QED BY <1>3, <3>1, GoesOnWaits
  <2> QED BY <1>3, <2>1, DiesWaits, GoesOnWaits
<1>4. CASE Answered
  <2> DEFINE e == Head(queue).env
             by == Head(queue).by
  <2>1. CASE HasNext(e) /\ queue' = Append(Tail(queue), Queued(NextPart(e), by)) /\ UNCHANGED <<row, rest>>
    BY <1>4, <2>1, ContinuesWaits DEF Answered
  <2>2. CASE ~(HasNext(e) /\ queue' = Append(Tail(queue), Queued(NextPart(e), by)) /\ UNCHANGED <<row, rest>>)
    BY <1>3, <1>4, <2>2, Bounds DEF Answered
  <2> QED BY <2>1, <2>2
<1>5. CASE Refused
  BY <1>3, <1>5, Bounds DEF Refused
<1>6. CASE KillAuthor
  <2>1. queue' = <<>> /\ rest' = [k \in Loop |-> {}]
    BY <1>6 DEF KillAuthor
  <2>2. \A k \in Loop : Waits(<<>>, {}, k)
    BY DEF Waits
  <2> QED BY <2>1, <2>2 DEF AllWait
<1>7. CASE UnlockAuthor
  <2> DEFINE pending == {m \in Msg : row[m] = "sending"}
  <2>1. CASE pending = {}
    BY <1>7, <1>b, <2>1 DEF UnlockAuthor
  <2>2. CASE pending # {}
    <3>1. PICK k \in Loop : /\ rest[k] = {} /\ rest' = [rest EXCEPT ![k] = pending]
                            /\ queue' = Append(queue, Queued(First(Oldest(pending)), k))
      BY <1>7, <2>2 DEF UnlockAuthor
    <3> PICK q : q = Queued(First(Oldest(pending)), k)
      OBVIOUS
    <3>2. pending \subseteq Msg /\ Oldest(pending) \in Msg
      BY <2>2, OldestIsOne
    <3>3. First(Oldest(pending)) \in Envelopes /\ First(Oldest(pending)) \in Parts(Oldest(pending)) /\ k \in Own..Nobody
      BY <3>2, Made, Bounds
    <3>4. q \in QueueEntry /\ q.by = k /\ q.env \in Parts(Oldest(pending))
      BY <3>3 DEF Queued, QueueEntry
    <3>5. queue' = Append(queue, q)
      BY <3>1
    <3> HIDE DEF pending
    <3>6. ASSUME NEW j \in Loop PROVE Waits(queue', rest'[j], j)
      <4>1. Waits(queue, rest[j], j)
        BY DEF AllWait
      <4>2. CASE j = k
        <5>1. rest'[j] = pending /\ Waits(queue, {}, j)
          BY <1>0, <3>1, <4>1, <4>2
        <5> QED BY <1>0, <2>2, <3>4, <3>5, <4>2, <5>1, WaitsStart
      <4>3. CASE j # k
        <5>1. rest'[j] = rest[j]
          BY <1>0, <3>1, <4>3
        <5> QED BY <1>0, <3>4, <3>5, <4>1, <4>3, <5>1, WaitsAppend
      <4> QED BY <4>2, <4>3
    <3> QED BY <3>6 DEF AllWait
  <2> QED BY <2>1, <2>2
<1>8. CASE \E m \in Msg : DeleteForMe(m)
  BY <1>8, <1>b DEF DeleteForMe
<1>9. CASE LockAuthor \/ RelayAccepts \/ Drop \/ ReaderNext \/ UNCHANGED vars
  BY <1>9, <1>b DEF LockAuthor, RelayAccepts, Drop, ReaderNext, Receive, Store, Assemble, Ack, ReaderDeletes,
                    LockReader, KillReader, UnlockReader, NewSocket, vars
<1> QED BY <1>1, <1>2, <1>4, <1>5, <1>6, <1>7, <1>8, <1>9 DEF Next, AuthorNext

-----------------------------------------------------------------------------
(* The author: what was sent before.                                       *)

LEMMA AcceptedIsIn ==
    ASSUME Types, NEW e
    PROVE  Accepted(e) <=> \E i \in DOMAIN accepted : accepted[i] = e
BY DEF Accepted, Range

\* What the relay accepts it never forgets.
LEMMA AcceptsMore ==
    ASSUME Types, RelayAccepts
    PROVE  /\ Head(queue).env \in Envelopes /\ ~Accepted(Head(queue).env)
           /\ accepted' = Append(accepted, Head(queue).env)
           /\ mailbox' = Append(mailbox, [env |-> Head(queue).env, read |-> FALSE])
           /\ \A e : Accepted(e)' <=> Accepted(e) \/ e = Head(queue).env
<1>1. Head(queue).env \in Envelopes /\ ~Accepted(Head(queue).env)
      /\ accepted' = Append(accepted, Head(queue).env)
      /\ mailbox' = Append(mailbox, [env |-> Head(queue).env, read |-> FALSE])
  BY Heads DEF RelayAccepts
<1> PICK f : f = Head(queue).env
  OBVIOUS
<1>2. accepted \in Seq(Envelopes) /\ f \in Envelopes /\ accepted' = Append(accepted, f)
  BY <1>1 DEF Types
<1>3. ASSUME NEW e PROVE e \in Range(Append(accepted, f)) <=> e \in Range(accepted) \/ e = f
  <2> PICK s : s = Append(accepted, f)
    OBVIOUS
  <2>1. /\ DOMAIN accepted = 1..Len(accepted) /\ Len(accepted) \in Nat /\ DOMAIN s = 1..(Len(accepted) + 1)
        /\ \A i \in 1..Len(accepted) : s[i] = accepted[i]
        /\ s[Len(accepted) + 1] = f
    BY <1>2, Grown
  <2>2. \A i \in DOMAIN s : i \in DOMAIN accepted \/ i = Len(accepted) + 1
    BY <2>1
  <2> QED BY <2>1, <2>2 DEF Range
<1>4. \A e : Accepted(e)' <=> e \in Range(Append(accepted, f))
  BY <1>2 DEF Accepted
<1> QED BY <1>1, <1>3, <1>4 DEF Accepted

LEMMA AcceptedGrows ==
    ASSUME Types, [Next]_vars, NEW e, Accepted(e)
    PROVE  Accepted(e)'
<1>1. CASE RelayAccepts
  BY <1>1, AcceptsMore
<1>2. CASE accepted' = accepted
  BY <1>2 DEF Accepted
<1>3. RelayAccepts \/ accepted' = accepted
  BY DEF Next, AuthorNext, Drop, ReaderNext, Receive, Store, Assemble, Ack, ReaderDeletes, LockReader, KillReader,
         UnlockReader, NewSocket, Send, DeleteForMe, DeleteForEveryone, Answered, Refused, KillAuthor, LockAuthor,
         UnlockAuthor, vars, relay, author, reader
<1> QED BY <1>1, <1>2, <1>3

\* What is sent after an accepted part: everything before it was accepted.
LEMMA NextLed ==
    ASSUME NEW e \in Envelopes, HasNext(e), Accepted(e), Leads(e), NEW by, by # Nobody
    PROVE  Led(Queued(NextPart(e), by))
<1>0. Chunks[e.m] \in Nat /\ Queued(NextPart(e), by).env = NextPart(e) /\ Queued(NextPart(e), by).by = by
  BY Cases, Bounds DEF Queued
<1>1. CASE e = First(e.m)
  <2>1. NextPart(e) = Chunk(e.m, 0)
    BY <1>1, Kinds DEF NextPart
  <2> QED BY <1>0, <1>1, <2>1, Kinds DEF Led, Leads
<1>2. CASE e.seq \in 0..(Chunks[e.m] - 1) /\ e = Chunk(e.m, e.seq)
  <2>1. NextPart(e) = Chunk(e.m, e.seq + 1) /\ e.kind = "chunk"
    BY <1>2, Kinds DEF NextPart
  <2>2. Accepted(First(e.m)) /\ \A seq \in 0..(e.seq - 1) : Accepted(Chunk(e.m, seq))
    BY <2>1 DEF Leads
  <2>3. \A seq \in 0..e.seq : seq = e.seq \/ seq \in 0..(e.seq - 1)
    BY <1>0, <1>2
  <2>4. (e.seq + 1) - 1 = e.seq
    BY <1>0, <1>2
  <2>5. \A seq \in 0..e.seq : Accepted(Chunk(e.m, seq))
    BY <1>2, <2>2, <2>3
  <2>6. NextPart(e).kind = "chunk" /\ NextPart(e).m = e.m /\ NextPart(e).seq = e.seq + 1
    BY <2>1, Kinds
  <2> QED BY <1>0, <2>2, <2>4, <2>5, <2>6 DEF Led, Leads
<1>3. CASE e = Delete(e.m)
  BY <1>3, Kinds DEF HasNext
<1> QED BY <1>1, <1>2, <1>3, Cases

\* The last part: the message was accepted as a whole.
LEMMA LastMeansAll ==
    ASSUME NEW e \in Envelopes, ~HasNext(e), e.kind # "delete", Accepted(e), Leads(e)
    PROVE  AllAccepted(e.m)
<1>0. Chunks[e.m] \in Nat
  BY Cases, Bounds
<1>1. CASE e = First(e.m)
  <2>1. ~(0 < Chunks[e.m])
    BY <1>0, <1>1, Kinds DEF HasNext
  <2>2. 0..(Chunks[e.m] - 1) = {}
    BY <1>0, <2>1
  <2> QED BY <1>1, <2>2 DEF AllAccepted, Parts
<1>2. CASE e.seq \in 0..(Chunks[e.m] - 1) /\ e = Chunk(e.m, e.seq)
  <2>1. e.kind = "chunk"
    BY <1>2, Kinds
  <2>2. ~(e.seq + 1 < Chunks[e.m])
    BY <2>1 DEF HasNext
  <2>3. \A seq \in 0..(Chunks[e.m] - 1) : seq = e.seq \/ seq \in 0..(e.seq - 1)
    BY <1>0, <1>2, <2>2
  <2>4. Accepted(First(e.m)) /\ \A seq \in 0..(e.seq - 1) : Accepted(Chunk(e.m, seq))
    BY <2>1 DEF Leads
  <2> QED BY <1>2, <2>3, <2>4 DEF AllAccepted, Parts
<1>3. CASE e = Delete(e.m)
  BY <1>3, Kinds
<1> QED BY <1>1, <1>2, <1>3, Cases

LEMMA StaysLed ==
    ASSUME Types, [Next]_vars, NEW q, Led(q)
    PROVE  Led(q)'
BY AcceptedGrows DEF Led, Leads

\* A first envelope and a retraction follow nothing.
LEMMA StartsLed ==
    ASSUME NEW m \in Msg
    PROVE  /\ \A by : by # Nobody => Led(Queued(First(m), by))
           /\ Led(Queued(Delete(m), Nobody))
BY Kinds DEF Led, Leads, Queued

LEMMA OfTail ==
    ASSUME NEW S, NEW s \in Seq(S), s # <<>>, NEW i \in DOMAIN Tail(s)
    PROVE  \E j \in DOMAIN s : Tail(s)[i] = s[j]
<1>1. Len(s) \in Nat /\ DOMAIN s = 1..Len(s) /\ DOMAIN Tail(s) = 1..(Len(s) - 1)
      /\ \A j \in 1..(Len(s) - 1) : Tail(s)[j] = s[j + 1]
  BY Tails
<1>2. i + 1 \in DOMAIN s /\ i \in 1..(Len(s) - 1)
  BY <1>1
<1> QED BY <1>1, <1>2

LEMMA OfAppend ==
    ASSUME NEW S, NEW s \in Seq(S), NEW q \in S, NEW i \in DOMAIN Append(s, q)
    PROVE  Append(s, q)[i] = q \/ \E j \in DOMAIN s : Append(s, q)[i] = s[j]
<1>1. /\ Len(s) \in Nat /\ DOMAIN s = 1..Len(s) /\ DOMAIN Append(s, q) = 1..(Len(s) + 1)
      /\ \A j \in 1..Len(s) : Append(s, q)[j] = s[j]
      /\ Append(s, q)[Len(s) + 1] = q
  BY Grown
<1>2. i \in DOMAIN s \/ i = Len(s) + 1
  BY <1>1
<1> QED BY <1>1, <1>2

\* One entry may go, one that was led may come.
LEMMA QueueLed ==
    ASSUME Types, AllLed, [Next]_vars,
           \/ queue' = queue \/ queue' = <<>>
           \/ queue # <<>> /\ queue' = Tail(queue)
           \/ \E q \in QueueEntry : Led(q) /\ (queue' = Append(queue, q) \/ (queue # <<>> /\ queue' = Append(Tail(queue), q)))
    PROVE  AllLed'
<1> PICK t : t = queue'
  OBVIOUS
<1>1. queue \in Seq(QueueEntry) /\ DOMAIN queue = 1..Len(queue) /\ Len(queue) \in Nat
  BY DEF Types
<1>2. ASSUME NEW i \in DOMAIN t PROVE Led(t[i])
  <2>1. CASE t = queue
    BY <2>1 DEF AllLed
  <2>2. CASE t = <<>>
    BY <2>2
  <2>3. CASE queue # <<>> /\ t = Tail(queue)
    <3>1. i \in DOMAIN Tail(queue)
      BY <2>3
    <3>2. PICK j \in DOMAIN queue : Tail(queue)[i] = queue[j]
      BY <1>1, <2>3, <3>1, OfTail
    <3>3. Led(Tail(queue)[i])
      BY <3>2 DEF AllLed
    <3> QED BY <2>3, <3>3
  <2>4. ASSUME NEW q \in QueueEntry, Led(q), t = Append(queue, q)
        PROVE  Led(t[i])
    <3>0. i \in DOMAIN Append(queue, q)
      BY <2>4
    <3>1. Append(queue, q)[i] = q \/ \E j \in DOMAIN queue : Append(queue, q)[i] = queue[j]
      BY <1>1, <3>0, OfAppend
    <3> QED BY <2>4, <3>1 DEF AllLed
  <2>5. ASSUME NEW q \in QueueEntry, Led(q), queue # <<>>, t = Append(Tail(queue), q)
        PROVE  Led(t[i])
    <3>1. Tail(queue) \in Seq(QueueEntry)
      BY <1>1, <2>5, Tails
    <3>2. t[i] = q \/ \E j \in DOMAIN Tail(queue) : t[i] = Tail(queue)[j]
      BY <2>5, <3>1, OfAppend
    <3>3. \A j \in DOMAIN Tail(queue) : \E l \in DOMAIN queue : Tail(queue)[j] = queue[l]
      BY <1>1, <2>5, OfTail
    <3> QED BY <2>5, <3>2, <3>3 DEF AllLed
  <2> QED BY <2>1, <2>2, <2>3, <2>4, <2>5
<1>3. ASSUME NEW i \in DOMAIN t PROVE Led(t[i])'
  <2> PICK q : q = t[i]
    OBVIOUS
  <2>1. Led(q)'
    BY <1>2, StaysLed
  <2> QED BY <2>1
<1> QED BY <1>3 DEF AllLed

LEMMA StepLed ==
    ASSUME Types, AllLed, [Next]_vars
    PROVE  AllLed'
<1> USE DEF author, relay, reader
<1>0. Own \in Own..Nobody /\ Nobody \in Own..Nobody /\ Own # Nobody /\ Nobody \notin Loop
  BY Bounds
<1>a. ASSUME NEW m \in Msg, NEW by \in Own..Nobody
      PROVE  Queued(First(m), by) \in QueueEntry /\ Queued(Delete(m), by) \in QueueEntry
  BY Made DEF Queued, QueueEntry
<1>1. ASSUME NEW m \in Msg, Send(m) PROVE AllLed'
  <2>1. queue' = Append(queue, Queued(First(m), Own))
    BY <1>1 DEF Send
  <2>2. Led(Queued(First(m), Own)) /\ Queued(First(m), Own) \in QueueEntry
    BY <1>0, <1>a, StartsLed
  <2> QED BY <2>1, <2>2, QueueLed
<1>2. ASSUME NEW m \in Msg, DeleteForEveryone(m) PROVE AllLed'
  <2>1. queue' = Append(queue, Queued(Delete(m), Nobody))
    BY <1>2 DEF DeleteForEveryone
  <2>2. Led(Queued(Delete(m), Nobody)) /\ Queued(Delete(m), Nobody) \in QueueEntry
    BY <1>0, <1>a, StartsLed
  <2> QED BY <2>1, <2>2, QueueLed
<1>b. CASE queue' = queue \/ queue' = <<>>
  BY <1>b, QueueLed
<1>c. ASSUME NEW by, queue # <<>>, by = Head(queue).by,
             queue' = Tail(queue) \/ Dies(by) \/ GoesOn(by)
      PROVE  AllLed'
  <2>1. CASE queue' = Tail(queue)
    BY <1>c, <2>1, QueueLed
  <2>2. CASE GoesOn(by) /\ queue' # Tail(queue)
    <3> DEFINE left == Younger(rest[by])
    <3>1. by \in Loop /\ left # {} /\ queue' = Append(Tail(queue), Queued(First(Oldest(left)), by))
      BY <2>2 DEF GoesOn
    <3>2. left \subseteq Msg
      BY <3>1 DEF Types, Younger
    <3>3. Oldest(left) \in Msg /\ by \in Own..Nobody /\ by # Nobody
      BY <1>0, <3>1, <3>2, OldestIsOne, Bounds
    <3>4. Led(Queued(First(Oldest(left)), by)) /\ Queued(First(Oldest(left)), by) \in QueueEntry
      BY <1>a, <3>3, StartsLed
    <3> HIDE DEF left
    <3> QED BY <1>c, <3>1, <3>4, QueueLed
  <2> QED BY <1>c, <2>1, <2>2 DEF Dies
<1>3. CASE Answered
  <2> DEFINE e == Head(queue).env
             by == Head(queue).by
  <2>0. queue # <<>> /\ e \in Envelopes /\ by \in Own..Nobody
    BY <1>3, Heads DEF Answered
  <2>1. CASE HasNext(e) /\ by # Nobody /\ queue' = Append(Tail(queue), Queued(NextPart(e), by))
    <3>1. Led(Head(queue)) /\ Accepted(e)
      BY <1>3, <2>0, Heads DEF AllLed, Answered
    <3>2. Led(Queued(NextPart(e), by)) /\ Queued(NextPart(e), by) \in QueueEntry
      <4>1. Leads(e)
        BY <3>1 DEF Led
      <4>2. NextPart(e) \in Envelopes
        BY <2>0, <2>1, NextIsPart
      <4>3. Queued(NextPart(e), by) \in QueueEntry
        BY <2>0, <4>2 DEF Queued, QueueEntry
      <4> HIDE DEF e, by
      <4> QED BY <2>0, <2>1, <3>1, <4>1, <4>3, NextLed
    <3> QED BY <2>0, <2>1, <3>2, QueueLed
  <2>2. CASE ~(HasNext(e) /\ by # Nobody /\ queue' = Append(Tail(queue), Queued(NextPart(e), by)))
    BY <1>3, <1>c, <2>0, <2>2 DEF Answered
  <2> QED BY <2>1, <2>2
<1>4. CASE Refused
  BY <1>4, <1>c DEF Refused
<1>5. CASE KillAuthor
  BY <1>5, <1>b DEF KillAuthor
<1>6. CASE UnlockAuthor
  <2> DEFINE pending == {m \in Msg : row[m] = "sending"}
  <2>1. CASE pending = {}
    BY <1>6, <1>b, <2>1 DEF UnlockAuthor
  <2>2. CASE pending # {}
    <3>1. PICK k \in Loop : queue' = Append(queue, Queued(First(Oldest(pending)), k))
      BY <1>6, <2>2 DEF UnlockAuthor
    <3>2. Oldest(pending) \in Msg /\ k \in Own..Nobody /\ k # Nobody
      BY <1>0, <2>2, OldestIsOne, Bounds
    <3>3. Led(Queued(First(Oldest(pending)), k)) /\ Queued(First(Oldest(pending)), k) \in QueueEntry
      BY <1>a, <3>2, StartsLed
    <3> QED BY <3>1, <3>3, QueueLed
  <2> QED BY <2>1, <2>2
<1>7. CASE \E m \in Msg : DeleteForMe(m)
  BY <1>7, <1>b DEF DeleteForMe
<1>8. CASE LockAuthor \/ RelayAccepts \/ Drop \/ ReaderNext \/ UNCHANGED vars
  BY <1>8, <1>b DEF LockAuthor, RelayAccepts, Drop, ReaderNext, Receive, Store, Assemble, Ack, ReaderDeletes,
                    LockReader, KillReader, UnlockReader, NewSocket, vars
<1> QED BY <1>1, <1>2, <1>3, <1>4, <1>5, <1>6, <1>7, <1>8 DEF Next, AuthorNext

LEMMA StepSent ==
    ASSUME Types, AuthorInv, [Next]_vars
    PROVE  SentMeansAccepted'
<1> USE DEF author, relay, reader
<1>0. row \in [Msg -> Rows]
  BY DEF Types
<1> SUFFICES ASSUME NEW m \in Msg, row'[m] = "sent" PROVE AllAccepted(m)'
  BY DEF SentMeansAccepted
<1>1. ASSUME AllAccepted(m) PROVE AllAccepted(m)'
  BY <1>1, AcceptedGrows DEF AllAccepted, Parts
<1>2. CASE row[m] = "sent"
  BY <1>1, <1>2 DEF AuthorInv, SentMeansAccepted
<1>3. CASE row[m] # "sent"
  <2> DEFINE e == Head(queue).env
             by == Head(queue).by
  <2>1. Answered /\ by # Nobody /\ ~HasNext(e) /\ SetStatus(e.m, "sent")
    <3>1. CASE Answered
      BY <1>3, <3>1 DEF Answered, Dies
    <3>2. CASE Refused
      BY <1>0, <1>3, <3>2 DEF Refused, Dies, SetStatus
    <3>3. ASSUME NEW n \in Msg, Send(n) \/ DeleteForMe(n) \/ DeleteForEveryone(n) PROVE FALSE
      BY <1>0, <1>3, <3>3 DEF Send, DeleteForMe, DeleteForEveryone
    <3>4. CASE row' = row
      BY <1>3, <3>4
    <3> QED BY <3>1, <3>2, <3>3, <3>4
            DEF Next, AuthorNext, KillAuthor, LockAuthor, UnlockAuthor, RelayAccepts, Drop, ReaderNext, Receive,
                Store, Assemble, Ack, ReaderDeletes, LockReader, KillReader, UnlockReader, NewSocket, vars
  <2>2. queue # <<>> /\ Accepted(e)
    BY <2>1 DEF Answered
  <2>3. e \in Envelopes /\ Led(Head(queue))
    BY <2>2, Heads DEF AuthorInv, AllLed
  <2>4. Leads(e) /\ e.kind # "delete"
    BY <2>1, <2>3 DEF Led
  <2>5. e.m = m
    BY <1>0, <1>3, <2>1 DEF SetStatus
  <2>6. AllAccepted(e.m)
    <3> HIDE DEF e, by
    <3> QED BY <2>1, <2>2, <2>3, <2>4, LastMeansAll
  <2> QED BY <1>1, <2>5, <2>6
<1> QED BY <1>2, <1>3

LEMMA StepAuthor ==
    ASSUME Types, AuthorInv, [Next]_vars
    PROVE  AuthorInv'
BY StepWaits, StepLed, StepSent DEF AuthorInv

LEMMA InitAuthor == Init => AuthorInv
<1> SUFFICES ASSUME Init PROVE AuthorInv OBVIOUS
<1>1. queue = <<>> /\ rest = [k \in Loop |-> {}] /\ row = [m \in Msg |-> "new"]
  BY DEF Init
<1> QED BY <1>1 DEF AuthorInv, AllWait, Waits, AllLed, SentMeansAccepted

-----------------------------------------------------------------------------
(* The relay: order of acceptance, order of the mailbox.                   *)

\* Every step leaves what was accepted and the mailbox alone, but for three.
LEMMA MailSteps ==
    ASSUME [Next]_vars
    PROVE  \/ accepted' = accepted /\ mailbox' = mailbox
           \/ RelayAccepts
           \/ Receive /\ ~Locked /\ ~Consumed /\ Decrypts
           \/ Ack /\ Acks(handler.env)
<1> USE DEF author, relay, reader
<1>1. CASE Receive
  BY <1>1 DEF Receive, Leaves, Duplicate
<1>2. CASE Ack
  BY <1>2 DEF Ack
<1>3. CASE UNCHANGED <<accepted, mailbox>>
  BY <1>3
<1> QED BY <1>1, <1>2, <1>3
        DEF Next, AuthorNext, Drop, ReaderNext, Store, Assemble, ReaderDeletes, LockReader, KillReader,
            UnlockReader, NewSocket, Send, DeleteForMe, DeleteForEveryone, Answered, Refused, KillAuthor,
            LockAuthor, UnlockAuthor, vars

LEMMA BeforeMeans ==
    ASSUME Types, RelayInv, NEW e, NEW f, Before(e, f)
    PROVE  Accepted(e) /\ Accepted(f) /\ e # f /\ ~Before(f, e)
<1>1. DOMAIN accepted = 1..Len(accepted) /\ Len(accepted) \in Nat
  BY DEF Types
<1>2. PICK i, j \in DOMAIN accepted : i < j /\ accepted[i] = e /\ accepted[j] = f
  BY DEF Before
<1>3. \A a, b \in DOMAIN accepted : accepted[a] = accepted[b] => a = b
  BY DEF RelayInv, IsInjective
<1>4. Accepted(e) /\ Accepted(f)
  BY <1>2, AcceptedIsIn
<1>5. e # f
  BY <1>1, <1>2, <1>3
<1>6. ASSUME NEW a \in DOMAIN accepted, NEW b \in DOMAIN accepted, a < b, accepted[a] = f, accepted[b] = e
      PROVE  FALSE
  <2>1. a = j /\ b = i
    BY <1>2, <1>3, <1>6
  <2> QED BY <1>1, <1>2, <1>6, <2>1
<1> QED BY <1>4, <1>5, <1>6 DEF Before

\* The mailbox holds an envelope once.
LEMMA Once ==
    ASSUME Types, RelayInv, NEW i \in DOMAIN mailbox, NEW j \in DOMAIN mailbox, mailbox[i].env = mailbox[j].env
    PROVE  i = j
<1>1. DOMAIN mailbox = 1..Len(mailbox) /\ Len(mailbox) \in Nat
  BY DEF Types
<1>2. \A a, b \in DOMAIN mailbox : a < b => mailbox[a].env # mailbox[b].env
  BY BeforeMeans DEF RelayInv
<1> QED BY <1>1, <1>2

\* What the relay accepts now comes after all it accepted before.
LEMMA BeforeMore ==
    ASSUME Types, RelayAccepts
    PROVE  \A e, f : Before(e, f)' <=> Before(e, f) \/ (Accepted(e) /\ f = Head(queue).env)
<1> PICK h : h = Head(queue).env
  OBVIOUS
<1> PICK s : s = accepted'
  OBVIOUS
<1>1. /\ s = Append(accepted, h) /\ accepted \in Seq(Envelopes) /\ h \in Envelopes
      /\ ~Accepted(h)
  BY AcceptsMore DEF Types
<1>2. /\ DOMAIN accepted = 1..Len(accepted) /\ Len(accepted) \in Nat /\ DOMAIN s = 1..(Len(accepted) + 1)
      /\ \A i \in 1..Len(accepted) : s[i] = accepted[i]
      /\ s[Len(accepted) + 1] = h
  BY <1>1, Grown
<1> SUFFICES ASSUME NEW e, NEW f
             PROVE  (\E i, j \in DOMAIN s : i < j /\ s[i] = e /\ s[j] = f)
                      <=> Before(e, f) \/ (Accepted(e) /\ f = h)
  BY DEF Before
<1>3. ASSUME NEW i \in DOMAIN s, NEW j \in DOMAIN s, i < j, s[i] = e, s[j] = f
      PROVE  Before(e, f) \/ (Accepted(e) /\ f = h)
  <2>1. i \in DOMAIN accepted /\ accepted[i] = e
    BY <1>2, <1>3
  <2>2. CASE j = Len(accepted) + 1
    BY <1>2, <1>3, <2>1, <2>2, AcceptedIsIn
  <2>3. CASE j # Len(accepted) + 1
    <3>1. j \in DOMAIN accepted /\ accepted[j] = f
      BY <1>2, <1>3, <2>3
    <3> QED BY <1>3, <2>1, <3>1 DEF Before
  <2> QED BY <2>2, <2>3
<1>4. ASSUME Before(e, f) PROVE \E i, j \in DOMAIN s : i < j /\ s[i] = e /\ s[j] = f
  <2>1. PICK i, j \in DOMAIN accepted : i < j /\ accepted[i] = e /\ accepted[j] = f
    BY <1>4 DEF Before
  <2>2. i \in DOMAIN s /\ j \in DOMAIN s /\ s[i] = e /\ s[j] = f
    BY <1>2, <2>1
  <2> QED BY <2>1, <2>2
<1>5. ASSUME Accepted(e), f = h PROVE \E i, j \in DOMAIN s : i < j /\ s[i] = e /\ s[j] = f
  <2>1. PICK i \in DOMAIN accepted : accepted[i] = e
    BY <1>5, AcceptedIsIn
  <2>2. i \in DOMAIN s /\ s[i] = e /\ Len(accepted) + 1 \in DOMAIN s /\ i < Len(accepted) + 1
    BY <1>2, <2>1
  <2> QED BY <1>2, <1>5, <2>2
<1> QED BY <1>3, <1>4, <1>5

LEMMA BeforeStays ==
    ASSUME Types, [Next]_vars, NEW e, NEW f, Before(e, f)
    PROVE  Before(e, f)'
<1>1. CASE RelayAccepts
  BY <1>1, BeforeMore
<1>2. CASE accepted' = accepted
  BY <1>2 DEF Before
<1> QED BY <1>1, <1>2, MailSteps DEF Receive, Ack

\* The mailbox after an envelope was accepted, decrypted or acknowledged.
LEMMA MailAccepts ==
    ASSUME Types, RelayAccepts
    PROVE  /\ DOMAIN mailbox = 1..Len(mailbox) /\ Len(mailbox) \in Nat /\ DOMAIN mailbox' = 1..(Len(mailbox) + 1)
           /\ \A i \in 1..Len(mailbox) : mailbox'[i] = mailbox[i]
           /\ mailbox'[Len(mailbox) + 1].env = Head(queue).env /\ mailbox'[Len(mailbox) + 1].read = FALSE
<1> PICK x : x = [env |-> Head(queue).env, read |-> FALSE]
  OBVIOUS
<1>1. mailbox \in Seq(Entry) /\ x \in Entry /\ x.env = Head(queue).env /\ x.read = FALSE
  BY AcceptsMore DEF Types, Entry
<1>2. mailbox' = Append(mailbox, x)
  BY AcceptsMore
<1> QED BY <1>1, <1>2, Grown

LEMMA MailDecrypts ==
    ASSUME Types, Decrypts, handed < Len(mailbox)
    PROVE  /\ DOMAIN mailbox' = DOMAIN mailbox
           /\ \A i \in DOMAIN mailbox : mailbox'[i].env = mailbox[i].env
           /\ \A i \in DOMAIN mailbox : mailbox'[i].read = IF i = handed + 1 THEN TRUE ELSE mailbox[i].read
<1>1. handed + 1 \in DOMAIN mailbox /\ DOMAIN mailbox = 1..Len(mailbox) /\ mailbox \in Seq(Entry)
  BY Delivered DEF Types
<1>2. \A i \in DOMAIN mailbox : mailbox[i] \in Entry
  BY <1>1
<1>3. mailbox' = [mailbox EXCEPT ![handed + 1].read = TRUE]
  BY DEF Decrypts
<1>4. DOMAIN mailbox' = DOMAIN mailbox
      /\ \A i \in DOMAIN mailbox :
            mailbox'[i] = IF i = handed + 1 THEN [mailbox[i] EXCEPT !.read = TRUE] ELSE mailbox[i]
  BY <1>1, <1>3
<1> QED BY <1>2, <1>4 DEF Entry

\* The indices of the shorter mailbox are those of the longer one, in order.
Back(i, at) == IF i < at THEN i ELSE i + 1

LEMMA MailAcks ==
    ASSUME Types, NEW e, Acks(e), InMailbox(e)
    PROVE  /\ DOMAIN mailbox = 1..Len(mailbox) /\ Len(mailbox) \in Nat /\ DOMAIN mailbox' = 1..(Len(mailbox) - 1)
           /\ At(e) \in DOMAIN mailbox /\ mailbox[At(e)].env = e
           /\ \A i \in DOMAIN mailbox' : Back(i, At(e)) \in DOMAIN mailbox /\ mailbox'[i] = mailbox[Back(i, At(e))]
           /\ \A j \in DOMAIN mailbox : j # At(e) => \E i \in DOMAIN mailbox' : j = Back(i, At(e))
           /\ handed' = IF At(e) <= handed THEN handed - 1 ELSE handed
<1> PICK at : at = At(e)
  OBVIOUS
<1> PICK s : s = mailbox'
  OBVIOUS
<1>1. mailbox \in Seq(Entry) /\ at \in 1..Len(mailbox) /\ mailbox[at].env = e
      /\ DOMAIN mailbox = 1..Len(mailbox) /\ Len(mailbox) \in Nat
  BY Found DEF Types
<1>2. s = RemoveAt(mailbox, at) /\ handed' = IF at <= handed THEN handed - 1 ELSE handed
  BY DEF Acks
<1>3. /\ s \in Seq(Entry) /\ Len(s) = Len(mailbox) - 1
      /\ \A i \in 1..(Len(mailbox) - 1) : s[i] = IF i < at THEN mailbox[i] ELSE mailbox[i + 1]
  BY <1>1, <1>2, Removal
<1>4. DOMAIN s = 1..(Len(mailbox) - 1)
  BY <1>3
<1>5. \A i \in DOMAIN s : Back(i, at) \in DOMAIN mailbox /\ s[i] = mailbox[Back(i, at)]
  BY <1>1, <1>3, <1>4 DEF Back
<1>6. ASSUME NEW j \in DOMAIN mailbox, j # at PROVE \E i \in DOMAIN s : j = Back(i, at)
  <2>1. CASE j < at
    <3>1. j \in DOMAIN s /\ j = Back(j, at)
      BY <1>1, <1>4, <2>1 DEF Back
    <3> QED BY <3>1
  <2>2. CASE j > at
    <3>1. j - 1 \in DOMAIN s /\ j = Back(j - 1, at)
      BY <1>1, <1>4, <2>2 DEF Back
    <3> QED BY <3>1
  <2> QED BY <1>1, <1>6, <2>1, <2>2
<1> QED BY <1>1, <1>2, <1>4, <1>5, <1>6

LEMMA StepRelay ==
    ASSUME Types, AuthorInv, RelayInv, [Next]_vars
    PROVE  RelayInv'
<1>1. CASE accepted' = accepted /\ mailbox' = mailbox
  BY <1>1 DEF RelayInv, IsInjective, Accepted, Before
<1>2. CASE RelayAccepts
  <2> PICK h : h = Head(queue).env
    OBVIOUS
  <2>0. /\ h \in Envelopes /\ ~Accepted(h) /\ accepted' = Append(accepted, h)
        /\ \A e : Accepted(e)' <=> Accepted(e) \/ e = h
        /\ \A e, f : Before(e, f)' <=> Before(e, f) \/ (Accepted(e) /\ f = h)
    BY <1>2, AcceptsMore, BeforeMore
  <2>1. IsInjective(accepted)'
    <3> PICK s : s = accepted'
      OBVIOUS
    <3>1. accepted \in Seq(Envelopes) /\ s = Append(accepted, h)
      BY <2>0 DEF Types
    <3>2. /\ DOMAIN accepted = 1..Len(accepted) /\ Len(accepted) \in Nat /\ DOMAIN s = 1..(Len(accepted) + 1)
          /\ \A i \in 1..Len(accepted) : s[i] = accepted[i]
          /\ s[Len(accepted) + 1] = h
      BY <2>0, <3>1, Grown
    <3>3. \A a, b \in DOMAIN accepted : accepted[a] = accepted[b] => a = b
      BY DEF RelayInv, IsInjective
    <3>4. \A a \in DOMAIN accepted : accepted[a] # h
      BY <2>0, AcceptedIsIn
    <3>5. \A a, b \in DOMAIN s : s[a] = s[b] => a = b
      BY <3>2, <3>3, <3>4
    <3> QED BY <3>5 DEF IsInjective
  <2>2. ASSUME NEW e \in Envelopes, Accepted(e)', e.kind = "chunk" PROVE Before(First(e.m), e)'
    <3>1. CASE Accepted(e)
      BY <2>0, <2>2, <3>1 DEF RelayInv
    <3>2. CASE e = h
      <4>1. Led(Head(queue))
        BY <1>2, Heads DEF AuthorInv, AllLed, RelayAccepts
      <4>2. Accepted(First(e.m))
        BY <2>2, <3>2, <4>1 DEF Led, Leads
      <4> QED BY <2>0, <3>2, <4>2
    <3> QED BY <2>0, <2>2, <3>1, <3>2
  <2>3. /\ DOMAIN mailbox = 1..Len(mailbox) /\ Len(mailbox) \in Nat /\ DOMAIN mailbox' = 1..(Len(mailbox) + 1)
        /\ \A i \in 1..Len(mailbox) : mailbox'[i] = mailbox[i]
        /\ mailbox'[Len(mailbox) + 1].env = h
    BY <1>2, MailAccepts
  <2>4. ASSUME NEW i \in DOMAIN mailbox' PROVE Accepted(mailbox[i].env)'
    <3> PICK x : x = mailbox'[i].env
      OBVIOUS
    <3>1. x = h \/ Accepted(x)
      BY <2>3 DEF RelayInv
    <3>2. Accepted(x)'
      BY <2>0, <3>1
    <3> QED BY <3>2
  <2>5. ASSUME NEW i \in DOMAIN mailbox', NEW j \in DOMAIN mailbox', i < j
        PROVE  Before(mailbox[i].env, mailbox[j].env)'
    <3> PICK x, y : x = mailbox'[i].env /\ y = mailbox'[j].env
      OBVIOUS
    <3>1. i \in DOMAIN mailbox /\ x = mailbox[i].env
      BY <2>3, <2>5
    <3>2. (j \in DOMAIN mailbox /\ y = mailbox[j].env) \/ y = h
      BY <2>3
    <3>3. Before(x, y) \/ (Accepted(x) /\ y = h)
      BY <2>5, <3>1, <3>2 DEF RelayInv
    <3>4. Before(x, y)'
      BY <2>0, <3>3
    <3> QED BY <3>4
  <2> QED BY <2>1, <2>2, <2>4, <2>5 DEF RelayInv
<1>3. CASE accepted' = accepted /\ Decrypts /\ handed < Len(mailbox)
  <2>1. DOMAIN mailbox' = DOMAIN mailbox /\ \A i \in DOMAIN mailbox : mailbox'[i].env = mailbox[i].env
    BY <1>3, MailDecrypts
  <2> QED BY <1>3, <2>1 DEF RelayInv, IsInjective, Accepted, Before
<1>4. CASE accepted' = accepted /\ Acks(handler.env)
  <2>1. CASE ~InMailbox(handler.env)
    BY <1>1, <1>4, <2>1 DEF Acks
  <2>2. CASE InMailbox(handler.env)
    <3> PICK at : at = At(handler.env)
      OBVIOUS
    <3>1. /\ DOMAIN mailbox = 1..Len(mailbox) /\ Len(mailbox) \in Nat /\ DOMAIN mailbox' = 1..(Len(mailbox) - 1)
          /\ \A i \in DOMAIN mailbox' : Back(i, at) \in DOMAIN mailbox /\ mailbox'[i] = mailbox[Back(i, at)]
          /\ at \in DOMAIN mailbox
      BY <1>4, <2>2, MailAcks
    <3>2. \A i, j \in DOMAIN mailbox' : i < j => Back(i, at) < Back(j, at)
      BY <3>1 DEF Back
    <3>3. \A i \in DOMAIN mailbox' : Accepted(mailbox'[i].env)
      BY <3>1 DEF RelayInv
    <3>4. \A i, j \in DOMAIN mailbox' : i < j => Before(mailbox'[i].env, mailbox'[j].env)
      BY <3>1, <3>2 DEF RelayInv
    <3> QED BY <1>4, <3>3, <3>4 DEF RelayInv, IsInjective, Accepted, Before
  <2> QED BY <2>1, <2>2
<1> QED BY <1>1, <1>2, <1>3, <1>4, MailSteps DEF Receive, Ack, author

LEMMA InitRelay == Init => RelayInv
BY DEF Init, RelayInv, IsInjective, Accepted, Range

-----------------------------------------------------------------------------
(* The reader: what was seen, in which order.                              *)

\* The handler's envelope is in the mailbox, accepted, its message key consumed.
LEMMA Handled ==
    ASSUME Types, RelayInv, SocketInv, handler.step # "idle"
    PROVE  /\ InMailbox(handler.env) /\ Seen(handler.env) /\ handler.env \in Envelopes
           /\ mailbox[At(handler.env)].read
<1>1. PICK i \in DOMAIN mailbox : mailbox[i].env = handler.env /\ mailbox[i].read
  BY DEF SocketInv
<1>2. InMailbox(handler.env) /\ Accepted(handler.env)
  BY <1>1 DEF InMailbox, RelayInv
<1>3. \A j \in DOMAIN mailbox : mailbox[j].env = handler.env => j = i
  BY <1>1, Once
<1>4. At(handler.env) \in DOMAIN mailbox /\ mailbox[At(handler.env)].env = handler.env
  BY <1>2, Found DEF Types
<1> QED BY <1>1, <1>2, <1>3, <1>4 DEF Seen, Types

LEMMA SeenAccepts ==
    ASSUME Types, RelayInv, RelayAccepts, NEW e
    PROVE  Seen(e)' <=> Seen(e)
<1> PICK h : h = Head(queue).env
  OBVIOUS
<1>1. ~Accepted(h) /\ (Accepted(e)' <=> Accepted(e) \/ e = h)
  BY AcceptsMore
<1>2. /\ DOMAIN mailbox = 1..Len(mailbox) /\ Len(mailbox) \in Nat /\ DOMAIN mailbox' = 1..(Len(mailbox) + 1)
      /\ \A i \in 1..Len(mailbox) : mailbox'[i] = mailbox[i]
      /\ mailbox'[Len(mailbox) + 1].env = h /\ mailbox'[Len(mailbox) + 1].read = FALSE
  BY MailAccepts
<1>3. CASE e = h
  <2>1. ~Seen(e)
    BY <1>1, <1>3 DEF Seen
  <2>2. Len(mailbox) + 1 \in DOMAIN mailbox'
    BY <1>2
  <2>3. ~(\A i \in DOMAIN mailbox' : mailbox'[i].env = e => mailbox'[i].read)
    BY <1>2, <1>3, <2>2
  <2> QED BY <2>1, <2>3 DEF Seen
<1>4. CASE e # h
  <2>1. (\A i \in DOMAIN mailbox' : mailbox'[i].env = e => mailbox'[i].read)
          <=> (\A i \in DOMAIN mailbox : mailbox[i].env = e => mailbox[i].read)
    BY <1>2, <1>4
  <2> QED BY <1>1, <1>4, <2>1 DEF Seen
<1> QED BY <1>3, <1>4

LEMMA SeenDecrypts ==
    ASSUME Types, RelayInv, Decrypts, handed < Len(mailbox), accepted' = accepted, NEW e
    PROVE  Seen(e)' <=> Seen(e) \/ e = mailbox[handed + 1].env
<1> PICK n : n = handed + 1
  OBVIOUS
<1>1. /\ DOMAIN mailbox' = DOMAIN mailbox
      /\ \A i \in DOMAIN mailbox : mailbox'[i].env = mailbox[i].env
      /\ \A i \in DOMAIN mailbox : mailbox'[i].read = IF i = n THEN TRUE ELSE mailbox[i].read
  BY MailDecrypts
<1>2. n \in DOMAIN mailbox /\ Accepted(mailbox[n].env)
  BY Delivered DEF RelayInv
<1>3. Accepted(e)' <=> Accepted(e)
  BY DEF Accepted
<1>4. CASE e = mailbox[n].env
  <2>1. \A i \in DOMAIN mailbox : mailbox[i].env = e => i = n
    BY <1>2, <1>4, Once
  <2>2. \A i \in DOMAIN mailbox' : mailbox'[i].env = e => mailbox'[i].read
    BY <1>1, <2>1
  <2> QED BY <1>2, <1>3, <1>4, <2>2 DEF Seen
<1>5. CASE e # mailbox[n].env
  <2>1. (\A i \in DOMAIN mailbox' : mailbox'[i].env = e => mailbox'[i].read)
          <=> (\A i \in DOMAIN mailbox : mailbox[i].env = e => mailbox[i].read)
    BY <1>1, <1>5
  <2> QED BY <1>3, <1>5, <2>1 DEF Seen
<1> QED BY <1>4, <1>5

LEMMA SeenAcks ==
    ASSUME Types, RelayInv, NEW f, Acks(f), InMailbox(f), mailbox[At(f)].read, accepted' = accepted, NEW e
    PROVE  Seen(e)' <=> Seen(e)
<1> PICK at : at = At(f)
  OBVIOUS
<1>1. /\ DOMAIN mailbox = 1..Len(mailbox) /\ Len(mailbox) \in Nat /\ DOMAIN mailbox' = 1..(Len(mailbox) - 1)
      /\ \A i \in DOMAIN mailbox' : Back(i, at) \in DOMAIN mailbox /\ mailbox'[i] = mailbox[Back(i, at)]
      /\ \A j \in DOMAIN mailbox : j # at => \E i \in DOMAIN mailbox' : j = Back(i, at)
  BY MailAcks
<1>2. (\A i \in DOMAIN mailbox' : mailbox'[i].env = e => mailbox'[i].read)
        <=> (\A i \in DOMAIN mailbox : mailbox[i].env = e => mailbox[i].read)
  BY <1>1
<1>3. Accepted(e)' <=> Accepted(e)
  BY DEF Accepted
<1> QED BY <1>2, <1>3 DEF Seen

\* A consumed message key stays consumed.
LEMMA SeenStays ==
    ASSUME Types, RelayInv, SocketInv, [Next]_vars, NEW e, Seen(e)
    PROVE  Seen(e)'
<1>1. CASE accepted' = accepted /\ mailbox' = mailbox
  BY <1>1 DEF Seen, Accepted
<1>2. CASE RelayAccepts
  BY <1>2, SeenAccepts
<1>3. CASE Receive /\ Decrypts
  BY <1>3, SeenDecrypts DEF Receive
<1>4. CASE Ack /\ Acks(handler.env)
  <2>1. handler.step # "idle" /\ accepted' = accepted
    BY <1>4 DEF Ack
  <2> QED BY <1>4, <2>1, Handled, SeenAcks
<1> QED BY <1>1, <1>2, <1>3, <1>4, MailSteps

LEMMA StepSocket ==
    ASSUME Types, AuthorInv, RelayInv, SocketInv, [Next]_vars
    PROVE  SocketInv'
<1> USE DEF author, relay, reader
<1>0. handler \in [step : Steps, env : Envelopes] /\ Idle.step = "idle" /\ missed \subseteq Msg
      /\ handed \in 0..Len(mailbox) /\ DOMAIN mailbox = 1..Len(mailbox) /\ Len(mailbox) \in Nat
  BY DEF Types, Idle
<1>1. CASE RelayAccepts
  <2> PICK h : h = Head(queue).env
    OBVIOUS
  <2>1. /\ DOMAIN mailbox = 1..Len(mailbox) /\ Len(mailbox) \in Nat /\ DOMAIN mailbox' = 1..(Len(mailbox) + 1)
        /\ \A i \in 1..Len(mailbox) : mailbox'[i] = mailbox[i]
    BY <1>1, MailAccepts
  <2>2. UNCHANGED <<handed, handler, missed>>
    BY <1>1 DEF RelayAccepts
  <2>3. \A i \in 1..handed : i \in 1..Len(mailbox)
    BY <1>0
  <2>4. \A i \in 1..handed : mailbox'[i].read \/ (mailbox'[i].env.kind = "first" => mailbox'[i].env.m \in missed)
    BY <2>1, <2>3 DEF SocketInv
  <2>5. ASSUME NEW m \in Msg \ missed, NEW e \in Envelopes, Seen(e)', Before(First(m), e)'
        PROVE  Seen(First(m))'
    <3>1. Seen(e) /\ ~Accepted(h)
      BY <1>1, <2>5, SeenAccepts, AcceptsMore
    <3>2. Before(First(m), e)
      BY <1>1, <2>5, <3>1, BeforeMore DEF Seen
    <3> QED BY <1>1, <3>1, <3>2, SeenAccepts DEF SocketInv
  <2>6. handler.step # "idle" => \E i \in DOMAIN mailbox' : mailbox'[i].env = handler.env /\ mailbox'[i].read
    <3> SUFFICES ASSUME handler.step # "idle"
                 PROVE  \E i \in DOMAIN mailbox' : mailbox'[i].env = handler.env /\ mailbox'[i].read
      OBVIOUS
    <3>1. PICK i \in DOMAIN mailbox : mailbox[i].env = handler.env /\ mailbox[i].read
      BY DEF SocketInv
    <3>2. i \in DOMAIN mailbox' /\ mailbox'[i] = mailbox[i]
      BY <2>1
    <3> QED BY <3>1, <3>2
  <2> QED BY <2>2, <2>4, <2>5, <2>6 DEF SocketInv
<1>2. CASE Receive
  <2> PICK n : n = handed + 1
    OBVIOUS
  <2> PICK d : d = mailbox[n].env
    OBVIOUS
  <2>0. /\ handed < Len(mailbox) /\ n \in DOMAIN mailbox /\ d.m \in Msg /\ accepted' = accepted
        /\ handed' = n /\ \A i \in 1..n : i \in 1..handed \/ i = n
    BY <1>0, <1>2, Delivered DEF Receive, Leaves, Duplicate, Decrypts
  <2>a. \A e, f : Before(e, f)' <=> Before(e, f)
    BY <2>0 DEF Before
  <2>1. CASE Leaves
    <3>1. /\ mailbox' = mailbox /\ handler' = handler
          /\ missed' = IF d.kind = "first" THEN missed \cup {d.m} ELSE missed
      BY <2>1 DEF Leaves
    <3>2. \A e : Seen(e)' <=> Seen(e)
      BY <2>0, <3>1 DEF Seen, Accepted
    <3>3. missed \subseteq missed' /\ (d.kind = "first" => d.m \in missed')
      BY <3>1
    <3>4. \A i \in 1..n : mailbox[i].read \/ (mailbox[i].env.kind = "first" => mailbox[i].env.m \in missed')
      BY <2>0, <3>3 DEF SocketInv
    <3>5. ASSUME NEW m \in Msg \ missed', NEW e \in Envelopes, Seen(e)', Before(First(m), e)'
          PROVE  Seen(First(m))'
      BY <2>a, <3>2, <3>3, <3>5 DEF SocketInv
    <3> QED BY <2>0, <3>1, <3>4, <3>5 DEF SocketInv
  <2>2. CASE Duplicate /\ Consumed
    <3>1. /\ mailbox' = mailbox /\ handler' = [step |-> "done", env |-> d] /\ missed' = missed /\ mailbox[n].read
      BY <2>2 DEF Duplicate, Consumed
    <3>2. \A e : Seen(e)' <=> Seen(e)
      BY <2>0, <3>1 DEF Seen, Accepted
    <3>3. \A i \in 1..n : mailbox[i].read \/ (mailbox[i].env.kind = "first" => mailbox[i].env.m \in missed)
      BY <2>0, <3>1 DEF SocketInv
    <3>4. \A m \in Msg \ missed' : \A e \in Envelopes : Seen(e)' /\ Before(First(m), e)' => Seen(First(m))'
      BY <2>a, <3>1, <3>2 DEF SocketInv
    <3>5. handler'.env = d
      BY <3>1
    <3> QED BY <2>0, <3>1, <3>3, <3>4, <3>5 DEF SocketInv
  <2>3. CASE Decrypts
    <3>1. /\ DOMAIN mailbox' = DOMAIN mailbox
          /\ \A i \in DOMAIN mailbox : mailbox'[i].env = mailbox[i].env
          /\ \A i \in DOMAIN mailbox : mailbox'[i].read = IF i = n THEN TRUE ELSE mailbox[i].read
      BY <2>0, <2>3, MailDecrypts
    <3>2. handler' = [step |-> "decrypted", env |-> d] /\ missed' = missed
      BY <2>3 DEF Decrypts
    <3>3. \A e : Seen(e)' <=> Seen(e) \/ e = d
      BY <2>0, <2>3, SeenDecrypts
    <3>4. \A i \in 1..n : mailbox'[i].read \/ (mailbox'[i].env.kind = "first" => mailbox'[i].env.m \in missed)
      <4>1. \A i \in 1..handed : i \in DOMAIN mailbox /\ (mailbox[i].read \/ (mailbox[i].env.kind = "first" => mailbox[i].env.m \in missed))
        BY <1>0 DEF SocketInv
      <4> QED BY <2>0, <3>1, <4>1
    <3>5. ASSUME NEW m \in Msg \ missed', NEW e \in Envelopes, Seen(e)', Before(First(m), e)'
          PROVE  Seen(First(m))'
      <4>1. Before(First(m), e)
        BY <2>a, <3>5
      <4>2. CASE Seen(e)
        BY <3>2, <3>3, <4>1, <4>2 DEF SocketInv
      <4>3. CASE e = d
        <5>1. Accepted(First(m)) /\ e # First(m) /\ ~Before(e, First(m))
          BY <4>1, BeforeMeans
        <5>2. ASSUME NEW i \in DOMAIN mailbox, mailbox[i].env = First(m) PROVE mailbox[i].read
          <6>1. ~(n < i) /\ i # n
            BY <2>0, <4>3, <5>1, <5>2 DEF RelayInv
          <6>2. i \in 1..handed
            BY <1>0, <2>0, <6>1
          <6>3. First(m).kind = "first" /\ First(m).m = m /\ m \notin missed
            BY <3>2, Kinds
          <6> QED BY <5>2, <6>2, <6>3 DEF SocketInv
        <5>3. Seen(First(m))
          BY <5>1, <5>2 DEF Seen
        <5> QED BY <3>3, <5>3
      <4> QED BY <3>3, <3>5, <4>2, <4>3
    <3>6. handler'.env = d /\ mailbox'[n].env = d /\ mailbox'[n].read /\ n \in DOMAIN mailbox'
      BY <2>0, <3>1, <3>2
    <3> QED BY <2>0, <3>2, <3>4, <3>5, <3>6 DEF SocketInv
  <2> QED BY <1>2, <2>1, <2>2, <2>3 DEF Receive
<1>3. CASE Ack /\ Acks(handler.env)
  <2> PICK f : f = handler.env
    OBVIOUS
  <2> PICK at : at = At(f)
    OBVIOUS
  <2>0. handler.step # "idle" /\ handler' = Idle /\ UNCHANGED <<accepted, missed>>
    BY <1>3 DEF Ack
  <2>1. InMailbox(f) /\ mailbox[at].read /\ Acks(f)
    BY <1>3, <2>0, Handled
  <2>2. /\ DOMAIN mailbox' = 1..(Len(mailbox) - 1)
        /\ at \in DOMAIN mailbox
        /\ \A i \in DOMAIN mailbox' : Back(i, at) \in DOMAIN mailbox /\ mailbox'[i] = mailbox[Back(i, at)]
        /\ handed' = IF at <= handed THEN handed - 1 ELSE handed
    BY <2>1, MailAcks
  <2>3. \A i \in 1..handed' : i \in DOMAIN mailbox' /\ Back(i, at) \in 1..handed
    <3> SUFFICES ASSUME NEW i \in 1..handed' PROVE i \in DOMAIN mailbox' /\ Back(i, at) \in 1..handed
      OBVIOUS
    <3>1. CASE at <= handed
      BY <1>0, <2>2, <3>1 DEF Back
    <3>2. CASE at > handed
      BY <1>0, <2>2, <3>2 DEF Back
    <3> QED BY <1>0, <2>2, <3>1, <3>2
  <2>4. \A i \in 1..handed' : mailbox'[i].read \/ (mailbox'[i].env.kind = "first" => mailbox'[i].env.m \in missed)
    <3> SUFFICES ASSUME NEW i \in 1..handed'
                 PROVE  mailbox'[i].read \/ (mailbox'[i].env.kind = "first" => mailbox'[i].env.m \in missed)
      OBVIOUS
    <3> PICK j : j = Back(i, at)
      OBVIOUS
    <3>1. j \in 1..handed /\ mailbox'[i] = mailbox[j]
      BY <2>2, <2>3
    <3>2. mailbox[j].read \/ (mailbox[j].env.kind = "first" => mailbox[j].env.m \in missed)
      BY <3>1 DEF SocketInv
    <3> QED BY <3>1, <3>2
  <2>5. \A e : Seen(e)' <=> Seen(e)
    BY <2>0, <2>1, SeenAcks
  <2>6. \A e, g : Before(e, g)' <=> Before(e, g)
    BY <2>0 DEF Before
  <2>7. \A m \in Msg \ missed' : \A e \in Envelopes : Seen(e)' /\ Before(First(m), e)' => Seen(First(m))'
    BY <2>0, <2>5, <2>6 DEF SocketInv
  <2>8. handler'.step = "idle" /\ missed' = missed
    BY <1>0, <2>0
  <2> QED BY <2>4, <2>7, <2>8 DEF SocketInv
<1>4. CASE /\ accepted' = accepted /\ mailbox' = mailbox /\ missed' = missed /\ (handed' = handed \/ handed' = 0)
           /\ (handler'.step # "idle" => handler.step # "idle" /\ handler'.env = handler.env)
  <2>1. (\A e : Seen(e)' <=> Seen(e)) /\ (\A e, f : Before(e, f)' <=> Before(e, f))
    BY <1>4 DEF Seen, Before, Accepted
  <2>2. \A m \in Msg \ missed' : \A e \in Envelopes : Seen(e)' /\ Before(First(m), e)' => Seen(First(m))'
    BY <1>4, <2>1 DEF SocketInv
  <2>3. \A i \in 1..handed' : mailbox[i].read \/ (mailbox[i].env.kind = "first" => mailbox[i].env.m \in missed)
    BY <1>0, <1>4 DEF SocketInv
  <2> QED BY <1>4, <2>2, <2>3 DEF SocketInv
<1>5. CASE ReaderNext /\ ~Receive /\ ~(Ack /\ Acks(handler.env))
  <2>1. accepted' = accepted /\ mailbox' = mailbox /\ missed' = missed /\ (handed' = handed \/ handed' = 0)
    BY <1>5 DEF ReaderNext, Store, Assemble, Ack, ReaderDeletes, LockReader, KillReader, UnlockReader, NewSocket
  <2>2. ASSUME NEW x, To(x) PROVE handler'.env = handler.env
    BY <1>0, <2>2 DEF To
  <2>3. handler'.step # "idle" => handler.step # "idle" /\ handler'.env = handler.env
    <3>1. CASE Store
      BY <2>2, <3>1 DEF Store, StoresText, Announced, StoresChunk, Retracts
    <3>2. CASE Assemble
      BY <2>2, <3>2 DEF Assemble
    <3>3. CASE handler' = Idle \/ handler' = handler
      BY <1>0, <3>3
    <3> QED BY <1>5, <3>1, <3>2, <3>3
            DEF ReaderNext, Ack, ReaderDeletes, LockReader, KillReader, UnlockReader, NewSocket
  <2> QED BY <1>4, <2>1, <2>3
<1>6. CASE AuthorNext \/ Drop \/ UNCHANGED vars
  <2>1. accepted' = accepted /\ mailbox' = mailbox /\ missed' = missed /\ (handed' = handed \/ handed' = 0)
        /\ handler' = handler
    BY <1>6 DEF AuthorNext, Send, DeleteForMe, DeleteForEveryone, Answered, Refused, KillAuthor, LockAuthor,
                UnlockAuthor, Drop, vars
  <2> QED BY <1>4, <2>1
<1> QED BY <1>1, <1>2, <1>3, <1>5, <1>6 DEF Next

LEMMA InitSocket == Init => SocketInv
<1> SUFFICES ASSUME Init PROVE SocketInv OBVIOUS
<1>1. handed = 0 /\ accepted = <<>> /\ handler.step = "idle"
  BY DEF Init, Idle
<1>2. \A e, f : ~Before(e, f)
  BY <1>1 DEF Before
<1> QED BY <1>1, <1>2 DEF SocketInv

-----------------------------------------------------------------------------
(* The reader: rows and transfers.                                         *)

\* What was dealt with stays so.
LEMMA TakenStays ==
    ASSUME Types, RelayInv, SocketInv, [Next]_vars, NEW e, Taken(e)
    PROVE  Taken(e)'
<1> USE DEF author, relay, reader
<1>0. Seen(e) /\ ~Decrypted(e) /\ Seen(e)' /\ handler \in [step : Steps, env : Envelopes]
  BY SeenStays DEF Taken, Types
<1>1. ASSUME Decrypted(e)' PROVE FALSE
  <2>1. handler'.step = "decrypted" /\ handler'.env = e
    BY <1>1 DEF Decrypted
  <2>2. CASE Receive /\ ~Consumed /\ Decrypts
    <3> PICK n : n = handed + 1
      OBVIOUS
    <3>1. n \in DOMAIN mailbox /\ ~mailbox[n].read /\ mailbox[n].env = e
      BY <2>1, <2>2, Delivered DEF Receive, Decrypts, Consumed
    <3> QED BY <1>0, <3>1 DEF Seen
  <2>3. ASSUME NEW x \in {"done", "complete"}, To(x) PROVE FALSE
    BY <1>0, <2>1, <2>3 DEF To
  <2>4. CASE handler' = Idle \/ handler' = handler
    BY <1>0, <2>1, <2>4 DEF Idle, Decrypted
  <2>5. CASE Store \/ Assemble
    BY <2>3, <2>5 DEF Store, Assemble, StoresText, Announced, StoresChunk, Retracts
  <2>6. CASE Receive
    <3>1. Leaves \/ Duplicate \/ (~Consumed /\ Decrypts)
      BY <2>6 DEF Receive
    <3>2. CASE Duplicate
      BY <2>1, <3>2 DEF Duplicate
    <3> QED BY <2>2, <2>4, <2>6, <3>1, <3>2 DEF Leaves
  <2> QED BY <2>4, <2>5, <2>6
          DEF Next, AuthorNext, Send, DeleteForMe, DeleteForEveryone, Answered, Refused, KillAuthor, LockAuthor,
              UnlockAuthor, RelayAccepts, Drop, ReaderNext, Ack, ReaderDeletes, LockReader, KillReader, UnlockReader,
              NewSocket, vars
<1> QED BY <1>0, <1>1 DEF Taken

\* The handler that stores has dealt with its envelope.
LEMMA StoreTakes ==
    ASSUME Types, RelayInv, SocketInv, Store, NEW f, f = handler.env
    PROVE  Taken(f)' /\ ~Taken(f) /\ Seen(f) /\ f \in Envelopes /\ \A e : Decrypted(e) <=> e = f
<1>0. handler.step = "decrypted" /\ handler \in [step : Steps, env : Envelopes]
      /\ accepted' = accepted /\ mailbox' = mailbox
  BY DEF Store, Types, relay
<1>1. Seen(f) /\ f \in Envelopes
  BY <1>0, Handled
<1>2. ~Taken(f) /\ \A e : Decrypted(e) <=> e = f
  BY <1>0 DEF Taken, Decrypted
<1>3. handler'.step # "decrypted"
  <2>1. ASSUME NEW x \in {"done", "complete"}, To(x) PROVE handler'.step # "decrypted"
    BY <1>0, <2>1 DEF To
  <2> QED BY <2>1 DEF Store, StoresText, Announced, StoresChunk, Retracts
<1>4. Seen(f)' /\ ~Decrypted(f)'
  BY <1>0, <1>1, <1>3 DEF Seen, Accepted, Decrypted
<1> QED BY <1>1, <1>2, <1>4 DEF Taken

\* The rows and transfers a step of the reader may leave: what they were, but for
\* the message m.
Else(m) == /\ \A n \in Msg : n # m => stored'[n] = stored[n] /\ staged'[n] = staged[n]
           /\ stored' \in [Msg -> {"none", "shown", "gone"}] /\ staged' \in [Msg -> SUBSET Int]

LEMMA StoreCases ==
    ASSUME Types, RelayInv, SocketInv, RowInv, Store, NEW e, e = handler.env
    PROVE  /\ e.m \in Msg /\ Else(e.m) /\ handler'.env = e
           /\ \/ /\ e = First(e.m) /\ Chunks[e.m] = 0 /\ handler'.step = "done"
                 /\ stored'[e.m] = "shown" /\ staged'[e.m] = staged[e.m]
              \/ /\ e = First(e.m) /\ Chunks[e.m] > 0 /\ handler'.step = "done"
                 /\ stored'[e.m] = stored[e.m]
                 /\ staged'[e.m] = {}
              \/ /\ e = Chunk(e.m, e.seq) /\ e.seq \in 0..(Chunks[e.m] - 1) /\ e.kind = "chunk"
                 /\ stored'[e.m] = stored[e.m]
                 /\ \/ ~Staged(e.m) /\ staged'[e.m] = staged[e.m] /\ handler'.step = "done"
                    \/ /\ Staged(e.m) /\ staged'[e.m] = staged[e.m] \cup {e.seq}
                       /\ handler'.step = (IF staged'[e.m] = 0..(Chunks[e.m] - 1) THEN "complete" ELSE "done")
              \/ /\ e = Delete(e.m) /\ handler'.step = "done"
                 /\ stored'[e.m] = (IF stored[e.m] = "shown" THEN "gone" ELSE stored[e.m])
                 /\ staged'[e.m] = Absent
<1>0. /\ handler \in [step : Steps, env : Envelopes] /\ e \in Envelopes /\ e.m \in Msg /\ Chunks[e.m] \in Nat
      /\ stored \in [Msg -> {"none", "shown", "gone"}] /\ staged \in [Msg -> SUBSET Int]
      /\ stored' \in [Msg -> {"none", "shown", "gone"}] /\ staged' \in [Msg -> SUBSET Int]
  BY StoreTypes, Cases, Bounds DEF Types
<1>1. ASSUME NEW x, To(x) PROVE handler'.env = e /\ handler'.step = x
  BY <1>0, <1>1 DEF To
<1>2. CASE e.kind = "first" /\ Chunks[e.m] = 0 /\ StoresText(e.m)
  <2>1. e = First(e.m)
    BY <1>0, <1>2, Cases, Kinds
  <2> QED BY <1>0, <1>1, <1>2, <2>1 DEF StoresText, Shows, Else
<1>3. CASE e.kind = "first" /\ Chunks[e.m] > 0 /\ Announced(e.m)
  <2>1. e = First(e.m) /\ ~Taken(e)
    BY <1>0, <1>3, Cases, Kinds, StoreTakes
  <2>2. stored[e.m] = "none" /\ ~Staged(e.m)
    BY <1>0, <2>1 DEF RowInv
  <2> QED BY <1>0, <1>1, <1>3, <2>1, <2>2 DEF Announced, Else
<1>4. CASE e.kind = "chunk" /\ StoresChunk(e.m, e.seq)
  <2>1. e = Chunk(e.m, e.seq) /\ e.seq \in 0..(Chunks[e.m] - 1)
    BY <1>0, <1>4, Cases, Kinds
  <2>2. stored' = stored
    BY <1>4 DEF StoresChunk
  <2>3. CASE ~Staged(e.m)
    BY <1>0, <1>1, <1>4, <2>1, <2>2, <2>3 DEF StoresChunk, Else
  <2>4. CASE Staged(e.m)
    <3>1. staged' = [staged EXCEPT ![e.m] = @ \cup {e.seq}]
          /\ To(IF staged'[e.m] = 0..(Chunks[e.m] - 1) THEN "complete" ELSE "done")
      BY <1>4, <2>4 DEF StoresChunk
    <3>2. staged'[e.m] = staged[e.m] \cup {e.seq} /\ \A n \in Msg : n # e.m => staged'[n] = staged[n]
      BY <1>0, <3>1
    <3>3. handler'.step = (IF staged'[e.m] = 0..(Chunks[e.m] - 1) THEN "complete" ELSE "done") /\ handler'.env = e
      BY <1>1, <3>1
    <3> QED BY <1>0, <1>4, <2>1, <2>2, <2>4, <3>2, <3>3 DEF Else
  <2> QED BY <2>3, <2>4
<1>5. CASE e.kind = "delete" /\ Retracts(e.m)
  <2>1. e = Delete(e.m)
    BY <1>0, <1>5, Cases, Kinds
  <2> QED BY <1>0, <1>1, <1>5, <2>1 DEF Retracts, Else
<1> QED BY <1>2, <1>3, <1>4, <1>5 DEF Store

LEMMA AssembleMeans ==
    ASSUME Types, RowInv, Assemble, NEW m, m = handler.env.m
    PROVE  /\ m \in Msg /\ Else(m) /\ Staged(m) /\ stored[m] = "none"
           /\ stored'[m] = "shown" /\ staged'[m] = Absent /\ handler'.step = "done" /\ handler'.env = handler.env
<1>1. /\ m \in Msg /\ handler \in [step : Steps, env : Envelopes]
      /\ stored \in [Msg -> {"none", "shown", "gone"}] /\ staged \in [Msg -> SUBSET Int]
      /\ Absent \in SUBSET Int
  BY Cases DEF Types, Absent
<1>2. handler' = [handler EXCEPT !.step = "done"]
      /\ stored' = [stored EXCEPT ![m] = "shown"] /\ staged' = [staged EXCEPT ![m] = Absent]
  BY DEF Assemble, Shows, To
<1>3. Staged(m) /\ stored[m] = "none"
  BY <1>1 DEF RowInv, Assemble
<1> QED BY <1>1, <1>2, <1>3 DEF Else

\* Every other step leaves the transfers alone, and the rows but for a deletion.
LEMMA RowSteps ==
    ASSUME Types, [Next]_vars
    PROVE  \/ Store
           \/ Assemble
           \/ /\ staged' = staged /\ (handler'.step = "complete" => handler' = handler)
              /\ \/ stored' = stored
                 \/ \E m \in Msg : stored[m] = "shown" /\ stored' = [stored EXCEPT ![m] = "gone"]
<1> USE DEF author, relay, reader
<1>1. CASE Receive
  BY <1>1 DEF Receive, Leaves, Duplicate, Decrypts
<1>2. CASE \E m \in Msg : ReaderDeletes(m)
  BY <1>2 DEF ReaderDeletes
<1>3. CASE staged' = staged /\ stored' = stored /\ (handler' = handler \/ handler' = Idle)
  BY <1>3 DEF Idle
<1> QED BY <1>1, <1>2, <1>3
        DEF Next, AuthorNext, Send, DeleteForMe, DeleteForEveryone, Answered, Refused, KillAuthor, LockAuthor,
            UnlockAuthor, RelayAccepts, Drop, ReaderNext, Ack, LockReader, KillReader, UnlockReader, NewSocket, vars

LEMMA StepRow ==
    ASSUME Types, RelayInv, SocketInv, RowInv, [Next]_vars
    PROVE  RowInv'
<1>a. \A e : Taken(e) => Taken(e)'
  BY TakenStays
<1>1. CASE Store
  <2> PICK e : e = handler.env
    OBVIOUS
  <2> PICK m : m = e.m
    OBVIOUS
  <2>0. m \in Msg /\ Else(m) /\ handler'.env = e /\ Taken(e)' /\ ~Taken(e) /\ e \in Envelopes /\ Chunks[m] \in Nat
    BY <1>1, StoreCases, StoreTakes, Bounds
  <2>1. \A n \in Msg : n # m => stored'[n] = stored[n] /\ staged'[n] = staged[n]
    BY <2>0 DEF Else
  <2>2. CASE /\ e = First(m) /\ Chunks[m] = 0 /\ handler'.step = "done"
             /\ stored'[m] = "shown" /\ staged'[m] = staged[m]
    <3>1. ~Staged(m)
      BY <2>0, <2>2 DEF RowInv
    <3> QED BY <1>a, <2>0, <2>1, <2>2, <3>1 DEF RowInv, Staged
  <2>3. CASE /\ e = First(m) /\ Chunks[m] > 0 /\ handler'.step = "done"
             /\ stored'[m] = stored[m] /\ staged'[m] = {}
    <3>1. stored[m] = "none"
      BY <2>0, <2>3 DEF RowInv
    <3> QED BY <1>a, <2>0, <2>1, <2>3, <3>1 DEF RowInv, Staged
  <2>4. CASE /\ e.kind = "chunk" /\ e.seq \in 0..(Chunks[m] - 1)
             /\ stored'[m] = stored[m]
             /\ ~Staged(m) /\ staged'[m] = staged[m] /\ handler'.step = "done"
    BY <1>a, <2>0, <2>1, <2>4 DEF RowInv, Staged
  <2>5. CASE /\ e.kind = "chunk" /\ e.seq \in 0..(Chunks[m] - 1)
             /\ stored'[m] = stored[m]
             /\ Staged(m) /\ staged'[m] = staged[m] \cup {e.seq}
             /\ handler'.step = (IF staged'[m] = 0..(Chunks[m] - 1) THEN "complete" ELSE "done")
    <3>1. stored[m] = "none" /\ Chunks[m] > 0 /\ staged[m] \subseteq 0..(Chunks[m] - 1) /\ Taken(First(m))
      BY <2>0, <2>5 DEF RowInv
    <3>2. staged'[m] \subseteq 0..(Chunks[m] - 1) /\ staged'[m] # Absent /\ Taken(First(m))'
      <4>1. e.seq \in staged'[m] /\ e.seq # -1
        BY <2>0, <2>5
      <4> QED BY <1>a, <2>5, <3>1, <4>1 DEF Absent
    <3>3. handler'.step = "complete" => staged'[m] = 0..(Chunks[m] - 1)
      BY <2>5
    <3> QED BY <1>a, <2>0, <2>1, <2>5, <3>1, <3>2, <3>3 DEF RowInv, Staged, Whole
  <2>6. CASE /\ e = Delete(m) /\ handler'.step = "done"
             /\ stored'[m] = (IF stored[m] = "shown" THEN "gone" ELSE stored[m])
             /\ staged'[m] = Absent
    BY <1>a, <2>0, <2>1, <2>6 DEF RowInv, Staged
  <2> QED BY <1>1, <2>2, <2>3, <2>4, <2>5, <2>6, StoreCases
<1>2. CASE Assemble
  <2> PICK m : m = handler.env.m
    OBVIOUS
  <2>0. /\ m \in Msg /\ Else(m) /\ Staged(m) /\ stored'[m] = "shown" /\ staged'[m] = Absent /\ handler'.step = "done"
    BY <1>2, AssembleMeans
  <2>1. \A n \in Msg : n # m => stored'[n] = stored[n] /\ staged'[n] = staged[n]
    BY <2>0 DEF Else
  <2>2. Taken(First(m))'
    BY <1>a, <2>0 DEF RowInv
  <2> QED BY <1>a, <2>0, <2>1, <2>2 DEF RowInv, Staged
<1>3. CASE /\ staged' = staged /\ (handler'.step = "complete" => handler' = handler)
           /\ \/ stored' = stored
              \/ \E m \in Msg : stored[m] = "shown" /\ stored' = [stored EXCEPT ![m] = "gone"]
  <2>1. \A n \in Msg : stored[n] = "none" => stored'[n] = "none"
    BY <1>3 DEF Types
  <2>2. \A n \in Msg : Staged(n)' <=> Staged(n)
    BY <1>3 DEF Staged
  <2>3. \A n \in Msg : ~Taken(First(n))' => stored'[n] = "none" /\ ~Staged(n)'
    BY <1>a, <2>1, <2>2 DEF RowInv
  <2>4. \A n \in Msg : Staged(n)' => stored'[n] = "none" /\ Chunks[n] > 0 /\ staged'[n] \subseteq 0..(Chunks[n] - 1)
    BY <1>3, <2>1, <2>2 DEF RowInv
  <2>5. handler'.step = "complete" => handler'.env.kind = "chunk" /\ staged'[handler'.env.m] # Absent
                                      /\ staged'[handler'.env.m] = 0..(Chunks[handler'.env.m] - 1)
    BY <1>3 DEF RowInv, Whole, Staged
  <2> QED BY <2>3, <2>4, <2>5 DEF RowInv, Whole, Staged
<1> QED BY <1>1, <1>2, <1>3, RowSteps

LEMMA InitRow == Init => RowInv
BY DEF Init, RowInv, Staged, Absent, Idle

LEMMA StepStays ==
    ASSUME Types, RelayInv, SocketInv, RowInv, [Next]_vars
    PROVE  \A m \in Msg : stored[m] = "gone" => stored'[m] = "gone"
<1> SUFFICES ASSUME NEW n \in Msg, stored[n] = "gone" PROVE stored'[n] = "gone"
  OBVIOUS
<1>1. CASE Store
  <2> PICK e : e = handler.env
    OBVIOUS
  <2>1. ~Taken(e) /\ Else(e.m)
    BY <1>1, StoreTakes, StoreCases
  <2>2. CASE e.m # n
    BY <2>1, <2>2 DEF Else
  <2>3. CASE e.m = n
    <3>1. e # First(n)
      BY <2>1 DEF RowInv
    <3> QED BY <1>1, <2>3, <3>1, StoreCases
  <2> QED BY <2>2, <2>3
<1>2. CASE Assemble
  <2>1. Else(handler.env.m) /\ stored[handler.env.m] = "none"
    BY <1>2, AssembleMeans
  <2> QED BY <2>1 DEF Else
<1>3. CASE stored' = stored \/ \E m \in Msg : stored' = [stored EXCEPT ![m] = "gone"]
  BY <1>3 DEF Types
<1> QED BY <1>1, <1>2, <1>3, RowSteps

-----------------------------------------------------------------------------
(* The reader: what was dealt with has had its effect.                     *)

LEMMA IdleStep == Idle.step = "idle"
BY DEF Idle

\* The handler that runs is not cut short.
LEMMA Uninterrupted ==
    ASSUME "interrupt reader" \notin Fault, Types, [Next]_vars, handler' # handler
    PROVE  Receive \/ Store \/ Assemble \/ (handler.step = "done" /\ handler' = Idle)
<1> USE DEF author, relay, reader
<1>1. ASSUME NEW kind, Spend(IF handler = Idle THEN kind ELSE "interrupt reader"), handler' = Idle PROVE FALSE
  BY <1>1 DEF Spend
<1> QED BY <1>1 DEF Next, AuthorNext, Send, DeleteForMe, DeleteForEveryone, Answered, Refused, KillAuthor, LockAuthor,
            UnlockAuthor, RelayAccepts, Drop, ReaderNext, Ack, ReaderDeletes, LockReader, KillReader, UnlockReader,
            NewSocket, vars

\* Only the handler that stores deals with an envelope.
LEMMA TakenSteps ==
    ASSUME "interrupt reader" \notin Fault, Types, RelayInv, SocketInv, [Next]_vars, ~Store, NEW e
    PROVE  Taken(e)' => Taken(e)
<1> USE DEF author, relay, reader
<1>0. handler \in [step : Steps, env : Envelopes]
  BY DEF Types
<1>1. CASE Receive /\ Decrypts
  <2> PICK d : d = mailbox[handed + 1].env
    OBVIOUS
  <2>1. handler' = [step |-> "decrypted", env |-> d] /\ handler = Idle /\ handed < Len(mailbox) /\ accepted' = accepted
    BY <1>1 DEF Receive, Decrypts
  <2>2. Seen(e)' <=> Seen(e) \/ e = d
    BY <1>1, <2>1, SeenDecrypts
  <2>3. (Decrypted(e)' <=> e = d) /\ ~Decrypted(e)
    BY <2>1 DEF Decrypted, Idle
  <2> QED BY <2>2, <2>3 DEF Taken
<1>2. CASE ~(Receive /\ Decrypts)
  <2>1. Seen(e)' <=> Seen(e)
    <3>1. CASE accepted' = accepted /\ mailbox' = mailbox
      BY <3>1 DEF Seen, Accepted
    <3>2. CASE RelayAccepts
      BY <3>2, SeenAccepts
    <3>3. CASE Ack /\ Acks(handler.env)
      <4>1. handler.step # "idle" /\ accepted' = accepted
        BY <3>3 DEF Ack
      <4> QED BY <3>3, <4>1, Handled, SeenAcks
    <3> QED BY <1>2, <3>1, <3>2, <3>3, MailSteps
  <2>2. Decrypted(e) => Decrypted(e)'
    <3> SUFFICES ASSUME handler.step = "decrypted", handler' # handler PROVE FALSE
      BY DEF Decrypted
    <3>0. handler # Idle
      BY IdleStep
    <3>1. ~Receive /\ ~Assemble /\ ~(handler.step = "done")
      BY <3>0 DEF Receive, Assemble
    <3> QED BY <3>1, Uninterrupted
  <2> QED BY <2>1, <2>2 DEF Taken
<1> QED BY <1>1, <1>2

\* The announcement of a photo whose chunk was seen was dealt with before.
LEMMA AnnouncedBefore ==
    ASSUME Types, RelayInv, SocketInv, NEW m \in Msg \ missed, NEW e \in Envelopes,
           Before(First(m), e), Seen(e), ~Decrypted(First(m))
    PROVE  Taken(First(m))
BY DEF SocketInv, Taken

\* EffectInv of the message m.
Effect(m) ==
    /\ Taken(First(m)) /\ ~Accepted(Delete(m)) => stored[m] # "none" \/ Staged(m)
    /\ m \notin missed => \A seq \in 0..(Chunks[m] - 1) :
          Taken(Chunk(m, seq)) /\ ~Accepted(Delete(m)) => stored[m] # "none" \/ (Staged(m) /\ seq \in staged[m])
    /\ Staged(m) /\ Whole(m) => handler.step = "complete" /\ handler.env.m = m
    /\ m \notin missed /\ Before(First(m), Delete(m)) /\ Taken(Delete(m)) =>
          Taken(First(m)) /\ stored[m] # "shown" /\ ~Staged(m)

LEMMA EffectMeans == EffectInv <=> \A m \in Msg : Effect(m)
BY DEF EffectInv, Effect

\* A step that deals with no envelope of m and leaves its row and transfer alone, or
\* makes a shown row a deleted one.
LEMMA EffectStays ==
    ASSUME Types, RelayInv, SocketInv, [Next]_vars, NEW m \in Msg, Effect(m),
           staged'[m] = staged[m],
           stored'[m] = stored[m] \/ (stored[m] = "shown" /\ stored'[m] = "gone"),
           Staged(m) /\ Whole(m) => handler' = handler,
           \A e \in Envelopes : e.m = m => (Taken(e)' => Taken(e))
    PROVE  Effect(m)'
<1>0. /\ First(m) \in Envelopes /\ Delete(m) \in Envelopes /\ First(m).m = m /\ Delete(m).m = m
      /\ \A seq \in 0..(Chunks[m] - 1) : Chunk(m, seq) \in Envelopes /\ Chunk(m, seq).m = m
  BY Made, Kinds
<1>1. (Staged(m)' <=> Staged(m)) /\ (Whole(m)' <=> Whole(m))
  BY DEF Staged, Whole
<1>2. Accepted(Delete(m)) => Accepted(Delete(m))'
  BY AcceptedGrows
<1>3. missed \subseteq missed'
  BY DEF Next, AuthorNext, Send, DeleteForMe, DeleteForEveryone, Answered, Refused, KillAuthor, LockAuthor,
         UnlockAuthor, RelayAccepts, Drop, ReaderNext, Receive, Leaves, Duplicate, Decrypts, Store, Assemble, Ack,
         ReaderDeletes, LockReader, KillReader, UnlockReader, NewSocket, vars, author, relay, reader
<1>4. /\ Taken(First(m))' <=> Taken(First(m))
      /\ Taken(Delete(m))' => Taken(Delete(m))
      /\ \A seq \in 0..(Chunks[m] - 1) : Taken(Chunk(m, seq))' => Taken(Chunk(m, seq))
  BY <1>0, TakenStays
<1>5. Before(First(m), Delete(m))' /\ Taken(Delete(m)) => Before(First(m), Delete(m))
  <2> SUFFICES ASSUME Before(First(m), Delete(m))', Taken(Delete(m)) PROVE Before(First(m), Delete(m))
    OBVIOUS
  <2>1. Accepted(Delete(m))
    BY DEF Taken, Seen
  <2>2. CASE RelayAccepts
    BY <2>1, <2>2, BeforeMore, AcceptsMore
  <2>3. CASE accepted' = accepted
    BY <2>3 DEF Before
  <2> QED BY <2>2, <2>3, MailSteps DEF Receive, Ack, author
<1>6. Effect(m)!1'
  BY <1>1, <1>2, <1>4 DEF Effect
<1>7. Effect(m)!2'
  BY <1>1, <1>2, <1>3, <1>4 DEF Effect
<1>8. Effect(m)!3'
  BY <1>1 DEF Effect
<1>9. Effect(m)!4'
  BY <1>1, <1>3, <1>4, <1>5 DEF Effect
<1> QED BY <1>6, <1>7, <1>8, <1>9 DEF Effect

LEMMA StoreEffect ==
    ASSUME Types, RelayInv, SocketInv, RowInv, EffectInv, Store,
           NEW e, e = handler.env, NEW m, m = e.m
    PROVE  Effect(m)'
<1>0. /\ m \in Msg /\ e \in Envelopes /\ Seen(e) /\ ~Taken(e) /\ (\A x : Decrypted(x) <=> x = e) /\ handler'.env = e
      /\ Effect(m) /\ Chunks[m] \in Nat
  BY StoreTakes, StoreCases, EffectMeans, Bounds
<1>1. UNCHANGED <<accepted, mailbox, missed>>
  BY DEF Store, relay
<1>2. /\ \A x : Accepted(x)' <=> Accepted(x)
      /\ \A x, y : Before(x, y)' <=> Before(x, y)
  BY <1>1 DEF Accepted, Before
<1>3. \A x : Taken(x)' => Taken(x) \/ x = e
  <2> SUFFICES ASSUME NEW x, Taken(x)' PROVE Taken(x) \/ x = e
    OBVIOUS
  <2>1. Seen(x)'
    BY DEF Taken
  <2>2. Seen(x)
    BY <1>1, <2>1 DEF Seen, Accepted
  <2> QED BY <1>0, <2>2 DEF Taken
<1>4. \A x : Taken(x) => Taken(x)'
  <2>1. [Next]_vars
    BY DEF Next, ReaderNext
  <2> QED BY <2>1, TakenStays
<1>k. /\ First(m).kind = "first" /\ Delete(m).kind = "delete"
      /\ \A seq : Chunk(m, seq).kind = "chunk" /\ Chunk(m, seq).seq = seq
  BY Kinds
<1>5. Staged(m)' <=> staged'[m] # Absent
  BY DEF Staged
<1>6. Whole(m)' <=> staged'[m] = 0..(Chunks[m] - 1)
  BY DEF Whole
<1>7. m \notin missed /\ Before(First(m), Delete(m)) /\ Taken(Delete(m)) => Taken(First(m)) /\ ~Staged(m) /\ stored[m] # "shown"
  BY <1>0 DEF Effect
\* The first envelope: nothing else of the message was dealt with.
<1>8. CASE e = First(m) /\ \/ stored'[m] = "shown" /\ ~Staged(m)'
                           \/ staged'[m] = {} /\ Chunks[m] > 0
  <2>1. stored[m] = "none" /\ ~Staged(m)
    BY <1>0, <1>8 DEF RowInv
  <2>2. stored'[m] # "none" \/ Staged(m)'
    <3>1. {} # Absent
      BY DEF Absent
    <3> QED BY <1>5, <1>8, <3>1
  <2>3. ASSUME NEW seq \in 0..(Chunks[m] - 1), m \notin missed, Taken(Chunk(m, seq))', ~Accepted(Delete(m)) PROVE FALSE
    <3>1. Chunk(m, seq) # e
      BY <1>k, <1>8
    <3> QED BY <1>0, <1>3, <2>1, <2>3, <3>1 DEF Effect
  <2>4. ~(Staged(m)' /\ Whole(m)')
    <3>1. Chunks[m] > 0 => 0 \in 0..(Chunks[m] - 1)
      BY <1>0
    <3> QED BY <1>6, <1>8, <3>1
  <2>5. ASSUME m \notin missed, Before(First(m), Delete(m)), Taken(Delete(m))' PROVE FALSE
    <3>1. Delete(m) # e
      BY <1>k, <1>8
    <3> QED BY <1>0, <1>3, <1>7, <1>8, <2>5, <3>1
  <2> QED BY <1>1, <1>2, <2>2, <2>3, <2>4, <2>5 DEF Effect
<1>9. CASE e = Chunk(m, e.seq) /\ e.seq \in 0..(Chunks[m] - 1) /\ e.kind = "chunk" /\ stored'[m] = stored[m]
  <2>0. First(m) # e /\ Delete(m) # e
    BY <1>k, <1>9
  <2>1. /\ Taken(First(m))' => Taken(First(m))
        /\ Taken(Delete(m))' => Taken(Delete(m))
        /\ \A seq : Taken(Chunk(m, seq))' => Taken(Chunk(m, seq)) \/ seq = e.seq
    BY <1>k, <1>3, <2>0
  <2>2. CASE ~Staged(m) /\ staged'[m] = staged[m]
    <3>0. ~Staged(m)'
      BY <1>5, <2>2 DEF Staged
    <3>1. ASSUME NEW seq \in 0..(Chunks[m] - 1), m \notin missed, Taken(Chunk(m, seq))', ~Accepted(Delete(m))
          PROVE  stored[m] # "none"
      <4>1. CASE Taken(Chunk(m, seq))
        BY <1>0, <2>2, <3>1, <4>1 DEF Effect
      <4>2. CASE seq = e.seq
        <5>1. Accepted(e)
          BY <1>0 DEF Seen
        <5>2. Before(First(m), e)
          BY <1>0, <1>9, <5>1 DEF RelayInv
        <5>3. ~Decrypted(First(m))
          BY <1>0, <2>0
        <5>4. Taken(First(m))
          BY <1>0, <3>1, <5>2, <5>3, AnnouncedBefore
        <5> QED BY <1>0, <2>2, <3>1, <5>4 DEF Effect
      <4> QED BY <2>1, <3>1, <4>1, <4>2
    <3>2. Taken(First(m)) /\ ~Accepted(Delete(m)) => stored[m] # "none"
      BY <1>0, <2>2 DEF Effect
    <3>3. m \notin missed /\ Before(First(m), Delete(m)) /\ Taken(Delete(m)) => Taken(First(m))' /\ stored[m] # "shown"
      BY <1>4, <1>7
    <3> QED BY <1>1, <1>2, <1>9, <2>1, <3>0, <3>1, <3>2, <3>3 DEF Effect
  <2>3. CASE /\ Staged(m) /\ staged'[m] = staged[m] \cup {e.seq}
             /\ handler'.step = (IF staged'[m] = 0..(Chunks[m] - 1) THEN "complete" ELSE "done")
    <3>1. stored[m] = "none"
      BY <1>0, <2>3 DEF RowInv
    <3>2. Staged(m)'
      <4>1. e.seq \in staged'[m] /\ e.seq # -1
        BY <1>0, <1>9, <2>3
      <4> QED BY <1>5, <4>1 DEF Absent
    <3>3. ASSUME NEW seq \in 0..(Chunks[m] - 1), m \notin missed, Taken(Chunk(m, seq))', ~Accepted(Delete(m))
          PROVE  seq \in staged'[m]
      <4>1. CASE Taken(Chunk(m, seq))
        BY <1>0, <2>3, <3>1, <3>3, <4>1 DEF Effect
      <4>2. CASE seq = e.seq
        BY <2>3, <4>2
      <4> QED BY <2>1, <3>3, <4>1, <4>2
    <3>4. Whole(m)' => handler'.step = "complete" /\ handler'.env.m = m
      BY <1>0, <1>6, <2>3
    <3>5. ~(m \notin missed /\ Before(First(m), Delete(m)) /\ Taken(Delete(m)))
      BY <1>7, <2>3
    <3> QED BY <1>1, <1>2, <2>1, <3>2, <3>3, <3>4, <3>5 DEF Effect
  <2> QED BY <1>0, <1>9, <2>0, <2>2, <2>3, StoreCases
<1>10. CASE /\ e = Delete(m) /\ stored'[m] = (IF stored[m] = "shown" THEN "gone" ELSE stored[m])
            /\ staged'[m] = Absent
  <2>1. Accepted(Delete(m))' /\ ~Staged(m)' /\ stored'[m] # "shown"
    BY <1>0, <1>2, <1>5, <1>10 DEF Seen
  <2>2. ASSUME m \notin missed, Before(First(m), Delete(m)) PROVE Taken(First(m))'
    <3>1. ~Decrypted(First(m))
      BY <1>0, <1>k, <1>10
    <3>2. Taken(First(m))
      BY <1>0, <1>10, <2>2, <3>1, AnnouncedBefore
    <3> QED BY <1>4, <3>2
  <2> QED BY <1>1, <1>2, <2>1, <2>2 DEF Effect
<1>11. \/ e = First(m) /\ stored'[m] = "shown" /\ staged'[m] = staged[m]
       \/ e = First(m) /\ Chunks[m] > 0 /\ staged'[m] = {}
       \/ e = Chunk(m, e.seq) /\ e.seq \in 0..(Chunks[m] - 1) /\ e.kind = "chunk" /\ stored'[m] = stored[m]
       \/ /\ e = Delete(m) /\ stored'[m] = (IF stored[m] = "shown" THEN "gone" ELSE stored[m])
          /\ staged'[m] = Absent
  BY StoreCases
<1>12. e = First(m) /\ staged'[m] = staged[m] => ~Staged(m)'
  BY <1>0, <1>5 DEF RowInv, Staged
<1> QED BY <1>8, <1>9, <1>10, <1>11, <1>12

LEMMA StepEffect ==
    ASSUME "interrupt reader" \notin Fault, Types, RelayInv, SocketInv, RowInv, EffectInv, [Next]_vars
    PROVE  EffectInv'
<1> SUFFICES ASSUME NEW m \in Msg PROVE Effect(m)'
  BY DEF EffectInv, Effect
<1>0. Effect(m) /\ \A n \in Msg : Effect(n)
  BY EffectMeans
<1>1. CASE Store
  <2> PICK e : e = handler.env
    OBVIOUS
  <2>1. CASE e.m = m
    BY <1>1, <2>1, StoreEffect
  <2>2. CASE e.m # m
    <3>1. staged'[m] = staged[m] /\ stored'[m] = stored[m]
      BY <1>1, <2>2, StoreCases DEF Else
    <3>2. ~(Staged(m) /\ Whole(m))
      BY <1>0, <1>1 DEF Effect, Store
    <3>3. ASSUME NEW x \in Envelopes, x.m = m, Taken(x)' PROVE Taken(x)
      <4>1. Seen(x)
        <5>1. Seen(x)'
          BY <3>3 DEF Taken
        <5> QED BY <1>1, <5>1 DEF Store, relay, Seen, Accepted
      <4>2. ~Decrypted(x)
        BY <1>1, <2>2, <3>3, StoreTakes
      <4> QED BY <4>1, <4>2 DEF Taken
    <3> QED BY <1>0, <3>1, <3>2, <3>3, EffectStays
  <2> QED BY <2>1, <2>2
<1>2. CASE Assemble /\ ~Store
  <2> PICK n : n = handler.env.m
    OBVIOUS
  <2>1. n \in Msg /\ Else(n) /\ Staged(n) /\ stored'[n] = "shown" /\ staged'[n] = Absent
    BY <1>2, AssembleMeans
  <2>2. \A x : Taken(x)' => Taken(x)
    BY <1>2, TakenSteps
  <2>3. CASE n = m
    <3>1. UNCHANGED <<accepted, mailbox, missed>>
      BY <1>2 DEF Assemble, relay
    <3>2. (\A x, y : Before(x, y)' <=> Before(x, y)) /\ ~Staged(m)'
      BY <2>1, <2>3, <3>1 DEF Before, Staged
    <3>3. ~(m \notin missed /\ Before(First(m), Delete(m)) /\ Taken(Delete(m)))
      BY <1>0, <2>1, <2>3 DEF Effect
    <3> QED BY <2>1, <2>2, <2>3, <3>1, <3>2, <3>3 DEF Effect
  <2>4. CASE n # m
    <3>1. staged'[m] = staged[m] /\ stored'[m] = stored[m]
      BY <2>1, <2>4 DEF Else
    <3>2. ~(Staged(m) /\ Whole(m))
      BY <1>0, <2>4 DEF Effect
    <3> QED BY <1>0, <2>2, <3>1, <3>2, EffectStays
  <2> QED BY <2>3, <2>4
<1>3. CASE ~Store /\ ~Assemble
  <2>1. /\ staged' = staged
        /\ \/ stored' = stored
           \/ \E n \in Msg : stored[n] = "shown" /\ stored' = [stored EXCEPT ![n] = "gone"]
    BY <1>3, RowSteps
  <2>2. stored'[m] = stored[m] \/ (stored[m] = "shown" /\ stored'[m] = "gone")
    BY <2>1 DEF Types
  <2>3. Staged(m) /\ Whole(m) => handler' = handler
    <3> SUFFICES ASSUME Staged(m), Whole(m), handler' # handler PROVE FALSE
      OBVIOUS
    <3>1. handler.step = "complete"
      BY <1>0 DEF Effect
    <3>2. ~Receive
      BY <3>1, IdleStep DEF Receive
    <3> QED BY <1>3, <3>1, <3>2, Uninterrupted
  <2>4. \A x \in Envelopes : x.m = m => (Taken(x)' => Taken(x))
    BY <1>3, TakenSteps
  <2> QED BY <1>0, <2>1, <2>2, <2>3, <2>4, EffectStays
<1> QED BY <1>1, <1>2, <1>3

LEMMA InitEffect == Init => EffectInv
<1> SUFFICES ASSUME Init PROVE EffectInv OBVIOUS
<1>1. accepted = <<>> /\ staged = [m \in Msg |-> Absent]
  BY DEF Init
<1>2. \A e : ~Taken(e)
  BY <1>1 DEF Taken, Seen, Accepted, Range
<1>3. \A m \in Msg : ~Staged(m)
  BY <1>1 DEF Staged
<1> QED BY <1>2, <1>3 DEF EffectInv

-----------------------------------------------------------------------------
(* The theorems.                                                           *)

Inv == Types /\ AuthorInv /\ RelayInv /\ SocketInv /\ RowInv

LEMMA Inductive == Init => Inv
BY InitTypes, InitAuthor, InitRelay, InitSocket, InitRow DEF Inv

LEMMA Preserved == Inv /\ [Next]_vars => Inv'
BY StepTypes, StepAuthor, StepRelay, StepSocket, StepRow DEF Inv

LEMMA Always == Spec => []Inv
BY Inductive, Preserved, PTL DEF Spec

\* The loop of TypeOK waits for one entry.
LEMMA InvMeansTypeOK == Inv => TypeOK
<1> SUFFICES ASSUME Inv PROVE TypeOK OBVIOUS
<1>1. ASSUME NEW k \in Loop
      PROVE  LET mine == {i \in DOMAIN queue : queue[i].by = k} IN
             IF rest[k] = {} THEN mine = {}
             ELSE \E i \in DOMAIN queue : mine = {i} /\ queue[i].env \in Parts(Oldest(rest[k]))
  <2>1. Waits(queue, rest[k], k)
    BY DEF Inv, AuthorInv, AllWait
  <2>2. CASE rest[k] = {}
    BY <2>1, <2>2 DEF Waits
  <2>3. CASE rest[k] # {}
    <3>1. PICK i \in DOMAIN queue : /\ queue[i].by = k /\ queue[i].env \in Parts(Oldest(rest[k]))
                                    /\ \A j \in DOMAIN queue : queue[j].by = k => j = i
      BY <2>1, <2>3 DEF Waits
    <3>2. {j \in DOMAIN queue : queue[j].by = k} = {i}
      BY <3>1
    <3> QED BY <2>3, <3>1, <3>2
  <2> QED BY <2>2, <2>3
<1>2. Range(accepted) \subseteq Envelopes /\ IsInjective(accepted)
  BY DEF Inv, Types, RelayInv, Range
<1>3. \A m \in Msg : Staged(m) => staged[m] \subseteq 0..(Chunks[m] - 1)
  BY DEF Inv, RowInv
<1>4. handler.step \in Steps /\ handler.env \in Envelopes
  BY DEF Inv, Types
<1> QED BY <1>1, <1>2, <1>3, <1>4 DEF Inv, Types, TypeOK, QueueEntry, Entry

\* The types of the state; and whatever locks, unlocks, answers and refusals come in between,
\* each resend loop (resendPendingOutbound) waits for exactly one queued envelope, of the
\* message it is at.
THEOREM TypeCorrect == Spec => []TypeOK
BY Always, InvMeansTypeOK, PTL

\* A row the author sees as sent was accepted by the relay as a whole, every chunk of a photo
\* included, however many calls and resend loops were sending it.
THEOREM SentIsAccepted == Spec => []SentMeansAccepted
<1>1. Inv => SentMeansAccepted
  BY DEF Inv, AuthorInv
<1> QED BY <1>1, Always, PTL

\* What the reader deleted, let expire or had retracted never comes back, whatever is delivered
\* again after lost acks, locks and deaths, those inside doReceiveEnvelope included.
THEOREM GoneStaysGone == Spec => StaysGone
<1>1. Inv /\ [Next]_vars => [\A m \in Msg : stored[m] = "gone" => stored'[m] = "gone"]_vars
  BY StepStays DEF Inv
<1> QED BY <1>1, Always, PTL DEF Spec, StaysGone

LEMMA EffectAlways ==
    ASSUME "interrupt reader" \notin Fault
    PROVE  Spec => [](Inv /\ EffectInv)
<1>1. Init => Inv /\ EffectInv
  BY Inductive, InitEffect
<1>2. Inv /\ EffectInv /\ [Next]_vars => Inv' /\ EffectInv'
  BY Preserved, StepEffect DEF Inv
<1> QED BY <1>1, <1>2, PTL DEF Spec

\* Nothing under way: what the relay accepted was dealt with.
LEMMA QuiescentTaken ==
    ASSUME Quiescent, NEW e, Accepted(e)
    PROVE  Taken(e)
BY DEF Quiescent, Taken, Seen, Decrypted, Idle

\* What the author's screen says comes true on the reader's: once nothing is under way, every
\* text and photo accepted as a whole and not retracted has been shown, except a photo whose
\* announcement a locked phone left.  No lock and no death inside doReceiveEnvelope is assumed:
\* the ratchet step of decrypt is persisted before the content (services/messaging.ts:613).
THEOREM SentComesTrue ==
    ASSUME "interrupt reader" \notin Fault
    PROVE  Spec => []SentArrives
<1>1. Inv /\ EffectInv => SentArrives
  <2> SUFFICES ASSUME Inv, EffectInv PROVE SentArrives OBVIOUS
  <2>1. SentMeansAccepted
    BY DEF Inv, AuthorInv
  <2>2. ASSUME Quiescent, NEW m \in Msg, AllAccepted(m), ~Accepted(Delete(m)), Chunks[m] > 0 => m \notin missed,
               stored[m] = "none"
        PROVE  FALSE
    <3>0. Effect(m) /\ handler = Idle
      BY <2>2, EffectMeans DEF Quiescent
    <3>1. Taken(First(m))
      BY <2>2, Made, QuiescentTaken DEF AllAccepted
    <3>2. Staged(m)
      BY <2>2, <3>0, <3>1 DEF Effect
    <3>3. Chunks[m] > 0 /\ staged[m] \subseteq 0..(Chunks[m] - 1)
      BY <3>2 DEF Inv, RowInv
    <3>4. ASSUME NEW seq \in 0..(Chunks[m] - 1) PROVE seq \in staged[m]
      <4>1. Taken(Chunk(m, seq))
        BY <2>2, Made, QuiescentTaken DEF AllAccepted
      <4> QED BY <2>2, <3>0, <3>3, <4>1 DEF Effect
    <3>5. Whole(m)
      BY <3>3, <3>4 DEF Whole
    <3>6. handler.step = "complete"
      BY <3>0, <3>2, <3>5 DEF Effect
    <3> QED BY <3>0, <3>6 DEF Idle
  <2> QED BY <2>1, <2>2 DEF SentArrives, EverythingArrives, Arrived
<1> QED BY <1>1, EffectAlways, PTL

\* A retraction the relay accepted after the message leaves the reader with neither the message
\* nor a transfer that could become one, if no lock and no death cut a handler short and the
\* message was not left by a locked phone.
THEOREM RetractionsWin ==
    ASSUME "interrupt reader" \notin Fault
    PROVE  Spec => []RetractionWins
<1>1. Inv /\ EffectInv => RetractionWins
  <2> SUFFICES ASSUME EffectInv, Inv, Quiescent, NEW m \in Msg \ missed, RetractedAfter(m)
               PROVE  stored[m] # "shown" /\ ~Staged(m)
    BY DEF RetractionWins
  <2>1. Before(First(m), Delete(m))
    BY DEF RetractedAfter, Before
  <2>2. Accepted(Delete(m))
    BY <2>1, BeforeMeans DEF Inv
  <2>3. Taken(Delete(m))
    BY <2>2, QuiescentTaken
  <2> QED BY <2>1, <2>3, EffectMeans DEF Effect
<1> QED BY <1>1, EffectAlways, PTL
=============================================================================
