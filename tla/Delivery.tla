------------------------------ MODULE Delivery ------------------------------
(***************************************************************************)
(* Texts, photos and retractions from one phone (the author) to another    *)
(* (the reader), end to end: services/messaging.ts with the rows of        *)
(* db/repos/messages.ts and the staging of db/repos/image-transfers.ts.    *)
(*                                                                         *)
(* A text is one envelope; a photo is an announcement and its chunks, each *)
(* sent once the one before was accepted.  The outbound queue of the relay *)
(* client is memory, the rows and the Signal session are in the database,  *)
(* which closes with the app lock.  Rows left in 'sending' are sent again  *)
(* by a loop that every unlock starts, without stopping the earlier ones.  *)
(* The lock does not stop the socket, and an envelope delivered to a       *)
(* locked phone is left for the next socket.                               *)
(***************************************************************************)
EXTENDS Integers, Sequences, SequencesExt

CONSTANTS
    Chunks,     \* n-th message of the author -> its number of chunks, 0 for a text
    MaxLoops,   \* bound: resend loops alive at the same time
    Fault,      \* the kinds of trouble that may strike
    MaxFaults   \* bound: how often

ASSUME DeliveryConstants ==
    /\ Chunks \in Seq(Nat) /\ Chunks # <<>>
    /\ MaxLoops \in Nat /\ MaxFaults \in Nat
    /\ Fault \subseteq {"kill author", "lock author", "refuse", "drop",
                        "kill reader", "lock reader", "interrupt reader"}

VARIABLES
    row,        \* author: status of the message row
    unlocked,   \* author: the app lock
    queue,      \* author: outbound queue of the relay client, with who waits for each entry
    rest,       \* author: messages each resend loop has yet to settle; it is at the oldest
    accepted,   \* relay: envelopes it has accepted, in order
    mailbox,    \* relay: envelopes the reader has not acknowledged, in order
    handed,     \* relay: how many of them the present socket has delivered
    stored,     \* reader: message rows
    staged,     \* reader: transfer rows with the chunks they have
    handler,    \* reader: the envelope in doReceiveEnvelope and how far
    open,       \* reader: the app lock
    alive,      \* reader: the process has a socket
    missed,     \* history: messages whose first envelope a locked phone left
    spent

author == <<row, unlocked, queue, rest>>
relay == <<accepted, mailbox, handed>>
reader == <<stored, staged, handler, open, alive, missed>>
vars == <<author, relay, reader, spent>>

-----------------------------------------------------------------------------
Msg == DOMAIN Chunks
Loop == 1..MaxLoops
Own == 0                    \* who waits: the call of sendText or sendImage,
Nobody == MaxLoops + 1      \* or nobody, as for a control message

Envelope(kind, m, seq) == [kind |-> kind, m |-> m, seq |-> seq]
First(m) == Envelope("first", m, 0)
Chunk(m, seq) == Envelope("chunk", m, seq)
Delete(m) == Envelope("delete", m, 0)
Parts(m) == {First(m)} \cup {Chunk(m, seq) : seq \in 0..(Chunks[m] - 1)}
Envelopes == UNION {Parts(m) \cup {Delete(m)} : m \in Msg}

Accepted(e) == e \in Range(accepted)
AllAccepted(m) == \A e \in Parts(m) : Accepted(e)

Idle == [step |-> "idle", env |-> Delete(1)]
Absent == {-1}              \* no transfer row
Staged(m) == staged[m] # Absent

Spend(kind) == kind \in Fault /\ spent < MaxFaults /\ spent' = spent + 1

Init ==
    /\ row = [m \in Msg |-> "new"]
    /\ unlocked = TRUE
    /\ queue = <<>>
    /\ rest = [k \in Loop |-> {}]
    /\ accepted = <<>>
    /\ mailbox = <<>>
    /\ handed = 0
    /\ stored = [m \in Msg |-> "none"]
    /\ staged = [m \in Msg |-> Absent]
    /\ handler = Idle
    /\ open = TRUE
    /\ alive = TRUE
    /\ missed = {}
    /\ spent = 0

-----------------------------------------------------------------------------
(* The author.                                                             *)

Queued(e, by) == [env |-> e, by |-> by]

\* Fault: the last chunk is not sent.
HasNext_SkipsLast(e) == e.kind # "delete" /\ e.seq + (IF e.kind = "first" THEN 1 ELSE 2) < Chunks[e.m]

\* What is sent once e was accepted: the announcement leads to chunk 0, a
\* chunk to the next; nothing follows the last.
HasNext(e) == e.kind # "delete" /\ e.seq + (IF e.kind = "first" THEN 0 ELSE 1) < Chunks[e.m]
NextPart(e) == Chunk(e.m, IF e.kind = "first" THEN 0 ELSE e.seq + 1)

\* updateMessageStatus is an UPDATE: it leaves a deleted row deleted.
SetStatus(m, status) == row' = [row EXCEPT ![m] = IF @ = "gone" THEN @ ELSE status]

\* sendText, sendImage: the row in 'sending', then the first envelope.
Send(m) ==
    /\ unlocked
    /\ row[m] = "new"
    /\ \A n \in 1..(m - 1) : row[n] # "new"
    /\ row' = [row EXCEPT ![m] = "sending"]
    /\ queue' = Append(queue, Queued(First(m), Own))
    /\ UNCHANGED <<unlocked, rest, relay, reader, spent>>

\* A loop takes the messages it captured by age.
Oldest(S) == CHOOSE m \in S : \A n \in S : m <= n
Younger(S) == S \ {Oldest(S)}

\* Fault: the settled message stays in the captured list.
GoesOn_KeepsSettled(by) ==
    /\ rest' = rest
    /\ queue' = IF by \in Loop /\ Younger(rest[by]) # {}
                THEN Append(Tail(queue), Queued(First(Oldest(Younger(rest[by]))), by))
                ELSE Tail(queue)

\* The message of the queue's head is settled: a loop goes on with the next
\* one it captured.
GoesOn(by) ==
    IF by \in Loop
      THEN LET left == Younger(rest[by]) IN
           /\ rest' = [rest EXCEPT ![by] = left]
           /\ queue' = IF left = {} THEN Tail(queue)
                       ELSE Append(Tail(queue), Queued(First(Oldest(left)), by))
      ELSE rest' = rest /\ queue' = Tail(queue)

\* With the database closed the next read or write throws, also the one in
\* the catch block: the call or the loop is over and the row stays as it is.
Dies(by) ==
    /\ rest' = IF by \in Loop THEN [rest EXCEPT ![by] = {}] ELSE rest
    /\ queue' = Tail(queue)
    /\ row' = row

\* The relay's answer reaches the author and resumes whoever waits.
Answered ==
    /\ queue # <<>>
    /\ Accepted(Head(queue).env)
    /\ LET e == Head(queue).env
           by == Head(queue).by IN
       IF by = Nobody THEN queue' = Tail(queue) /\ UNCHANGED <<row, rest>>
       ELSE IF ~unlocked THEN Dies(by)
       ELSE IF HasNext(e)
         THEN /\ queue' = Append(Tail(queue), Queued(NextPart(e), by))
              /\ UNCHANGED <<row, rest>>
         ELSE SetStatus(e.m, "sent") /\ GoesOn(by)
    /\ UNCHANGED <<unlocked, relay, reader, spent>>

\* The relay refuses the head: the promise rejects, the row becomes 'failed'.
Refused ==
    /\ Spend("refuse")
    /\ queue # <<>>
    /\ ~Accepted(Head(queue).env)
    /\ LET e == Head(queue).env
           by == Head(queue).by IN
       IF by = Nobody THEN queue' = Tail(queue) /\ UNCHANGED <<row, rest>>
       ELSE IF ~unlocked THEN Dies(by)
       ELSE SetStatus(e.m, "failed") /\ GoesOn(by)
    /\ UNCHANGED <<unlocked, relay, reader>>

\* deleteMessageForMe, or the expiry of the row.
DeleteForMe(m) ==
    /\ unlocked
    /\ row[m] \in {"sending", "sent", "failed"}
    /\ row' = [row EXCEPT ![m] = "gone"]
    /\ UNCHANGED <<unlocked, queue, rest, relay, reader, spent>>

DeleteForEveryone(m) ==
    /\ unlocked
    /\ row[m] \in {"sending", "sent", "failed"}
    /\ row' = [row EXCEPT ![m] = "gone"]
    /\ queue' = Append(queue, Queued(Delete(m), Nobody))
    /\ UNCHANGED <<unlocked, rest, relay, reader, spent>>

\* The process dies with the queue and the loops; it restarts locked.
KillAuthor ==
    /\ Spend("kill author")
    /\ queue' = <<>>
    /\ rest' = [k \in Loop |-> {}]
    /\ unlocked' = FALSE
    /\ UNCHANGED <<row, relay, reader>>

LockAuthor ==
    /\ unlocked
    /\ Spend("lock author")
    /\ unlocked' = FALSE
    /\ UNCHANGED <<row, queue, rest, relay, reader>>

\* Fault: no resend at unlock.
UnlockAuthor_NoResend ==
    /\ ~unlocked
    /\ unlocked' = TRUE
    /\ UNCHANGED <<row, queue, rest, relay, reader, spent>>

\* bringOnline starts resendPendingOutbound, which captures the rows in
\* 'sending', whoever else may still be sending them.
UnlockAuthor ==
    /\ ~unlocked
    /\ unlocked' = TRUE
    /\ LET pending == {m \in Msg : row[m] = "sending"} IN
       IF pending = {} THEN UNCHANGED <<queue, rest>>
       ELSE \E k \in Loop :
              /\ rest[k] = {}
              /\ rest' = [rest EXCEPT ![k] = pending]
              /\ queue' = Append(queue, Queued(First(Oldest(pending)), k))
    /\ UNCHANGED <<row, relay, reader, spent>>

-----------------------------------------------------------------------------
(* The relay: accepts an id once, keeps the envelope until acknowledged,   *)
(* delivers in order.  "read" tells whether the reader's ratchet has       *)
(* consumed the envelope's message key.                                    *)

RelayAccepts ==
    /\ queue # <<>>
    /\ LET e == Head(queue).env IN
       /\ ~Accepted(e)
       /\ accepted' = Append(accepted, e)
       /\ mailbox' = Append(mailbox, [env |-> e, read |-> FALSE])
    /\ UNCHANGED <<author, handed, reader, spent>>

\* A new socket has delivered nothing yet.
Drop ==
    /\ Spend("drop")
    /\ alive
    /\ handed' = 0
    /\ UNCHANGED <<author, accepted, mailbox, reader>>

-----------------------------------------------------------------------------
(* The reader: doReceiveEnvelope, one envelope at a time.                  *)

At(e) == CHOOSE i \in DOMAIN mailbox : mailbox[i].env = e
InMailbox(e) == \E i \in DOMAIN mailbox : mailbox[i].env = e

\* The ack leaves over the present socket.
Acks(e) ==
    IF InMailbox(e)
      THEN /\ mailbox' = RemoveAt(mailbox, At(e))
           /\ handed' = IF At(e) <= handed THEN handed - 1 ELSE handed
      ELSE UNCHANGED <<mailbox, handed>>

\* A locked phone leaves the envelope; one whose key is consumed is only acked.
Locked == ~open
\* Fault: a consumed message key goes unnoticed.
Consumed_Unnoticed == FALSE

Consumed == mailbox[handed + 1].read

Leaves ==
    /\ handed' = handed + 1
    /\ LET e == mailbox[handed + 1].env IN
       missed' = IF e.kind = "first" THEN missed \cup {e.m} ELSE missed
    /\ UNCHANGED <<mailbox, handler>>
Duplicate ==
    /\ handler' = [step |-> "done", env |-> mailbox[handed + 1].env]
    /\ handed' = handed + 1
    /\ UNCHANGED <<mailbox, missed>>
Decrypts ==
    /\ handler' = [step |-> "decrypted", env |-> mailbox[handed + 1].env]
    /\ handed' = handed + 1
    /\ mailbox' = [mailbox EXCEPT ![handed + 1].read = TRUE]
    /\ missed' = missed

Receive ==
    /\ alive
    /\ handler = Idle
    /\ handed < Len(mailbox)
    /\ \/ Locked /\ Leaves
       \/ ~Locked /\ Consumed /\ Duplicate
       \/ ~Locked /\ ~Consumed /\ Decrypts
    /\ UNCHANGED <<author, accepted, stored, staged, open, alive, spent>>

To(step) == handler' = [handler EXCEPT !.step = step]

\* INSERT OR IGNORE of the message row; one the reader deleted is no row.
Shows(m) == stored' = [stored EXCEPT ![m] = "shown"]

StoresText(m) == Shows(m) /\ To("done") /\ UNCHANGED staged

Announced(m) ==
    /\ staged' = IF stored[m] = "shown" \/ Staged(m) THEN staged
                 ELSE [staged EXCEPT ![m] = {}]
    /\ To("done")
    /\ UNCHANGED stored

\* A chunk needs the transfer row; the last one to come assembles.
StoresChunk(m, seq) ==
    /\ IF ~Staged(m) THEN staged' = staged /\ To("done")
       ELSE /\ staged' = [staged EXCEPT ![m] = @ \cup {seq}]
            /\ To(IF staged'[m] = 0..(Chunks[m] - 1) THEN "complete" ELSE "done")
    /\ UNCHANGED stored

\* Fault: the transfer in flight survives the retraction.
Retracts_KeepsTransfer(m) ==
    /\ stored' = [stored EXCEPT ![m] = IF @ = "shown" THEN "gone" ELSE @]
    /\ To("done")
    /\ UNCHANGED staged

\* message/delete drops the row and the transfer in flight.
Retracts(m) ==
    /\ stored' = [stored EXCEPT ![m] = IF @ = "shown" THEN "gone" ELSE @]
    /\ staged' = [staged EXCEPT ![m] = Absent]
    /\ To("done")

Store ==
    /\ handler.step = "decrypted"
    /\ LET e == handler.env IN
       \/ e.kind = "first" /\ Chunks[e.m] = 0 /\ StoresText(e.m)
       \/ e.kind = "first" /\ Chunks[e.m] > 0 /\ Announced(e.m)
       \/ e.kind = "chunk" /\ StoresChunk(e.m, e.seq)
       \/ e.kind = "delete" /\ Retracts(e.m)
    /\ UNCHANGED <<author, relay, open, alive, missed, spent>>

Assemble ==
    /\ handler.step = "complete"
    /\ Shows(handler.env.m)
    /\ staged' = [staged EXCEPT ![handler.env.m] = Absent]
    /\ To("done")
    /\ UNCHANGED <<author, relay, open, alive, missed, spent>>

\* The handler ends with its ack, which a dying socket may lose.
Ack ==
    /\ handler.step = "done"
    /\ handler' = Idle
    /\ \/ Acks(handler.env) /\ spent' = spent
       \/ Spend("drop") /\ handed' = 0 /\ mailbox' = mailbox
    /\ UNCHANGED <<author, accepted, stored, staged, open, alive, missed>>

\* The reader deletes a message, or it expires.
ReaderDeletes(m) ==
    /\ open
    /\ stored[m] = "shown"
    /\ stored' = [stored EXCEPT ![m] = "gone"]
    /\ UNCHANGED <<author, relay, staged, handler, open, alive, missed, spent>>

\* Between two envelopes the lock and the death of the process lose nothing
\* but the socket; "interrupt reader" strikes inside the handler, whose next
\* database call then throws: the envelope stays unacknowledged.
LockReader ==
    /\ open
    /\ Spend(IF handler = Idle THEN "lock reader" ELSE "interrupt reader")
    /\ open' = FALSE
    /\ handler' = Idle
    /\ UNCHANGED <<author, relay, stored, staged, alive, missed>>

KillReader ==
    /\ alive
    /\ Spend(IF handler = Idle THEN "kill reader" ELSE "interrupt reader")
    /\ alive' = FALSE
    /\ open' = FALSE
    /\ handler' = Idle
    /\ handed' = 0
    /\ UNCHANGED <<author, accepted, mailbox, stored, staged, missed>>

\* startRelay opens a socket only in a process that has none.
UnlockReader ==
    /\ ~open
    /\ open' = TRUE
    /\ alive' = TRUE
    /\ UNCHANGED <<author, relay, stored, staged, handler, missed, spent>>

\* Sockets do not last: sooner or later the reader is on a new one.
NewSocket ==
    /\ alive
    /\ handler = Idle
    /\ handed > 0 /\ handed = Len(mailbox)
    /\ handed' = 0
    /\ UNCHANGED <<author, accepted, mailbox, reader, spent>>

-----------------------------------------------------------------------------
AuthorNext ==
    \/ \E m \in Msg : Send(m) \/ DeleteForMe(m) \/ DeleteForEveryone(m)
    \/ Answered \/ Refused \/ KillAuthor \/ LockAuthor \/ UnlockAuthor

ReaderNext ==
    \/ Receive \/ Store \/ Assemble \/ Ack
    \/ \E m \in Msg : ReaderDeletes(m)
    \/ LockReader \/ KillReader \/ UnlockReader \/ NewSocket

Next == AuthorNext \/ RelayAccepts \/ Drop \/ ReaderNext

Spec == Init /\ [][Next]_vars

\* Promises resolve and frames travel; a locked phone is unlocked some time;
\* a socket with nothing left to deliver is replaced some time.
Fairness ==
    /\ WF_vars(Answered)
    /\ WF_vars(RelayAccepts)
    /\ WF_vars(Receive) /\ WF_vars(Store) /\ WF_vars(Assemble) /\ WF_vars(Ack)
    /\ WF_vars(UnlockAuthor) /\ WF_vars(UnlockReader)
    /\ SF_vars(NewSocket)

FairSpec == Spec /\ Fairness

-----------------------------------------------------------------------------
(* What has to hold.                                                       *)

Rows == {"new", "sending", "sent", "failed", "gone"}
Steps == {"idle", "decrypted", "complete", "done"}

\* Types, and: a resend loop waits for exactly one queued envelope, one of the
\* message it is at.
TypeOK ==
    /\ row \in [Msg -> Rows]
    /\ unlocked \in BOOLEAN /\ open \in BOOLEAN /\ alive \in BOOLEAN
    /\ queue \in Seq([env : Envelopes, by : Own..Nobody])
    /\ \A k \in Loop :
          LET mine == {i \in DOMAIN queue : queue[i].by = k} IN
          IF rest[k] = {} THEN mine = {}
          ELSE \E i \in DOMAIN queue : mine = {i} /\ queue[i].env \in Parts(Oldest(rest[k]))
    /\ Range(accepted) \subseteq Envelopes /\ IsInjective(accepted)
    /\ mailbox \in Seq([env : Envelopes, read : BOOLEAN])
    /\ handed \in 0..Len(mailbox)
    /\ stored \in [Msg -> {"none", "shown", "gone"}]
    /\ \A m \in Msg : Staged(m) => staged[m] \subseteq 0..(Chunks[m] - 1)
    /\ handler.step \in Steps /\ handler.env \in Envelopes
    /\ missed \subseteq Msg
    /\ spent \in 0..MaxFaults

\* A row the author sees as sent was accepted by the relay as a whole, all
\* chunks of a photo included, whichever calls and loops were sending it.
SentMeansAccepted == \A m \in Msg : row[m] = "sent" => AllAccepted(m)

Quiescent == queue = <<>> /\ mailbox = <<>> /\ handler = Idle

Arrived(m) == stored[m] # "none"
RetractedAfter(m) ==
    \E i, j \in DOMAIN accepted : i < j /\ accepted[i] = First(m) /\ accepted[j] = Delete(m)

\* Once nothing is under way, whatever the relay accepted as a whole and
\* nobody retracted has been on the reader's screen: no crash, lost ack or
\* duplicate makes a text or a photo vanish.  The exception is a photo whose
\* announcement came while the phone was locked (see PhotosArrive).
EverythingArrives ==
    Quiescent => \A m \in Msg :
        AllAccepted(m) /\ ~Accepted(Delete(m)) /\ (Chunks[m] > 0 => m \notin missed) => Arrived(m)

\* What the author's screen says of a message comes true on the reader's.
SentArrives == SentMeansAccepted /\ EverythingArrives

\* The same for every photo.  The comments at services/messaging.ts:588-590 (an
\* envelope left by a locked phone is redelivered after unlock) and 676-679
\* ("FIFO, so never before this") promise it.  It does not hold.
PhotosArrive ==
    Quiescent => \A m \in Msg : AllAccepted(m) /\ ~Accepted(Delete(m)) => Arrived(m)

\* A retraction the relay accepted after the message leaves the reader with
\* neither the message nor a transfer that could still become one, unless the
\* message was left by a locked phone and comes after its retraction.
RetractionWins ==
    Quiescent => \A m \in Msg \ missed :
        RetractedAfter(m) => stored[m] # "shown" /\ ~Staged(m)

\* The same in every order of acceptance (db/repos/messages.ts:115-116, "Also
\* cancels an interrupted resend of the row").  It does not hold: a resend loop
\* sends what it captured, also after the row was deleted and retracted.
RetractionFinal ==
    Quiescent => \A m \in Msg \ missed :
        Accepted(Delete(m)) => stored[m] # "shown" /\ ~Staged(m)

\* A message the reader deleted, let expire or had retracted never comes back,
\* however often it is delivered again (services/messaging.ts:858-864).
StaysGone == [][\A m \in Msg : stored[m] = "gone" => stored'[m] = "gone"]_vars

\* No row stays in 'sending': after every crash and lock somebody settles it.
PendingSettles == \A m \in Msg : row[m] = "sending" ~> row[m] # "sending"
=============================================================================
