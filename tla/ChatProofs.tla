----------------------------- MODULE ChatProofs -----------------------------
(***************************************************************************)
(* The lock of a chat: that no sealed body is ever left without its key,   *)
(* and that the screens keep what the lock, the rows and the requests      *)
(* promise, for every number of messages, batch size, depth of the stack   *)
(* and length of its queues.                                               *)
(*                                                                         *)
(* The keys.  Readable alone is not inductive: that DeletesKey harms       *)
(* nothing is due to the flag having been cleared before, that ClearsFlag  *)
(* harms nothing to the last batch having been empty, and whatever was     *)
(* sealed since was sealed by somebody who crossed the disabling.  LockInv *)
(* records these facts, one for each step of enableChatLock and            *)
(* disableChatLock.                                                        *)
(*                                                                         *)
(* The screens.  None of TypeOK, ScreensFollow and GateGuards is inductive *)
(* either.  Answering says who holds the buttons of a request from the tap *)
(* to the read that ends it; Following, which reads the visible screen     *)
(* still waits for; Gates, where the chat is on the stack, what may cover  *)
(* it, and who asks for its code.  Most steps are ordinary: they leave     *)
(* what these speak of alone, and are shown to once, in Calm; the others   *)
(* are gone through for each of the three.                                 *)
(***************************************************************************)
EXTENDS ChatLocks, Screens, SequenceTheorems, TLAPS

-----------------------------------------------------------------------------
(* The keys.                                                               *)

\* What the commands have established when they reach their next step.
CommandInv ==
    /\ user.does = "flag" => code = user.key /\ pubkey = None
    /\ user.does = "release" => code = user.key /\ pubkey = user.key
    /\ user.does = "forget" => pubkey = None

\* A flagged chat has the key in the keystore, an unflagged one has none in
\* memory unless it is just being deleted.
KeyInv ==
    /\ pubkey # None => code = pubkey
    /\ pubkey = None => released = None \/ user.does = "forget"
    /\ ReleasedFits

\* Nothing is sealed without the flag, nor once the history was opened.
HistoryInv == pubkey = None \/ user.does = "unflag" => SealedRows \subseteq raced

LockInv == LockTypeOK /\ Readable /\ CommandInv /\ KeyInv /\ HistoryInv

-----------------------------------------------------------------------------
\* The type invariant as ranges the steps need.
LEMMA Ranges ==
    ASSUME LockTypeOK
    PROVE  /\ pubkey \in Nat /\ code \in Nat /\ released \in Nat
           /\ \A m \in Message : body[m] \in Int /\ writer[m] \in Int
<1> USE ChatLocksConstants
<1> QED BY DEF LockTypeOK, Key, None, Plain, NoMessage, Fresh, Stored

\* The state at start satisfies the invariant.
LEMMA InitLockInv == LockInit => LockInv
<1> USE ChatLocksConstants
<1> SUFFICES ASSUME LockInit PROVE LockInv OBVIOUS
<1>1. LockTypeOK
  BY DEF LockInit, LockTypeOK, NoMessage, Plain, Key, Fresh, Stored, None, Commands, Idle, Passes, NoPass, Message
<1>2. SealedRows = {}
  BY DEF LockInit, SealedRows, Key, NoMessage
<1> QED
  BY <1>1, <1>2 DEF LockInit, LockInv, Readable, CommandInv, KeyInv, HistoryInv, ReleasedFits, Idle, None

\* Types are kept by every step.
LEMMA TypeStep == LockTypeOK /\ [LockNext]_lockVars => LockTypeOK'
<1> USE ChatLocksConstants
<1> SUFFICES ASSUME LockTypeOK, [LockNext]_lockVars PROVE LockTypeOK' OBVIOUS
<1> USE DEF Key, None, Plain, NoMessage, Fresh, Stored, Commands, Passes
<1>1. ASSUME NEW m \in Message, ReadsConversation(m) PROVE LockTypeOK'
  BY <1>1 DEF LockTypeOK, ReadsConversation
<1>2. ASSUME NEW m \in Message, Inserts(m) PROVE LockTypeOK'
  <2>1. writer[m] \in {None} \cup Key
    BY <1>2 DEF LockTypeOK, Inserts
  <2> QED BY <1>2, <2>1 DEF LockTypeOK, Inserts
<1>3. ASSUME NEW w \in Passes, ReadsPlaintext(w) PROVE LockTypeOK'
  <2>1. Oldest(Sealable) \subseteq Message
    BY DEF Oldest, Sealable
  <2>2. CASE Sealable = {}
    BY <1>3, <2>2 DEF LockTypeOK, ReadsPlaintext, NoPass, Idle
  <2>3. CASE Sealable # {}
    BY <1>3, <2>1, <2>3 DEF LockTypeOK, ReadsPlaintext
  <2> QED BY <2>2, <2>3
<1>4. ASSUME NEW w \in Passes, SealsRow(w) PROVE LockTypeOK'
  <2>1. PICK m \in pass[w].rows :
          /\ body' = [body EXCEPT ![m] = IF @ = NoMessage THEN NoMessage ELSE pass[w].key]
          /\ pass' = [pass EXCEPT ![w].rows = @ \ {m}]
          /\ raced' = IF Crosses(pass[w].key) THEN raced \cup {m} ELSE raced
    BY <1>4 DEF SealsRow
  <2>2. m \in Message /\ pass[w].key \in Key
    BY <1>4 DEF LockTypeOK, SealsRow
  <2> QED BY <1>4, <2>1, <2>2 DEF LockTypeOK, SealsRow
<1>5. ASSUME StoresKey PROVE LockTypeOK'
  BY <1>5 DEF LockTypeOK, StoresKey, Does, Idle
<1>6. ASSUME SetsFlag PROVE LockTypeOK'
  BY <1>6 DEF LockTypeOK, SetsFlag, Does
<1>7. ASSUME StartsSealing PROVE LockTypeOK'
  BY <1>7 DEF LockTypeOK, StartsSealing, Does
<1>8. ASSUME Unlocks PROVE LockTypeOK'
  BY <1>8 DEF LockTypeOK, Unlocks
<1>9. ASSUME RelocksChat PROVE LockTypeOK'
  BY <1>9 DEF LockTypeOK, RelocksChat
<1>10. ASSUME StartsOpening PROVE LockTypeOK'
  BY <1>10 DEF LockTypeOK, StartsOpening, Does, Idle
<1>11. ASSUME ReadsSealed PROVE LockTypeOK'
  <2>1. Oldest(SealedRows) \subseteq Message
    BY DEF Oldest, SealedRows
  <2> QED BY <1>11, <2>1 DEF LockTypeOK, ReadsSealed, Does
<1>12. ASSUME OpensRow PROVE LockTypeOK'
  <2>1. PICK m \in pass["user"].rows :
          IF body[m] \in Key /\ body[m] # user.key
            THEN body' = body /\ user' = Idle /\ pass' = [pass EXCEPT !["user"] = NoPass]
            ELSE /\ body' = [body EXCEPT ![m] = IF @ = NoMessage THEN NoMessage ELSE Plain]
                 /\ pass' = [pass EXCEPT !["user"].rows = @ \ {m}]
                 /\ user' = user
    BY <1>12 DEF OpensRow
  <2>2. CASE body[m] \in Key /\ body[m] # user.key
    BY <1>12, <2>1, <2>2 DEF LockTypeOK, OpensRow, Idle, NoPass
  <2>3. CASE ~(body[m] \in Key /\ body[m] # user.key)
    BY <1>12, <2>1, <2>3 DEF LockTypeOK, OpensRow
  <2> QED BY <2>2, <2>3
<1>13. ASSUME ClearsFlag PROVE LockTypeOK'
  BY <1>13 DEF LockTypeOK, ClearsFlag, Does
<1>14. ASSUME DeletesKey PROVE LockTypeOK'
  BY <1>14 DEF LockTypeOK, DeletesKey, Idle
<1>15. ASSUME DeletesMessages PROVE LockTypeOK'
  BY <1>15 DEF LockTypeOK, DeletesMessages, Does, Idle
<1>16. ASSUME Restarted, crashes' \in 0..MaxCrashes PROVE LockTypeOK'
  BY <1>16 DEF LockTypeOK, Restarted, Idle, NoPass
<1>17. ASSUME Crash \/ Restart PROVE LockTypeOK'
  BY <1>16, <1>17 DEF LockTypeOK, Crash, Restart
<1>18. ASSUME UNCHANGED lockVars PROVE LockTypeOK'
  BY <1>18 DEF LockTypeOK, lockVars
<1> QED
  BY <1>1, <1>2, <1>3, <1>4, <1>5, <1>6, <1>7, <1>8, <1>9, <1>10, <1>11, <1>12, <1>13,
     <1>14, <1>15, <1>17, <1>18 DEF LockNext

\* A write of one row with a key in hand: either it is counted as raced, or
\* it is the key of the flag and of the keystore.
LEMMA WrittenRow ==
    ASSUME LockInv, NEW m \in Message, NEW key \in Int,
           ~Crosses(key), key # None
    PROVE  key = pubkey /\ key = code
<1> USE ChatLocksConstants
<1> QED BY DEF LockInv, KeyInv, Crosses

\* What the commands have established survives every step.
LEMMA LockStep == LockInv /\ [LockNext]_lockVars => LockInv'
<1> USE ChatLocksConstants
<1> SUFFICES ASSUME LockInv, [LockNext]_lockVars PROVE LockInv' OBVIOUS
<1>0. LockTypeOK /\ LockTypeOK'
  BY TypeStep DEF LockInv
<1>t. /\ pubkey \in Nat /\ code \in Nat /\ released \in Nat
      /\ \A m \in Message : body[m] \in Int /\ writer[m] \in Int
  BY <1>0, Ranges
<1> USE DEF LockInv, CommandInv, KeyInv, HistoryInv, ReleasedFits
<1>1. ASSUME NEW m \in Message, ReadsConversation(m) PROVE LockInv'
  BY <1>0, <1>1 DEF ReadsConversation, Readable, SealedRows
<1>2. ASSUME NEW m \in Message, Inserts(m) PROVE LockInv'
  <2> DEFINE key == writer[m]
  <2>1. /\ \A n \in Message : n # m => body'[n] = body[n]
        /\ body'[m] = IF key = None THEN Plain ELSE key
        /\ raced' = IF Crosses(key) THEN raced \cup {m} ELSE raced
        /\ UNCHANGED <<pubkey, code, released, user>>
    BY <1>0, <1>2 DEF Inserts, LockTypeOK
  <2>2. body'[m] \in Key /\ m \notin raced' => key # None /\ ~Crosses(key)
    BY <2>1 DEF Key, Plain, None
  <2>3. Readable'
    BY <1>t, <2>1, <2>2, WrittenRow DEF Readable, SealedRows
  <2>4. HistoryInv'
    BY <1>t, <2>1, <2>2, WrittenRow DEF SealedRows, Crosses, Disabling
  <2> QED BY <1>0, <2>1, <2>3, <2>4
<1>3. ASSUME NEW w \in Passes, ReadsPlaintext(w) PROVE LockInv'
  BY <1>0, <1>3 DEF ReadsPlaintext, Readable, SealedRows, Idle
<1>4. ASSUME NEW w \in Passes, SealsRow(w) PROVE LockInv'
  <2> DEFINE key == pass[w].key
  <2>1. PICK m \in pass[w].rows :
          /\ body' = [body EXCEPT ![m] = IF @ = NoMessage THEN NoMessage ELSE key]
          /\ raced' = IF Crosses(key) THEN raced \cup {m} ELSE raced
    BY <1>4 DEF SealsRow
  <2>2. m \in Message /\ key \in Int /\ key # None
    BY <1>0, <1>4 DEF LockTypeOK, SealsRow, Key, None
  <2>3. /\ \A n \in Message : n # m => body'[n] = body[n]
        /\ body'[m] = NoMessage \/ body'[m] = key
        /\ UNCHANGED <<pubkey, code, released, user>>
    BY <1>0, <1>4, <2>1, <2>2 DEF SealsRow, LockTypeOK
  <2>4. body'[m] \in Key /\ m \notin raced' => body'[m] = key /\ ~Crosses(key)
    BY <2>1, <2>3 DEF Key, NoMessage
  <2>5. Readable'
    BY <1>t, <2>1, <2>2, <2>3, <2>4, WrittenRow DEF Readable, SealedRows
  <2>6. HistoryInv'
    BY <1>t, <2>1, <2>2, <2>3, <2>4, WrittenRow DEF SealedRows, Crosses, Disabling
  <2> QED BY <1>0, <2>3, <2>5, <2>6
<1>5. ASSUME StoresKey PROVE LockInv'
  BY <1>0, <1>5 DEF StoresKey, Readable, SealedRows, Does, Idle
<1>6. ASSUME SetsFlag PROVE LockInv'
  BY <1>0, <1>6 DEF SetsFlag, Readable, SealedRows, Does
<1>7. ASSUME StartsSealing PROVE LockInv'
  BY <1>0, <1>7 DEF StartsSealing, Readable, SealedRows, Does
<1>8. ASSUME Unlocks PROVE LockInv'
  BY <1>0, <1>8 DEF Unlocks, Readable, SealedRows
<1>9. ASSUME RelocksChat PROVE LockInv'
  BY <1>0, <1>9 DEF RelocksChat, Readable, SealedRows
<1>10. ASSUME StartsOpening PROVE LockInv'
  BY <1>0, <1>10 DEF StartsOpening, Readable, SealedRows, Does
<1>11. ASSUME ReadsSealed PROVE LockInv'
  BY <1>0, <1>11 DEF ReadsSealed, Readable, SealedRows, Does
<1>12. ASSUME OpensRow PROVE LockInv'
  <2>1. PICK m \in pass["user"].rows :
          IF body[m] \in Key /\ body[m] # user.key
            THEN body' = body /\ user' = Idle
            ELSE body' = [body EXCEPT ![m] = IF @ = NoMessage THEN NoMessage ELSE Plain] /\ user' = user
    BY <1>12 DEF OpensRow
  <2>2. SealedRows' \subseteq SealedRows /\ \A n \in SealedRows' : body'[n] = body[n]
    BY <1>0, <2>1, SMTT(30) DEF SealedRows, LockTypeOK, Key, Plain, NoMessage
  <2>3. user' = user \/ user'.does = "idle"
    BY <2>1 DEF Idle
  <2> QED BY <1>0, <1>12, <2>2, <2>3 DEF OpensRow, Readable
<1>13. ASSUME ClearsFlag PROVE LockInv'
  BY <1>0, <1>13 DEF ClearsFlag, Readable, SealedRows, Does
<1>14. ASSUME DeletesKey PROVE LockInv'
  BY <1>0, <1>14 DEF DeletesKey, Readable, SealedRows, Idle
<1>15. ASSUME DeletesMessages PROVE LockInv'
  <2>1. SealedRows' = {}
    BY <1>15 DEF DeletesMessages, SealedRows, Key, NoMessage
  <2> QED BY <1>0, <1>15, <2>1 DEF DeletesMessages, Readable, Does
<1>16. ASSUME Crash \/ Restart PROVE LockInv'
  BY <1>0, <1>16 DEF Crash, Restart, Restarted, Readable, SealedRows, Idle
<1>17. ASSUME UNCHANGED lockVars PROVE LockInv'
  BY <1>0, <1>17 DEF lockVars, Readable, SealedRows
<1> QED
  BY <1>1, <1>2, <1>3, <1>4, <1>5, <1>6, <1>7, <1>8, <1>9, <1>10, <1>11, <1>12, <1>13,
     <1>14, <1>15, <1>16, <1>17 DEF LockNext

-----------------------------------------------------------------------------
\* In every reachable state, whatever the number of messages, batches, locks
\* and crashes, the invariant holds.
THEOREM LockInvariance == LockSpec => []LockInv
<1>1. LockInit => LockInv
  BY InitLockInv
<1>2. LockInv /\ [LockNext]_lockVars => LockInv'
  BY LockStep
<1> QED BY <1>1, <1>2, PTL DEF LockSpec

\* The chat lock keeps its types (lock/chat-locks.ts).
THEOREM LockTypes == LockSpec => []LockTypeOK
<1>1. LockInv => LockTypeOK
  BY DEF LockInv
<1> QED BY <1>1, LockInvariance, PTL

\* No sealed body without its key: at every moment of enableChatLock and
\* disableChatLock, and after every crash in them, a sealed row is sealed with
\* the key of the flag and of the keystore, unless it was written across a
\* disabling.
THEOREM SealedIsReadable == LockSpec => []Readable
<1>1. LockInv => Readable
  BY DEF LockInv
<1> QED BY <1>1, LockInvariance, PTL

\* The key in memory is always the one in the keystore.
THEOREM ReleasedKeyFits == LockSpec => []ReleasedFits
<1>1. LockInv => ReleasedFits
  BY DEF LockInv, KeyInv
<1> QED BY <1>1, LockInvariance, PTL

-----------------------------------------------------------------------------
(* The types of a screen, in full.                                         *)

Kinds == {"tabs", "chat", "contact", "verify", "scan", "lock"}
Requests == {"none", "theirs", "mine"}
States == {"none", "unread", "read"} \cup Mine
AllFacts == [there : BOOLEAN, lock : BOOLEAN, pend : [Asks -> Requests], local : BOOLEAN,
             peer : BOOLEAN, blocked : BOOLEAN, muted : BOOLEAN]
Bases == [there : BOOLEAN, lock : BOOLEAN, pend : [Asks -> Requests], local : BOOLEAN,
          peer : BOOLEAN, blocked : BOOLEAN, muted : BOOLEAN, msgs : [Msgs -> States]]
Items == [what : {"row", "thread", "put"}, then : {"", "mark", "send", "answer"}, put : AllFacts]
Rows == [shown : BOOLEAN, unread : BOOLEAN, locked : BOOLEAN]
Lists == [row : Rows, loading : BOOLEAN, dirty : BOOLEAN, read : Seq(Rows)]
Entries ==
    [kind : Kinds, scanned : BOOLEAN, seen : AllFacts, thread : [Msgs -> States],
     loads : Seq(Items), open : BOOLEAN, busy : SUBSET {"send", "answer", "gate", "scan", "refused"},
     sheet : Msgs \cup {"lock", Nothing}, list : Lists]

\* A list that is not loading has read nothing that it has not shown; only a chat has a
\* handler that waits for a read.
Unasked(e) == \A n \in DOMAIN e.loads : e.loads[n].then = ""
Mounted ==
    {e \in Entries : /\ Len(e.loads) <= MaxLoads
                     /\ e.list.loading \/ e.list.read = <<>>
                     /\ e.kind = "chat" \/ Unasked(e)}

Phones == [locked : BOOLEAN, fg : BOOLEAN, released : BOOLEAN]

Tasks ==
    [op : {"mark"}, at : Nat, was : {"?", "locked", "open"}]
    \cup [op : {"unlock"}, at : Nat]
    \cup [op : {"send"}, at : Nat, m : Msgs, text : BOOLEAN]
    \cup [op : {"answer"}, at : Nat, k : Asks, yes : BOOLEAN, was : {"?"} \cup Requests]
    \cup [op : {"add"}, at : Nat]

\* The screens a handler can have been started on.
From(op) ==
    CASE op \in {"mark", "send"} -> {"chat"}
      [] op = "add" -> {"scan", "lock", "tabs"}
      [] OTHER -> {"chat", "contact"}

Placed(ts, s) ==
    \A t \in ts : t \in Tasks /\ t.at \in 0..Len(s) /\ (t.at # 0 => s[t.at].kind \in From(t.op))

Stacks == {s \in Seq(Mounted) : Len(s) \in 1..MaxDepth}

Types ==
    /\ scene \in Scenes /\ left \in 0..MaxWrites /\ db \in Bases /\ phone \in Phones
    /\ stack \in Stacks /\ Placed(tasks, stack)

-----------------------------------------------------------------------------
(* What the helpers return.                                                *)

LEMMA Bounds ==
    /\ MaxDepth \in Nat /\ MaxDepth >= 1 /\ MaxLoads \in Nat /\ MaxLoads >= 1
    /\ MaxWrites \in Nat
BY ScreensAssumption

LEMMA OneMore ==
    ASSUME NEW a \in Nat, NEW b \in Nat, NEW c \in Nat, a < c, b <= a + 1
    PROVE  b <= c
OBVIOUS

LEMMA Below ==
    ASSUME NEW a \in Nat, NEW b \in Nat, NEW c \in Nat, b < c, a <= b
    PROVE  a < c
OBVIOUS

LEMMA LastIn ==
    ASSUME NEW S, NEW l \in Seq(S), Len(l) >= 1
    PROVE  Len(l) \in DOMAIN l
OBVIOUS

LEMMA FactsIs ==
    ASSUME NEW d \in Bases
    PROVE  /\ Facts(d) \in AllFacts
           /\ Facts(d) = [there |-> d.there, lock |-> d.lock, pend |-> d.pend, local |-> d.local,
                          peer |-> d.peer, blocked |-> d.blocked, muted |-> d.muted]
<1>1. DOMAIN d = {"there", "lock", "pend", "local", "peer", "blocked", "muted", "msgs"}
  BY DEF Bases
<1>2. Facts(d) = [f \in {"there", "lock", "pend", "local", "peer", "blocked", "muted"} |-> d[f]]
  BY <1>1 DEF Facts
<1> DEFINE r == [there |-> d.there, lock |-> d.lock, pend |-> d.pend, local |-> d.local,
                 peer |-> d.peer, blocked |-> d.blocked, muted |-> d.muted]
<1>3. r = [f \in {"there", "lock", "pend", "local", "peer", "blocked", "muted"} |-> d[f]]
  OBVIOUS
<1>4. r \in AllFacts
  BY DEF Bases, AllFacts
<1> QED BY <1>2, <1>3, <1>4

LEMMA ReadIs ==
    ASSUME NEW w \in {"row", "thread"}, NEW then \in {"", "mark", "send", "answer"}
    PROVE  Read(w, then) \in Items /\ Read(w, then).what = w /\ Read(w, then).then = then
<1>1. Blank \in AllFacts
  BY DEF Blank, AllFacts, Requests
<1> QED BY <1>1 DEF Read, Items

LEMMA PutIs ==
    ASSUME NEW a \in AllFacts, NEW b \in AllFacts
    PROVE  [f \in DOMAIN a |-> IF f \in ContactFields THEN b[f] ELSE a[f]] =
             [there |-> b.there, lock |-> a.lock, pend |-> a.pend, local |-> b.local,
              peer |-> b.peer, blocked |-> b.blocked, muted |-> b.muted]
<1>1. DOMAIN a = {"there", "lock", "pend", "local", "peer", "blocked", "muted"}
  BY DEF AllFacts
<1> QED BY <1>1 DEF ContactFields

\* What an entry keeps but for its reads and its list.
Alike(e, q) ==
    /\ q.kind = e.kind /\ q.scanned = e.scanned /\ q.seen = e.seen /\ q.thread = e.thread
    /\ q.open = e.open /\ q.busy = e.busy /\ q.sheet = e.sheet

Queued(l, x) == IF l # <<>> /\ Last(l) = x THEN l ELSE Append(l, x)

LEMMA QueuedIs ==
    ASSUME NEW l \in Seq(Items), NEW x \in Items
    PROVE  /\ Queued(l, x) \in Seq(Items)
           /\ Len(l) \in Nat /\ Len(Queued(l, x)) \in Nat
           /\ Len(l) <= Len(Queued(l, x)) /\ Len(Queued(l, x)) <= Len(l) + 1 /\ Len(Queued(l, x)) >= 1
           /\ \A n \in DOMAIN l : n \in DOMAIN Queued(l, x) /\ Queued(l, x)[n] = l[n]
           /\ \A n \in DOMAIN Queued(l, x) : n \in DOMAIN l \/ n = Len(Queued(l, x))
           /\ Queued(l, x)[Len(Queued(l, x))] = x
           /\ Len(Queued(l, x)) = Len(l) => Queued(l, x) = l
BY DEF Queued, Last

LEMMA QueueIs ==
    ASSUME NEW e \in Entries, NEW x \in Items
    PROVE  /\ Queue(e, x) \in Entries /\ Alike(e, Queue(e, x)) /\ Queue(e, x).list = e.list
           /\ Queue(e, x).loads = Queued(e.loads, x)
<1>1. e.loads \in Seq(Items)
  BY DEF Entries
<1>2. Queue(e, x) = [e EXCEPT !.loads = Queued(e.loads, x)]
  BY DEF Queue, Queued, Entries
<1>3. Queued(e.loads, x) \in Seq(Items)
  BY <1>1, QueuedIs
<1> QED BY <1>2, <1>3 DEF Entries, Alike

LEMMA QueueMounted ==
    ASSUME NEW e \in Mounted, NEW x \in Items, Len(e.loads) < MaxLoads, e.kind = "chat" \/ x.then = ""
    PROVE  Queue(e, x) \in Mounted
<1> PICK l : l = e.loads
  OBVIOUS
<1>1. e \in Entries /\ l \in Seq(Items) /\ (e.list.loading \/ e.list.read = <<>>)
      /\ (e.kind = "chat" \/ \A n \in DOMAIN l : l[n].then = "")
  BY DEF Mounted, Entries, Unasked
<1> PICK q : q = Queue(e, x)
  OBVIOUS
<1>2. q \in Entries /\ q.kind = e.kind /\ q.list = e.list /\ q.loads = Queued(l, x)
  BY <1>1, QueueIs DEF Alike
<1>3. Len(l) \in Nat /\ Len(Queued(l, x)) \in Nat /\ Len(Queued(l, x)) <= Len(l) + 1 /\ Len(l) < MaxLoads
  BY <1>1, QueuedIs
<1>4. Len(q.loads) <= MaxLoads
  <2>1. Len(Queued(l, x)) <= MaxLoads
    BY <1>3, Bounds, OneMore
  <2> QED BY <1>2, <2>1
<1>5. ASSUME q.kind # "chat" PROVE \A n \in DOMAIN q.loads : q.loads[n].then = ""
  <2> SUFFICES ASSUME NEW n \in DOMAIN Queued(l, x) PROVE Queued(l, x)[n].then = ""
    BY <1>2
  <2>1. CASE n \in DOMAIN l
    <3>1. \A i \in DOMAIN l : Queued(l, x)[i] = l[i]
      BY <1>1, QueuedIs, ZenonT(30)
    <3> QED BY <1>1, <1>2, <1>5, <2>1, <3>1
  <2>2. CASE n = Len(Queued(l, x))
    <3>1. Queued(l, x)[n] = x
      BY <1>1, <2>2, QueuedIs
    <3> QED BY <1>2, <1>5, <3>1
  <2> QED BY <1>1, <2>1, <2>2, QueuedIs
<1> QED BY <1>1, <1>2, <1>4, <1>5 DEF Mounted, Unasked

LEMMA ScheduleLoadIs ==
    ASSUME NEW l \in Lists, l.loading \/ l.read = <<>>
    PROVE  /\ ScheduleLoad(l) \in Lists /\ ScheduleLoad(l).loading
           /\ ScheduleLoad(l).dirty \/ ScheduleLoad(l).read = <<>>
           /\ ScheduleLoad(l).row = l.row /\ ScheduleLoad(l).read = l.read
BY DEF ScheduleLoad, Lists

Readers == {"chat", "contact", "verify"}
LEMMA HearsIs ==
    ASSUME NEW e \in Mounted, Len(e.loads) < MaxLoads
    PROVE  /\ Hears(e) \in Mounted /\ Alike(e, Hears(e))
           /\ Hears(e).loads = IF e.kind \in Readers THEN Queued(e.loads, Read("row", "")) ELSE e.loads
           /\ e.kind # "tabs" => Hears(e).list = e.list
           /\ e.kind = "tabs" => /\ Hears(e).list.loading
                                 /\ Hears(e).list.dirty \/ Hears(e).list.read = <<>>
<1>1. e \in Entries /\ e.loads \in Seq(Items) /\ e.list \in Lists /\ (e.list.loading \/ e.list.read = <<>>)
  BY DEF Mounted, Entries
<1>2. CASE e.kind = "tabs"
  <2>1. Hears(e) = [e EXCEPT !.list = ScheduleLoad(e.list)]
    BY <1>1, <1>2 DEF Hears, Entries
  <2>2. ScheduleLoad(e.list) \in Lists /\ ScheduleLoad(e.list).loading
        /\ (ScheduleLoad(e.list).dirty \/ ScheduleLoad(e.list).read = <<>>)
    BY <1>1, ScheduleLoadIs
  <2>3. Hears(e) \in Entries /\ Hears(e).list = ScheduleLoad(e.list) /\ Alike(e, Hears(e)) /\ Hears(e).loads = e.loads
    BY <1>1, <2>1, <2>2 DEF Entries, Alike
  <2>4. Hears(e) \in Mounted
    <3>1. Len(e.loads) <= MaxLoads /\ (e.kind = "chat" \/ \A n \in DOMAIN e.loads : e.loads[n].then = "")
      BY DEF Mounted, Unasked
    <3> QED BY <1>2, <2>2, <2>3, <3>1 DEF Mounted, Unasked, Alike
  <2> QED BY <1>2, <2>2, <2>3, <2>4 DEF Readers
<1>3. CASE e.kind \in Readers
  <2>1. Hears(e) = Queue(e, Read("row", ""))
    BY <1>3 DEF Hears, Readers
  <2>2. Read("row", "") \in Items
    BY ReadIs
  <2>3. Hears(e) \in Entries /\ Alike(e, Hears(e)) /\ Hears(e).list = e.list
        /\ Hears(e).loads = Queued(e.loads, Read("row", ""))
    BY <1>1, <2>1, <2>2, QueueIs
  <2>4. Hears(e) \in Mounted
    BY <2>1, <2>2, ReadIs, QueueMounted
  <2> QED BY <1>1, <1>3, <2>3, <2>4 DEF Readers
<1>4. CASE e.kind \in {"scan", "lock"}
  <2>1. Hears(e) = e
    BY <1>4 DEF Hears
  <2> QED BY <1>4, <2>1 DEF Alike, Readers
<1> QED BY <1>1, <1>2, <1>3, <1>4 DEF Entries, Kinds, Readers

LEMMA EntryIs ==
    ASSUME NEW kind \in Kinds, NEW scanned \in BOOLEAN, phone \in Phones
    PROVE  LET e == Entry(kind, scanned) IN
           /\ e \in Mounted /\ e.kind = kind /\ e.scanned = scanned /\ e.seen = Blank /\ e.thread = NoMessages
           /\ e.loads = <<>> /\ e.busy = {} /\ e.sheet = Nothing /\ e.list = NoList
           /\ e.open = (kind = "chat" /\ phone.released)
<1>1. Blank \in AllFacts /\ NoMessages \in [Msgs -> States] /\ NoList \in Lists
  BY DEF Blank, AllFacts, Requests, NoMessages, States, NoList, NoRow, Lists, Rows
<1>2. <<>> \in Seq(Items) /\ Len(<<>>) = 0
  OBVIOUS
<1>3. (kind = "chat" /\ phone.released) \in BOOLEAN
  BY DEF Phones
<1>4. Entry(kind, scanned) \in Entries
  BY <1>1, <1>2, <1>3 DEF Entry, Entries
<1>5. NoList.read = <<>>
  BY DEF NoList
<1>6. MaxLoads >= 0
  BY ScreensAssumption
<1>7. Entry(kind, scanned).loads = <<>> /\ Entry(kind, scanned).list = NoList
  BY DEF Entry
<1>8. Entry(kind, scanned) \in Mounted
  <2>1. Len(Entry(kind, scanned).loads) <= MaxLoads /\ Unasked(Entry(kind, scanned))
    BY <1>2, <1>7, Bounds DEF Unasked
  <2> QED BY <1>4, <1>5, <1>7, <2>1 DEF Mounted
<1> QED BY <1>8 DEF Entry

LEMMA StackIs ==
    ASSUME NEW s \in Stacks
    PROVE  /\ Len(s) \in Nat /\ Len(s) >= 1 /\ Len(s) <= MaxDepth /\ DOMAIN s = 1..Len(s) /\ Len(s) \in DOMAIN s
           /\ \A i \in DOMAIN s : s[i] \in Mounted /\ i \in Nat /\ i >= 1 /\ i <= Len(s)
BY DEF Stacks

LEMMA MountedIs ==
    ASSUME NEW e \in Mounted
    PROVE  /\ e \in Entries /\ Len(e.loads) <= MaxLoads /\ e.loads \in Seq(Items) /\ Len(e.loads) \in Nat
           /\ e.kind \in Kinds /\ e.seen \in AllFacts /\ e.list \in Lists /\ e.list.read \in Seq(Rows)
           /\ e.list.loading \/ e.list.read = <<>>
           /\ e.kind = "chat" \/ Unasked(e)
BY DEF Mounted, Entries, Lists

\* The same screens, one changed.
Set(s, i, q) == [s EXCEPT ![i] = q]
LEMMA SetIs ==
    ASSUME NEW s \in Stacks, NEW i \in DOMAIN s, NEW q \in Mounted
    PROVE  /\ Set(s, i, q) \in Stacks /\ Len(Set(s, i, q)) = Len(s) /\ DOMAIN Set(s, i, q) = DOMAIN s
           /\ Set(s, i, q)[i] = q /\ \A j \in DOMAIN s : j # i => Set(s, i, q)[j] = s[j]
BY DEF Set, Stacks

LEMMA SetAt ==
    ASSUME NEW s \in Stacks, NEW i, i \in DOMAIN s, NEW q \in Mounted, NEW r, r = Set(s, i, q)
    PROVE  /\ r \in Stacks /\ Len(r) = Len(s) /\ DOMAIN r = DOMAIN s
           /\ r[i] = q /\ \A j \in DOMAIN s : j # i => r[j] = s[j]
BY SetIs

\* Two stacks of the same screens.
Shape(s, q) == Len(q) = Len(s) /\ \A i \in DOMAIN s : q[i].kind = s[i].kind

LEMMA PlacedKept ==
    ASSUME NEW s \in Stacks, NEW q \in Stacks, NEW ts, Placed(ts, s), Shape(s, q)
    PROVE  Placed(ts, q)
BY DEF Placed, Shape, Stacks

LEMMA SetShape ==
    ASSUME NEW s \in Stacks, NEW i \in DOMAIN s, NEW q \in Mounted, q.kind = s[i].kind
    PROVE  Shape(s, Set(s, i, q))
BY SetIs DEF Shape

LEMMA AtIs ==
    ASSUME NEW t \in Tasks, NEW v \in Nat
    PROVE  /\ [t EXCEPT !.at = v] \in Tasks /\ [t EXCEPT !.at = v].at = v /\ [t EXCEPT !.at = v].op = t.op
           /\ t.op = "answer" => [t EXCEPT !.at = v].k = t.k /\ [t EXCEPT !.at = v].was = t.was
           /\ t.op = "mark" => [t EXCEPT !.at = v].was = t.was
<1>1. CASE t.op = "mark"
  BY <1>1 DEF Tasks
<1>2. CASE t.op = "unlock"
  BY <1>2 DEF Tasks
<1>3. CASE t.op = "send"
  BY <1>3 DEF Tasks
<1>4. CASE t.op = "answer"
  BY <1>4 DEF Tasks
<1>5. CASE t.op = "add"
  BY <1>5 DEF Tasks
<1> QED BY <1>1, <1>2, <1>3, <1>4, <1>5 DEF Tasks

LEMMA TaskIs ==
    ASSUME NEW t \in Tasks
    PROVE  /\ t.at \in Nat /\ t.op \in {"mark", "unlock", "send", "answer", "add"}
           /\ t.op = "mark" => t \in [op : {"mark"}, at : Nat, was : {"?", "locked", "open"}]
           /\ t.op = "unlock" => t \in [op : {"unlock"}, at : Nat]
           /\ t.op = "send" => t \in [op : {"send"}, at : Nat, m : Msgs, text : BOOLEAN]
           /\ t.op = "answer" => t \in [op : {"answer"}, at : Nat, k : Asks, yes : BOOLEAN, was : {"?"} \cup Requests]
           /\ t.op = "add" => t \in [op : {"add"}, at : Nat]
BY DEF Tasks

LEMMA DetachIs ==
    ASSUME Types, NEW u \in Detach(Top)
    PROVE  \E t \in tasks :
             /\ u.op = t.op /\ u \in Tasks
             /\ u.at = IF t.at = Top THEN 0 ELSE t.at
             /\ u = [t EXCEPT !.at = IF t.at = Top THEN 0 ELSE t.at]
             /\ t.op = "answer" => u.k = t.k /\ u.was = t.was
             /\ t.op = "mark" => u.was = t.was
<1>1. PICK t \in tasks : u = [t EXCEPT !.at = IF t.at = Top THEN 0 ELSE t.at]
  BY DEF Detach
<1>2. t \in Tasks /\ t.at \in Nat
  BY TaskIs DEF Types, Placed
<1> QED BY <1>1, <1>2, AtIs

\* The screens beneath are the same, but for one that gives way to the app lock.
Beneath(s, q, n) ==
    \A i \in 1..n : q[i].kind = s[i].kind \/ (q[i].kind = "lock" /\ s[i].kind \in {"tabs", "scan"})

LEMMA PlacedDetached ==
    ASSUME Types, NEW q \in Stacks, Len(q) >= Top - 1, Beneath(stack, q, Top - 1)
    PROVE  Placed(Detach(Top), q)
<1>1. Len(stack) \in Nat /\ Len(q) \in Nat /\ Top = Len(stack)
  BY StackIs DEF Types, Top
<1> SUFFICES ASSUME NEW u \in Detach(Top)
             PROVE  u \in Tasks /\ u.at \in 0..Len(q) /\ (u.at # 0 => q[u.at].kind \in From(u.op))
  BY DEF Placed
<1>2. PICK t \in tasks : u.op = t.op /\ u \in Tasks /\ u.at = IF t.at = Top THEN 0 ELSE t.at
  BY DetachIs
<1>3. t.at \in 0..Len(stack) /\ (t.at # 0 => stack[t.at].kind \in From(t.op)) /\ t \in Tasks
  BY DEF Types, Placed
<1>4. CASE t.at = Top \/ t.at = 0
  BY <1>1, <1>2, <1>4
<1>5. CASE t.at # Top /\ t.at # 0
  <2>1. t.at \in 1..(Top - 1) /\ u.at = t.at
    BY <1>1, <1>2, <1>3, <1>5
  <2>2. q[t.at].kind \in From(t.op)
    BY <1>3, <1>5, <2>1, TaskIs DEF From, Beneath
  <2> QED BY <1>1, <1>2, <2>1, <2>2
<1> QED BY <1>4, <1>5

\* The marks an event or a focus starts.
Marks(s, fg) == {Marking(i) : i \in {j \in {Len(s)} : s[j].kind = "chat" /\ fg}}

LEMMA MarksIs ==
    ASSUME NEW s \in Stacks, NEW fg \in BOOLEAN, NEW t \in Marks(s, fg)
    PROVE  t = Marking(Len(s)) /\ s[Len(s)].kind = "chat" /\ t \in Tasks /\ t.op = "mark" /\ t.at = Len(s) /\ t.was = "?"
<1>1. t = Marking(Len(s)) /\ s[Len(s)].kind = "chat"
  BY DEF Marks
<1>2. Len(s) \in Nat
  BY StackIs
<1> QED BY <1>1, <1>2 DEF Marking, Tasks

LEMMA PlacedMarks ==
    ASSUME NEW s \in Stacks, NEW fg \in BOOLEAN, NEW ts, Placed(ts, s)
    PROVE  Placed(ts \cup Marks(s, fg), s)
<1>1. \A t \in Marks(s, fg) : t \in Tasks /\ t.at = Len(s) /\ t.op = "mark" /\ s[Len(s)].kind = "chat"
  BY MarksIs
<1>2. Len(s) \in Nat /\ "chat" \in From("mark")
  BY StackIs DEF From
<1> QED BY <1>1, <1>2 DEF Placed

\* Every mounted screen has heard.
HaveHeard(s, q) ==
    /\ q \in Stacks /\ Len(q) = Len(s) /\ DOMAIN q = DOMAIN s
    /\ \A i \in DOMAIN s : q[i] = Hears(s[i]) /\ Alike(s[i], q[i])

Roomy(s) == \A i \in DOMAIN s : Len(s[i].loads) < MaxLoads

LEMMA TellIs ==
    ASSUME NEW s \in Stacks, Roomy(s), NEW ts, Placed(ts, s), phone \in Phones, Tell(s, ts)
    PROVE  /\ HaveHeard(s, stack') /\ tasks' = ts \cup Marks(s, phone.fg) /\ Placed(tasks', stack')
<1>1. stack' = [i \in DOMAIN s |-> Hears(s[i])] /\ tasks' = ts \cup Marks(s, phone.fg)
  BY DEF Tell, Marks
<1>2. \A i \in DOMAIN s : Hears(s[i]) \in Mounted /\ Alike(s[i], Hears(s[i]))
  BY HearsIs, StackIs DEF Roomy
<1>3. stack' \in Stacks /\ Len(stack') = Len(s) /\ DOMAIN stack' = DOMAIN s
  BY <1>1, <1>2 DEF Stacks
<1>4. HaveHeard(s, stack')
  BY <1>1, <1>2, <1>3 DEF HaveHeard
<1>5. Placed(ts \cup Marks(s, phone.fg), s)
  BY PlacedMarks DEF Phones
<1>6. Shape(s, stack')
  BY <1>4 DEF HaveHeard, Shape, Alike
<1> QED BY <1>1, <1>3, <1>4, <1>5, <1>6, PlacedKept

LEMMA FocusIs ==
    ASSUME NEW s \in Stacks, Len(s[Len(s)].loads) < MaxLoads, NEW ts, Placed(ts, s), Focus(s, ts)
    PROVE  /\ stack' = Set(s, Len(s), Hears(s[Len(s)])) /\ stack' \in Stacks /\ Shape(s, stack')
           /\ Alike(s[Len(s)], Hears(s[Len(s)]))
           /\ tasks' = ts \cup Marks(s, TRUE) /\ Placed(tasks', stack')
<1> DEFINE n == Len(s)
<1>0. n \in DOMAIN s /\ s[n] \in Mounted
  BY StackIs
<1>1. stack' = Set(s, n, Hears(s[n])) /\ tasks' = ts \cup Marks(s, TRUE)
  BY <1>0 DEF Focus, Marks, Set
<1>2. Hears(s[n]) \in Mounted /\ Alike(s[n], Hears(s[n]))
  BY <1>0, HearsIs
<1>3. stack' \in Stacks /\ Shape(s, stack')
  BY <1>0, <1>1, <1>2, SetIs, SetShape DEF Alike
<1>4. Placed(ts \cup Marks(s, TRUE), s)
  BY PlacedMarks
<1> QED BY <1>1, <1>2, <1>3, <1>4, PlacedKept

LEMMA AppendIs ==
    ASSUME NEW s \in Stacks, NEW e \in Mounted, Len(s) < MaxDepth
    PROVE  /\ Append(s, e) \in Stacks /\ Len(Append(s, e)) = Len(s) + 1 /\ Append(s, e)[Len(s) + 1] = e
           /\ \A i \in DOMAIN s : Append(s, e)[i] = s[i] /\ i \in DOMAIN Append(s, e)
BY ScreensAssumption DEF Stacks

LEMMA FrontIs ==
    ASSUME NEW s \in Stacks, Len(s) > 1
    PROVE  /\ Front(s) \in Stacks /\ Len(Front(s)) = Len(s) - 1
           /\ \A i \in 1..(Len(s) - 1) : Front(s)[i] = s[i]
<1>1. s \in Seq(Mounted) /\ Len(s) \in Nat /\ Len(s) <= MaxDepth /\ \A i \in 1..(Len(s) - 1) : s[i] \in Mounted
  BY StackIs DEF Stacks
<1>2. Front(s) = SubSeq(s, 1, Len(s) - 1)
  BY DEF Front
<1>3. /\ SubSeq(s, 1, Len(s) - 1) \in Seq(Mounted) /\ Len(SubSeq(s, 1, Len(s) - 1)) = Len(s) - 1
      /\ \A i \in 1..(Len(s) - 1) : SubSeq(s, 1, Len(s) - 1)[i] = s[1 + i - 1]
  <2>1. 1 \in Int /\ Len(s) - 1 \in Int /\ 1 <= Len(s) - 1 /\ Len(s) - 1 - 1 + 1 = Len(s) - 1
    BY <1>1
  <2> QED BY <1>1, <2>1, SubSeqProperties
<1>4. \A i \in 1..(Len(s) - 1) : s[1 + i - 1] = s[i]
  BY <1>1
<1> QED BY <1>1, <1>2, <1>3, <1>4, ScreensAssumption DEF Stacks

\* The visible screen replaced.
LEMMA SwapIs ==
    ASSUME NEW s \in Stacks, NEW e \in Mounted
    PROVE  Append(Front(s), e) = Set(s, Len(s), e)
<1>1. s \in Seq(Mounted) /\ Len(s) \in Nat \ {0} /\ \A i \in 1..(Len(s) - 1) : s[i] \in Mounted
  BY StackIs DEF Stacks
<1> DEFINE f == SubSeq(s, 1, Len(s) - 1)
<1>2. Front(s) = f
  BY DEF Front
<1>3. /\ f \in Seq(Mounted) /\ Len(f) = Len(s) - 1
      /\ \A i \in 1..(Len(s) - 1) : f[i] = s[i]
  <2>1. 1 \in Int /\ Len(s) - 1 \in Int /\ Len(s) - 1 - 1 + 1 = Len(s) - 1
    BY <1>1
  <2>2. f \in Seq(Mounted) /\ Len(f) = (IF 1 <= Len(s) - 1 THEN Len(s) - 1 ELSE 0)
        /\ \A i \in 1..(Len(s) - 1) : f[i] = s[1 + i - 1]
    BY <1>1, <2>1, SubSeqProperties
  <2> HIDE DEF f
  <2>3. ASSUME NEW i \in 1..(Len(s) - 1) PROVE f[i] = s[i]
    <3>1. 1 + i - 1 = i
      BY <1>1
    <3> QED BY <2>2, <3>1
  <2>4. Len(f) = Len(s) - 1
    <3>1. Len(s) \in Nat /\ Len(s) >= 1 /\ Len(f) = (IF 1 <= Len(s) - 1 THEN Len(s) - 1 ELSE 0)
      BY <2>2, StackIs
    <3> QED BY <3>1
  <2> QED BY <2>2, <2>3, <2>4
<1> HIDE DEF f
<1>4. Append(f, e) \in Seq(Mounted) /\ Len(Append(f, e)) = Len(s) /\ Append(f, e)[Len(s)] = e
      /\ \A i \in 1..(Len(s) - 1) : Append(f, e)[i] = s[i]
  BY <1>1, <1>3, AppendProperties
<1>5. Set(s, Len(s), e) \in Seq(Mounted) /\ Len(Set(s, Len(s), e)) = Len(s)
      /\ \A i \in 1..Len(s) : Set(s, Len(s), e)[i] = IF i = Len(s) THEN e ELSE s[i]
  BY <1>1 DEF Set
<1>6. \A i \in 1..Len(s) : Append(f, e)[i] = Set(s, Len(s), e)[i]
  BY <1>1, <1>4, <1>5
<1>7. Append(f, e) = Set(s, Len(s), e)
  BY <1>4, <1>5, <1>6, SeqEqual
<1> QED BY <1>2, <1>7

\* One screen changes, and keeps its kind.
Changes(i, q) ==
    /\ i \in DOMAIN stack /\ q \in Mounted /\ q.kind = stack[i].kind
    /\ stack' = Set(stack, i, q)

LEMMA Changed ==
    ASSUME Types, NEW i, NEW q, Changes(i, q)
    PROVE  /\ stack' \in Stacks /\ Shape(stack, stack') /\ stack'[i] = q /\ DOMAIN stack' = DOMAIN stack
           /\ \A j \in DOMAIN stack : j # i => stack'[j] = stack[j]
           /\ \A ts : Placed(ts, stack) => Placed(ts, stack')
BY SetIs, SetShape, PlacedKept DEF Types, Changes

LEMMA TopIs ==
    ASSUME Types
    PROVE  /\ stack \in Stacks /\ Top \in Nat /\ Top >= 1 /\ Top <= MaxDepth /\ Top \in DOMAIN stack /\ DOMAIN stack = 1..Top
           /\ Len(stack) = Top /\ Screen = stack[Top] /\ Screen \in Mounted /\ phone \in Phones /\ db \in Bases
           /\ \A i \in DOMAIN stack : stack[i] \in Mounted
BY StackIs DEF Types, Top, Screen

\* A read of one screen.
Rest(e) == Tail(e.loads)
AfterRow(e) ==
    [e EXCEPT !.loads = IF e.kind = "chat" THEN Append(Rest(e), Read("thread", Head(e.loads).then)) ELSE Rest(e),
              !.seen = IF e.kind = "verify" /\ ~db.there THEN e.seen ELSE Facts(db)]
AfterThread(e) == [e EXCEPT !.thread = db.msgs, !.loads = Rest(e), !.busy = @ \ {Head(e.loads).then}]
AfterPut(e) ==
    [e EXCEPT !.loads = Rest(e),
              !.seen = [f \in DOMAIN e.seen |-> IF f \in ContactFields THEN Head(e.loads).put[f] ELSE e.seen[f]]]

LEMMA QueueHead ==
    ASSUME NEW S, NEW l \in Seq(S), l # <<>>
    PROVE  /\ Tail(l) \in Seq(S) /\ Len(Tail(l)) = Len(l) - 1 /\ Head(l) \in S /\ Head(l) = l[1] /\ 1 \in DOMAIN l
           /\ Len(l) \in Nat /\ Len(l) >= 1
           /\ \A n \in DOMAIN Tail(l) : n + 1 \in DOMAIN l /\ Tail(l)[n] = l[n + 1] /\ n \in Nat /\ n >= 1
OBVIOUS

LEMMA RestUnasked ==
    ASSUME NEW e \in Mounted, e.loads # <<>>, e.kind # "chat"
    PROVE  \A n \in DOMAIN Tail(e.loads) : Tail(e.loads)[n].then = ""
<1>1. e.loads \in Seq(Items) /\ Unasked(e)
  BY MountedIs
<1> SUFFICES ASSUME NEW n \in DOMAIN Tail(e.loads) PROVE Tail(e.loads)[n].then = ""
  OBVIOUS
<1>2. n + 1 \in DOMAIN e.loads /\ Tail(e.loads)[n] = e.loads[n + 1]
  BY <1>1, QueueHead
<1> QED BY <1>1, <1>2 DEF Unasked

LEMMA AfterRowIs ==
    ASSUME NEW e \in Mounted, e.loads # <<>>, db \in Bases
    PROVE  /\ AfterRow(e) \in Mounted
           /\ AfterRow(e).kind = e.kind /\ AfterRow(e).scanned = e.scanned /\ AfterRow(e).thread = e.thread /\ AfterRow(e).open = e.open
           /\ AfterRow(e).busy = e.busy /\ AfterRow(e).list = e.list /\ AfterRow(e).sheet = e.sheet
           /\ AfterRow(e).seen = IF e.kind = "verify" /\ ~db.there THEN e.seen ELSE Facts(db)
           /\ AfterRow(e).loads = IF e.kind = "chat" THEN Append(Rest(e), Read("thread", Head(e.loads).then)) ELSE Rest(e)
<1> DEFINE x == Read("thread", Head(e.loads).then)
<1> PICK l : l = e.loads
  OBVIOUS
<1>1. e \in Entries /\ l \in Seq(Items) /\ l # <<>> /\ Len(l) <= MaxLoads
  BY MountedIs
<1>2. /\ Tail(l) \in Seq(Items) /\ Len(Tail(l)) = Len(l) - 1 /\ Head(l) \in Items /\ Len(l) \in Nat
      /\ \A n \in DOMAIN Tail(l) : n + 1 \in DOMAIN l /\ Tail(l)[n] = l[n + 1]
  BY <1>1, QueueHead
<1>3. x \in Items
  BY <1>2, ReadIs DEF Items
<1> HIDE DEF x
<1>4. Append(Tail(l), x) \in Seq(Items) /\ Len(Append(Tail(l), x)) = Len(l)
  BY <1>2, <1>3
<1>5. Facts(db) \in AllFacts /\ e.seen \in AllFacts
  BY <1>1, FactsIs DEF Entries
<1> PICK q : q = AfterRow(e)
  OBVIOUS
<1>6. /\ q \in Entries /\ q.kind = e.kind /\ q.scanned = e.scanned /\ q.thread = e.thread /\ q.open = e.open
      /\ q.busy = e.busy /\ q.list = e.list /\ q.sheet = e.sheet
      /\ q.seen = (IF e.kind = "verify" /\ ~db.there THEN e.seen ELSE Facts(db))
      /\ q.loads = IF e.kind = "chat" THEN Append(Tail(l), x) ELSE Tail(l)
  BY <1>1, <1>2, <1>4, <1>5 DEF AfterRow, Rest, Entries, x
<1>7. Len(q.loads) <= MaxLoads
  BY <1>1, <1>2, <1>4, <1>6, Bounds
<1>8. q.kind # "chat" => Unasked(q)
  BY <1>6, RestUnasked DEF Unasked
<1> QED BY <1>6, <1>7, <1>8, MountedIs DEF Mounted, Rest, x

LEMMA AfterThreadIs ==
    ASSUME NEW e \in Mounted, e.loads # <<>>, db \in Bases
    PROVE  /\ AfterThread(e) \in Mounted
           /\ AfterThread(e).kind = e.kind /\ AfterThread(e).scanned = e.scanned /\ AfterThread(e).thread = db.msgs /\ AfterThread(e).open = e.open
           /\ AfterThread(e).busy = e.busy \ {Head(e.loads).then} /\ AfterThread(e).list = e.list
           /\ AfterThread(e).sheet = e.sheet
           /\ AfterThread(e).seen = e.seen /\ AfterThread(e).loads = Rest(e)
<1> PICK l : l = e.loads
  OBVIOUS
<1>1. e \in Entries /\ l \in Seq(Items) /\ l # <<>> /\ Len(l) <= MaxLoads
  BY MountedIs
<1>2. /\ Tail(l) \in Seq(Items) /\ Len(Tail(l)) = Len(l) - 1 /\ Len(l) \in Nat
      /\ \A n \in DOMAIN Tail(l) : n + 1 \in DOMAIN l /\ Tail(l)[n] = l[n + 1]
  BY <1>1, QueueHead
<1>3. db.msgs \in [Msgs -> States]
  BY DEF Bases
<1> PICK q : q = AfterThread(e)
  OBVIOUS
<1>4. /\ q \in Entries /\ q.kind = e.kind /\ q.scanned = e.scanned /\ q.thread = db.msgs /\ q.open = e.open
      /\ q.busy = e.busy \ {Head(l).then} /\ q.list = e.list /\ q.sheet = e.sheet
      /\ q.seen = e.seen /\ q.loads = Tail(l)
  BY <1>1, <1>2, <1>3 DEF AfterThread, Rest, Entries
<1>5. Len(q.loads) <= MaxLoads
  BY <1>1, <1>2, <1>4, Bounds
<1>6. q.kind # "chat" => Unasked(q)
  BY <1>4, RestUnasked DEF Unasked
<1> QED BY <1>4, <1>5, <1>6, MountedIs DEF Mounted, Rest

LEMMA AfterPutIs ==
    ASSUME NEW e \in Mounted, e.loads # <<>>
    PROVE  LET b == Head(e.loads).put IN
           /\ AfterPut(e) \in Mounted
           /\ AfterPut(e).kind = e.kind /\ AfterPut(e).scanned = e.scanned /\ AfterPut(e).thread = e.thread /\ AfterPut(e).open = e.open
           /\ AfterPut(e).busy = e.busy /\ AfterPut(e).list = e.list /\ AfterPut(e).sheet = e.sheet
           /\ AfterPut(e).loads = Rest(e) /\ b \in AllFacts
           /\ AfterPut(e).seen = [there |-> b.there, lock |-> e.seen.lock, pend |-> e.seen.pend, local |-> b.local,
                                  peer |-> b.peer, blocked |-> b.blocked, muted |-> b.muted]
<1> PICK l : l = e.loads
  OBVIOUS
<1> DEFINE b == Head(l).put
<1> DEFINE v == [there |-> b.there, lock |-> e.seen.lock, pend |-> e.seen.pend, local |-> b.local,
                 peer |-> b.peer, blocked |-> b.blocked, muted |-> b.muted]
<1>1. e \in Entries /\ l \in Seq(Items) /\ l # <<>> /\ Len(l) <= MaxLoads /\ e.seen \in AllFacts
  BY MountedIs
<1>2. /\ Tail(l) \in Seq(Items) /\ Len(Tail(l)) = Len(l) - 1 /\ Head(l) \in Items /\ Len(l) \in Nat
      /\ \A n \in DOMAIN Tail(l) : n + 1 \in DOMAIN l /\ Tail(l)[n] = l[n + 1]
  BY <1>1, QueueHead
<1>3. b \in AllFacts
  BY <1>2 DEF Items
<1>4. v \in AllFacts
  BY <1>1, <1>3 DEF AllFacts
<1>5. [f \in DOMAIN e.seen |-> IF f \in ContactFields THEN b[f] ELSE e.seen[f]] = v
  BY <1>1, <1>3, PutIs
<1> HIDE DEF v, b
<1> PICK q : q = AfterPut(e)
  OBVIOUS
<1>6. q = [e EXCEPT !.loads = Tail(l), !.seen = v]
  BY <1>5 DEF AfterPut, Rest, b
<1>7. /\ q \in Entries /\ q.kind = e.kind /\ q.scanned = e.scanned /\ q.thread = e.thread /\ q.open = e.open
      /\ q.busy = e.busy /\ q.list = e.list /\ q.sheet = e.sheet /\ q.seen = v /\ q.loads = Tail(l)
  BY <1>1, <1>2, <1>4, <1>6 DEF Entries
<1>8. Len(q.loads) <= MaxLoads
  BY <1>1, <1>2, <1>7, Bounds
<1>9. q.kind # "chat" => Unasked(q)
  BY <1>7, RestUnasked DEF Unasked
<1>10. q \in Mounted
  BY <1>7, <1>8, <1>9, MountedIs DEF Mounted
<1> QED BY <1>3, <1>7, <1>10 DEF Rest, v, b

LEMMA LoadIs ==
    ASSUME Types, NEW i \in DOMAIN stack, Load(i)
    PROVE  LET e == stack[i] IN
           /\ e.loads # <<>> /\ ~phone.locked
           /\ UNCHANGED <<scene, left, db, log, phone>>
           /\ \/ Head(e.loads).what = "row" /\ Changes(i, AfterRow(e)) /\ tasks' = tasks
              \/ Head(e.loads).what = "thread" /\ Changes(i, AfterThread(e))
                 /\ tasks' = IF Head(e.loads).then = "mark" THEN tasks \cup {Marking(i)} ELSE tasks
              \/ Head(e.loads).what = "put" /\ Changes(i, AfterPut(e)) /\ tasks' = tasks
<1> PICK e : e = stack[i]
  OBVIOUS
<1>1. e \in Mounted /\ e.loads # <<>> /\ ~phone.locked /\ UNCHANGED <<scene, left, db, log, phone>> /\ db \in Bases
  BY TopIs DEF Load
<1> PICK h : h = Head(e.loads)
  OBVIOUS
<1>2. h \in Items
  BY <1>1, MountedIs, QueueHead
<1>3. CASE h.what = "row"
  <2>1. ReadsRow(e) = AfterRow(e)
    <3>1. DOMAIN e = {"kind", "scanned", "seen", "thread", "loads", "open", "busy", "sheet", "list"}
      BY <1>1, MountedIs DEF Entries
    <3>2. CASE e.kind = "chat"
      BY <1>1, <3>1, <3>2, MountedIs DEF ReadsRow, AfterRow, Rest, Entries
    <3>3. CASE e.kind = "verify" /\ ~db.there
      BY <1>1, <3>1, <3>3, MountedIs DEF ReadsRow, AfterRow, Rest, Entries
    <3>4. CASE e.kind # "chat" /\ ~(e.kind = "verify" /\ ~db.there)
      BY <1>1, <3>1, <3>4, MountedIs DEF ReadsRow, AfterRow, Rest, Entries
    <3> QED BY <3>2, <3>3, <3>4
  <2>2. stack' = Set(stack, i, AfterRow(e)) /\ tasks' = tasks
    BY <1>3, <2>1 DEF Load, Set
  <2> QED BY <1>1, <1>3, <2>2, AfterRowIs DEF Changes
<1>4. CASE h.what = "thread"
  <2>1. ReadsThread(e) = AfterThread(e)
    BY DEF ReadsThread, AfterThread, Rest
  <2>2. stack' = Set(stack, i, AfterThread(e)) /\ tasks' = IF h.then = "mark" THEN tasks \cup {Marking(i)} ELSE tasks
    BY <1>4, <2>1 DEF Load, Set
  <2> QED BY <1>1, <1>4, <2>2, AfterThreadIs DEF Changes
<1>5. CASE h.what = "put"
  <2>1. Puts(e) = AfterPut(e)
    BY <1>1, MountedIs DEF Puts, AfterPut, Rest, Entries
  <2>2. stack' = Set(stack, i, AfterPut(e)) /\ tasks' = tasks
    BY <1>5, <2>1 DEF Load, Set
  <2> QED BY <1>1, <1>5, <2>2, AfterPutIs DEF Changes
<1> QED BY <1>2, <1>3, <1>4, <1>5, <1>1 DEF Items

-----------------------------------------------------------------------------
(* Who waits for an answer.                                                *)

IsAnswer(t) == t.op = "answer"

\* One answer at a time on a chat: it keeps the buttons disabled from the tap until the read
\* it asks for in the end.
Awaits(e, i, ts) ==
    /\ \A m, n \in DOMAIN e.loads : e.loads[m].then = "answer" /\ e.loads[n].then = "answer" => m = n
    /\ \A n \in DOMAIN e.loads :
          e.loads[n].then = "answer" => "answer" \in e.busy /\ \A t \in ts : IsAnswer(t) => t.at # i
    /\ \A t \in ts : IsAnswer(t) /\ t.at = i => "answer" \in e.busy
    /\ \A t, u \in ts : (IsAnswer(t) /\ t.at = i) /\ (IsAnswer(u) /\ u.at = i) => t = u

\* A request that was logged is over, and nobody has read it before.
LoggedOnce(lg, d, ts) ==
    \A k \in Asks : lg[k] = 1 =>
        d.pend[k] = "none" /\ \A t \in ts : IsAnswer(t) /\ t.k = k => t.was \in {"?", "none"}

OnePerKind(ts) == \A t, u \in ts : IsAnswer(t) /\ IsAnswer(u) /\ t.k = u.k => t = u

Answering(s, d, lg, ts) ==
    /\ lg \in [Asks -> 0..1] /\ LoggedOnce(lg, d, ts)
    /\ OnePerKind(ts)
    /\ \A i \in DOMAIN s : s[i].kind = "chat" => Awaits(s[i], i, ts)

-----------------------------------------------------------------------------
(* What a screen comes to show.                                            *)

PutsFirst(e) == \A n \in DOMAIN e.loads : e.loads[n].what = "put" => n = 1 /\ e.kind = "contact"

HasRow(e) == \E n \in DOMAIN e.loads : e.loads[n].what = "row"
HasRead(e) == \E n \in DOMAIN e.loads : e.loads[n].what \in {"row", "thread"}
Putting(e) == e.loads # <<>> /\ e.loads[1].what = "put"
WillShow(e) == IF Putting(e) THEN AfterPut(e).seen ELSE e.seen

\* It has been read since the last change, or will be.
UpToDate(e, d) ==
    /\ e.kind \in {"chat", "contact"} => HasRow(e) \/ WillShow(e) = Facts(d)
    /\ e.kind = "chat" => HasRead(e) \/ e.thread = d.msgs
    /\ e.kind = "verify" /\ d.there => HasRow(e) \/ WillShow(e) = Facts(d)
    /\ e.kind = "tabs" =>
         IF e.list.loading THEN e.list.dirty \/ e.list.read = <<>> \/ e.list.read = <<RowOf(d)>>
         ELSE e.list.row = RowOf(d)

Following(s, d, ph) ==
    /\ \A i \in DOMAIN s : PutsFirst(s[i])
    /\ ~ph.locked => UpToDate(s[Len(s)], d)

-----------------------------------------------------------------------------
(* The gate.                                                               *)

Over == {"tabs", "scan", "lock"}

\* What holds of the chat on the stack, when it is mounted once and nobody enables its lock
\* beneath it.
ChatGate(e, top, d, ph) ==
    /\ ~ph.locked /\ e.open /\ d.lock => ph.released
    /\ ~e.open => ~ph.released
    /\ e.seen.there /\ ~e.seen.lock => ~d.lock
    /\ ~top => e.open \/ ~d.lock
    /\ Gated(e) => d.lock /\ d.there

OneChat(s) == \A i, j \in DOMAIN s : s[i].kind = "chat" /\ s[j].kind = "chat" => i = j
Covers(s, d) ==
    \A i, j \in DOMAIN s : s[i].kind = "chat" /\ j > i /\ s[j].kind \in Over => ~d.lock
ChatGates(s, d, ph) ==
    \A i \in DOMAIN s : s[i].kind = "chat" => ChatGate(s[i], i = Len(s), d, ph)

Unlocking(t, s) ==
    /\ t.at # 0
    /\ s[t.at].kind = "chat" => t.at = Len(s) /\ Gated(s[t.at])
    /\ \A i \in DOMAIN s : i > t.at => s[i].kind = "verify" /\ ~s[i].scanned

HandlersOK(s, d, ph, ts) ==
    \A t \in ts :
        /\ t.op = "unlock" => ~ph.locked /\ Unlocking(t, s)
        /\ t.op = "mark" /\ t.at # 0 /\ t.was = "open" => ~d.lock

Gates(s, d, ph, ts) ==
    /\ OneChat(s) /\ Covers(s, d) /\ ChatGates(s, d, ph) /\ HandlersOK(s, d, ph, ts)
    /\ ph.locked => ~ph.released

\* The tabs stay at the bottom, and a scanner that handles a code stays visible.
Bottom(s, ts) ==
    /\ s[1].kind \in {"tabs", "lock"}
    /\ \A t \in ts : t.op = "add" => t.at = Len(s) /\ s[t.at].kind = "scan"

-----------------------------------------------------------------------------
(* Steps that leave all this alone.                                        *)

\* Some reads were added, and no put.
Grown(l, m) ==
    /\ \A n \in DOMAIN l : n \in DOMAIN m /\ m[n] = l[n]
    /\ \A n \in DOMAIN m : n \in DOMAIN l \/ m[n].what # "put"

\* No read was added that a handler waits for.
Unanswered(l, m) == \A n \in DOMAIN m : m[n].then = "answer" => n \in DOMAIN l /\ l[n] = m[n]

SameView(e, q) ==
    /\ q.kind = e.kind /\ q.scanned = e.scanned /\ q.seen = e.seen /\ q.thread = e.thread
    /\ Grown(e.loads, q.loads)

Steady(e, q) ==
    /\ SameView(e, q) /\ Unanswered(e.loads, q.loads)
    /\ e.kind = "chat" => q.open = e.open /\ ("answer" \in q.busy <=> "answer" \in e.busy)

SteadyStack(s, q) == Len(q) = Len(s) /\ \A i \in DOMAIN s : Steady(s[i], q[i])

LEMMA SteadyTrans ==
    ASSUME NEW e, NEW q, NEW r, Steady(e, q), Steady(q, r)
    PROVE  Steady(e, r)
<1>1. Grown(e.loads, r.loads)
  BY DEF Steady, SameView, Grown
<1>2. Unanswered(e.loads, r.loads)
  BY DEF Steady, Unanswered
<1> QED BY <1>1, <1>2 DEF Steady, SameView

LEMMA GrownQueued ==
    ASSUME NEW l \in Seq(Items), NEW x \in Items, x.what # "put"
    PROVE  Grown(l, Queued(l, x)) /\ (x.then # "answer" => Unanswered(l, Queued(l, x)))
<1>1. Grown(l, Queued(l, x))
  BY QueuedIs DEF Grown
<1>2. x.then # "answer" => Unanswered(l, Queued(l, x))
  <2> DEFINE m == Queued(l, x)
  <2>1. /\ \A n \in DOMAIN l : n \in DOMAIN m /\ m[n] = l[n]
        /\ \A n \in DOMAIN m : n \in DOMAIN l \/ n = Len(m)
        /\ m[Len(m)] = x
    BY QueuedIs
  <2> HIDE DEF m
  <2>2. x.then # "answer" => Unanswered(l, m)
    BY <2>1 DEF Unanswered
  <2> QED BY <2>2 DEF m
<1> QED BY <1>1, <1>2

LEMMA GrownSame == ASSUME NEW l PROVE Grown(l, l) /\ Unanswered(l, l)
BY DEF Grown, Unanswered

LEMMA HearsSteady ==
    ASSUME NEW e \in Mounted, Len(e.loads) < MaxLoads
    PROVE  Steady(e, Hears(e))
<1>1. Alike(e, Hears(e)) /\ Hears(e).loads = IF e.kind \in Readers THEN Queued(e.loads, Read("row", "")) ELSE e.loads
  BY HearsIs
<1>2. Grown(e.loads, Queued(e.loads, Read("row", ""))) /\ Unanswered(e.loads, Queued(e.loads, Read("row", "")))
  <2>1. Read("row", "") \in Items /\ Read("row", "").what # "put" /\ Read("row", "").then # "answer"
    BY ReadIs
  <2> QED BY <2>1, GrownQueued, MountedIs
<1>3. Grown(e.loads, Hears(e).loads) /\ Unanswered(e.loads, Hears(e).loads)
  BY <1>1, <1>2, GrownSame
<1> QED BY <1>1, <1>3 DEF Steady, SameView, Alike

LEMMA HeardSteady ==
    ASSUME NEW s \in Stacks, Roomy(s), NEW q, HaveHeard(s, q)
    PROVE  SteadyStack(s, q)
BY StackIs, HearsSteady DEF HaveHeard, SteadyStack, Roomy

LEMMA SteadyStackTrans ==
    ASSUME NEW s \in Stacks, NEW q \in Stacks, NEW r, SteadyStack(s, q), SteadyStack(q, r)
    PROVE  SteadyStack(s, r)
BY StackIs, SteadyTrans DEF SteadyStack

LEMMA SteadySame == ASSUME NEW s \in Stacks PROVE SteadyStack(s, s)
BY GrownSame DEF SteadyStack, Steady, SameView

LEMMA SteadySet ==
    ASSUME NEW s \in Stacks, NEW i \in DOMAIN s, NEW q \in Mounted, Steady(s[i], q)
    PROVE  SteadyStack(s, Set(s, i, q))
BY SetIs, GrownSame DEF SteadyStack, Steady, SameView

-----------------------------------------------------------------------------
LEMMA AwaitsKept ==
    ASSUME NEW e, NEW q, NEW i, NEW ts, NEW us, Awaits(e, i, ts), Unanswered(e.loads, q.loads),
           "answer" \in q.busy <=> "answer" \in e.busy,
           \A t \in us : IsAnswer(t) => t \in ts
    PROVE  Awaits(q, i, us)
<1>1. \A n \in DOMAIN q.loads : q.loads[n].then = "answer" => n \in DOMAIN e.loads /\ e.loads[n] = q.loads[n]
  BY DEF Unanswered
<1> QED BY <1>1 DEF Awaits

LEMMA AnsweringKept ==
    ASSUME NEW s \in Stacks, NEW q \in Stacks, NEW d, NEW c, NEW lg, NEW ts, NEW us,
           Answering(s, d, lg, ts), Len(q) = Len(s),
           \A i \in DOMAIN s : /\ q[i].kind = s[i].kind /\ Unanswered(s[i].loads, q[i].loads)
                               /\ (s[i].kind = "chat" => ("answer" \in q[i].busy <=> "answer" \in s[i].busy)),
           \A t \in us : IsAnswer(t) => t \in ts,
           \A k \in Asks : c.pend[k] \in {d.pend[k], "none"}
    PROVE  Answering(q, c, lg, us)
<1>1. LoggedOnce(lg, c, us) /\ OnePerKind(us) /\ lg \in [Asks -> 0..1]
  BY DEF Answering, LoggedOnce, OnePerKind
<1>2. ASSUME NEW i \in DOMAIN q, q[i].kind = "chat" PROVE Awaits(q[i], i, us)
  BY <1>2, StackIs, AwaitsKept DEF Answering
<1> QED BY <1>1, <1>2 DEF Answering

LEMMA PutsFirstKept ==
    ASSUME NEW e, NEW q, PutsFirst(e), q.kind = e.kind, Grown(e.loads, q.loads)
    PROVE  PutsFirst(q)
BY DEF PutsFirst, Grown

\* A screen that keeps what it has, over a database that keeps what it holds.
LEMMA FreshKept ==
    ASSUME NEW e \in Mounted, NEW q \in Mounted, NEW d, UpToDate(e, d), SameView(e, q), q.list = e.list
    PROVE  UpToDate(q, d)
<1>1. e.loads \in Seq(Items) /\ q.loads \in Seq(Items)
  BY MountedIs
<1>2. (HasRow(e) => HasRow(q)) /\ (HasRead(e) => HasRead(q))
  BY DEF HasRow, HasRead, Steady, SameView, Grown
<1>3. WillShow(q) = WillShow(e)
  <2>1. CASE e.loads = <<>>
    <3>1. ~Putting(e) /\ ~Putting(q)
      BY <1>1, <2>1 DEF Putting, Steady, SameView, Grown
    <3> QED BY <3>1 DEF WillShow, Steady, SameView
  <2>2. CASE e.loads # <<>>
    <3>1. 1 \in DOMAIN e.loads /\ q.loads # <<>> /\ q.loads[1] = e.loads[1] /\ Head(q.loads) = Head(e.loads)
      BY <1>1, <2>2, QueueHead DEF Steady, SameView, Grown
    <3>2. AfterPut(q).seen = AfterPut(e).seen
      <4>1. AfterPut(e).seen = [there |-> Head(e.loads).put.there, lock |-> e.seen.lock,
               pend |-> e.seen.pend, local |-> Head(e.loads).put.local, peer |-> Head(e.loads).put.peer,
               blocked |-> Head(e.loads).put.blocked, muted |-> Head(e.loads).put.muted]
        BY <2>2, AfterPutIs
      <4>2. AfterPut(q).seen = [there |-> Head(q.loads).put.there, lock |-> q.seen.lock,
               pend |-> q.seen.pend, local |-> Head(q.loads).put.local, peer |-> Head(q.loads).put.peer,
               blocked |-> Head(q.loads).put.blocked, muted |-> Head(q.loads).put.muted]
        BY <3>1, AfterPutIs
      <4> QED BY <3>1, <4>1, <4>2 DEF Steady, SameView
    <3> QED BY <2>2, <3>1, <3>2 DEF WillShow, Putting, Steady, SameView
  <2> QED BY <2>1, <2>2
<1> QED BY <1>2, <1>3 DEF UpToDate, Steady, SameView

\* Who heard, and who has just come up, will be fresh whatever is in the database.
LEMMA HearsFresh ==
    ASSUME NEW e \in Mounted, Len(e.loads) < MaxLoads, NEW d
    PROVE  UpToDate(Hears(e), d)
<1>1. CASE e.kind \in Readers
  <2>1. Hears(e).loads = Queued(e.loads, Read("row", "")) /\ Hears(e).kind = e.kind
    BY <1>1, HearsIs DEF Alike
  <2>2. Read("row", "") \in Items /\ Read("row", "").what = "row" /\ e.loads \in Seq(Items)
    BY ReadIs, MountedIs
  <2>3. Len(Queued(e.loads, Read("row", ""))) \in DOMAIN Queued(e.loads, Read("row", ""))
        /\ Queued(e.loads, Read("row", ""))[Len(Queued(e.loads, Read("row", "")))].what = "row"
    <3> DEFINE m == Queued(e.loads, Read("row", ""))
    <3>1. m \in Seq(Items) /\ Len(m) >= 1 /\ Len(m) \in Nat /\ m[Len(m)] = Read("row", "")
      BY <2>2, QueuedIs
    <3> HIDE DEF m
    <3>3. Len(m) \in DOMAIN m
      BY <3>1, LastIn
    <3> QED BY <2>2, <3>1, <3>3 DEF m
  <2>4. HasRow(Hears(e)) /\ HasRead(Hears(e))
    BY <2>1, <2>3 DEF HasRow, HasRead
  <2> QED BY <1>1, <2>1, <2>4 DEF UpToDate, Readers
<1>2. CASE e.kind \notin Readers
  BY <1>2, HearsIs DEF UpToDate, Readers, Alike
<1> QED BY <1>1, <1>2

LEMMA Somewhere == ASSUME NEW n \in Nat, NEW a \in 0..n, a # 0 PROVE a \in 1..n
OBVIOUS

LEMMA GatesKept ==
    ASSUME NEW s \in Stacks, NEW q \in Stacks, NEW d, NEW c, NEW ph, NEW pj, NEW ts, NEW us,
           Gates(s, d, ph, ts), Len(q) = Len(s), Placed(us, q),
           \A i \in DOMAIN s : q[i].kind = s[i].kind /\ q[i].scanned = s[i].scanned
                               /\ (s[i].kind = "chat" => q[i].open = s[i].open /\ q[i].seen = s[i].seen),
           \A t \in us : t \in ts \/ t.op \in {"send", "answer"} \/ (t.op = "mark" /\ t.was = "?")
                         \/ t.op = "add",
           c.lock = d.lock, c.there = d.there, pj.locked = ph.locked, pj.released = ph.released
    PROVE  Gates(q, c, pj, us)
<1>1. DOMAIN q = DOMAIN s /\ OneChat(q) /\ Covers(q, c)
  BY StackIs DEF Gates, OneChat, Covers
<1>2. ChatGates(q, c, pj)
  BY StackIs DEF Gates, ChatGates, ChatGate, Gated
<1>3. ASSUME NEW t \in us PROVE /\ t.op = "unlock" => ~pj.locked /\ Unlocking(t, q)
                                /\ t.op = "mark" /\ t.at # 0 /\ t.was = "open" => ~c.lock
  <2>1. t.at \in 0..Len(q) /\ DOMAIN q = 1..Len(q)
    BY StackIs DEF Placed
  <2>2. CASE t \in ts
    <3>1. t.op = "mark" /\ t.at # 0 /\ t.was = "open" => ~c.lock
      BY <2>2 DEF Gates, HandlersOK
    <3>2. ASSUME t.op = "unlock" PROVE ~pj.locked /\ Unlocking(t, q)
      <4>1. ~ph.locked /\ Unlocking(t, s)
        BY <2>2, <3>2 DEF Gates, HandlersOK
      <4>2. t.at \in DOMAIN s /\ q[t.at].kind = s[t.at].kind
            /\ (s[t.at].kind = "chat" => q[t.at].open = s[t.at].open /\ q[t.at].seen = s[t.at].seen)
        <5>1. t.at \in DOMAIN s
          BY <1>1, <2>1, <4>1, StackIs, Somewhere DEF Unlocking
        <5> QED BY <5>1
      <4> QED BY <1>1, <4>1, <4>2 DEF Unlocking, Gated
    <3> QED BY <3>1, <3>2
  <2>3. CASE t \notin ts
    BY <2>3
  <2> QED BY <2>2, <2>3
<1> QED BY <1>1, <1>2, <1>3 DEF Gates, HandlersOK

\* No handlers start but sends, marks that have not read yet, and the scan of a visible scanner.
CalmTasks(ts, us, s) ==
    \A t \in us : t \in ts \/ t.op = "send" \/ (t.op = "mark" /\ t.was = "?")
                  \/ (t.op = "add" /\ t.at = Len(s) /\ s[t.at].kind = "scan")

\* A step that no request, no lock and no navigation is about: what the screens show is
\* what they showed, over the same database or one whose change the visible screen will read.
Ordinary ==
    /\ SteadyStack(stack, stack') /\ CalmTasks(tasks, tasks', stack)
    /\ phone'.locked = phone.locked /\ phone'.released = phone.released
    /\ db'.lock = db.lock /\ db'.there = db.there /\ log' = log
    /\ \A k \in Asks : db'.pend[k] \in {db.pend[k], "none"}
    /\ \/ UpToDate(stack'[Top], db')
       \/ db' = db /\ stack'[Top].list = stack[Top].list

Calm == Types' /\ Ordinary

LEMMA HeardFresh ==
    ASSUME NEW s \in Stacks, Roomy(s), NEW q, HaveHeard(s, q), NEW d
    PROVE  UpToDate(q[Len(s)], d)
BY StackIs, HearsFresh DEF HaveHeard, Roomy

LEMMA CalmMarks ==
    ASSUME NEW s \in Stacks, NEW fg \in BOOLEAN, NEW ts, NEW us, NEW q, CalmTasks(ts, us, q)
    PROVE  CalmTasks(ts, us \cup Marks(s, fg), q)
BY MarksIs DEF CalmTasks

\* A write that is told.
LEMMA ToldCalm ==
    ASSUME Types, NEW s \in Stacks, SteadyStack(stack, s), Roomy(s), NEW ts, Placed(ts, s),
           CalmTasks(tasks, ts, stack), Tell(s, ts), db' \in Bases, db'.lock = db.lock, db'.there = db.there,
           \A k \in Asks : db'.pend[k] \in {db.pend[k], "none"},
           UNCHANGED <<scene, log, phone>>, left' \in 0..MaxWrites
    PROVE  Calm
<1>1. /\ HaveHeard(s, stack') /\ tasks' = ts \cup Marks(s, phone.fg) /\ Placed(tasks', stack')
  BY TopIs, TellIs
<1>2. stack' \in Stacks /\ SteadyStack(stack, stack')
  <2>1. stack' \in Stacks
    BY <1>1 DEF HaveHeard
  <2> QED BY <1>1, <2>1, TopIs, HeardSteady, SteadyStackTrans
<1>3. Len(s) = Top
  BY TopIs DEF SteadyStack
<1>4. UpToDate(stack'[Top], db')
  BY <1>1, <1>3, HeardFresh
<1>5. CalmTasks(tasks, tasks', stack)
  BY <1>1, TopIs, CalmMarks DEF Phones
<1> QED BY <1>1, <1>2, <1>4, <1>5 DEF Calm, Ordinary, Types

\* One screen that is not told anything.
LEMMA SetCalm ==
    ASSUME Types, NEW i \in DOMAIN stack, NEW q \in Mounted, Steady(stack[i], q), q.list = stack[i].list,
           stack' = Set(stack, i, q), Placed(tasks', stack), CalmTasks(tasks, tasks', stack),
           UNCHANGED <<scene, left, db, log, phone>>
    PROVE  Calm
<1>1. Changes(i, q)
  BY DEF Changes, Steady, SameView
<1>2. stack' \in Stacks /\ Placed(tasks', stack')
  BY <1>1, Changed
<1>3. SteadyStack(stack, stack')
  BY TopIs, SteadySet
<1>4. stack'[Top].list = stack[Top].list
  BY <1>1, Changed, TopIs
<1> QED BY <1>2, <1>3, <1>4 DEF Calm, Ordinary, Types

LEMMA StillCalm ==
    ASSUME Types, stack' = stack, Placed(tasks', stack), CalmTasks(tasks, tasks', stack), phone' \in Phones,
           phone'.locked = phone.locked, phone'.released = phone.released,
           UNCHANGED <<scene, left, db, log>>
    PROVE  Calm
<1>1. SteadyStack(stack, stack')
  BY TopIs, SteadySame
<1> QED BY <1>1 DEF Calm, Ordinary, Types

LEMMA BusyIs ==
    ASSUME NEW e \in Mounted, NEW b \in SUBSET {"send", "answer", "gate", "scan", "refused"}
    PROVE  LET q == [e EXCEPT !.busy = b] IN
           /\ q \in Mounted /\ q.kind = e.kind /\ q.scanned = e.scanned /\ q.seen = e.seen /\ q.thread = e.thread
           /\ q.loads = e.loads /\ q.list = e.list /\ q.busy = b /\ q.open = e.open /\ q.sheet = e.sheet
BY DEF Mounted, Entries, Unasked

LEMMA SheetIs ==
    ASSUME NEW e \in Mounted, NEW x \in Msgs \cup {"lock", Nothing}
    PROVE  LET q == [e EXCEPT !.sheet = x] IN
           /\ q \in Mounted /\ q.kind = e.kind /\ q.scanned = e.scanned /\ q.seen = e.seen /\ q.thread = e.thread
           /\ q.loads = e.loads /\ q.list = e.list /\ q.busy = e.busy /\ q.open = e.open /\ q.sheet = x
BY DEF Mounted, Entries, Unasked

LEMMA OpenIs ==
    ASSUME NEW e \in Mounted, NEW o \in BOOLEAN
    PROVE  LET q == [e EXCEPT !.open = o] IN
           /\ q \in Mounted /\ q.kind = e.kind /\ q.scanned = e.scanned /\ q.seen = e.seen /\ q.thread = e.thread
           /\ q.loads = e.loads /\ q.list = e.list /\ q.busy = e.busy /\ q.open = o /\ q.sheet = e.sheet
BY DEF Mounted, Entries, Unasked

LEMMA ListIs ==
    ASSUME NEW e \in Mounted, NEW l \in Lists, l.loading \/ l.read = <<>>
    PROVE  LET q == [e EXCEPT !.list = l] IN
           /\ q \in Mounted /\ q.kind = e.kind /\ q.scanned = e.scanned /\ q.seen = e.seen /\ q.thread = e.thread
           /\ q.loads = e.loads /\ q.list = l /\ q.busy = e.busy /\ q.open = e.open /\ q.sheet = e.sheet
BY DEF Mounted, Entries, Unasked

\* One more read on a screen with room.
LEMMA QueueSteady ==
    ASSUME NEW e \in Mounted, NEW x \in Items, Len(e.loads) < MaxLoads, e.kind = "chat" \/ x.then = "",
           x.what # "put", x.then # "answer"
    PROVE  Queue(e, x) \in Mounted /\ Steady(e, Queue(e, x)) /\ Queue(e, x).list = e.list
<1>1. e \in Entries /\ e.loads \in Seq(Items)
  BY MountedIs
<1>2. Alike(e, Queue(e, x)) /\ Queue(e, x).list = e.list /\ Queue(e, x).loads = Queued(e.loads, x)
  BY <1>1, QueueIs
<1>3. Grown(e.loads, Queued(e.loads, x)) /\ Unanswered(e.loads, Queued(e.loads, x))
  BY <1>1, GrownQueued
<1> QED BY <1>2, <1>3, QueueMounted DEF Steady, SameView, Alike

LEMMA QueueRoom ==
    ASSUME NEW e \in Mounted, NEW x \in Items, Len(Queue(e, x).loads) < MaxLoads
    PROVE  Len(e.loads) < MaxLoads
<1>1. e \in Entries /\ e.loads \in Seq(Items)
  BY MountedIs
<1>2. Queue(e, x).loads = Queued(e.loads, x)
  BY <1>1, QueueIs
<1>3. Len(e.loads) \in Nat /\ Len(Queued(e.loads, x)) \in Nat /\ Len(e.loads) <= Len(Queued(e.loads, x))
  BY <1>1, QueuedIs
<1>4. Len(Queued(e.loads, x)) < MaxLoads
  BY <1>2
<1> QED BY <1>3, <1>4, Bounds, Below

LEMMA PlacedLess ==
    ASSUME NEW s, NEW ts, Placed(ts, s), NEW t
    PROVE  Placed(ts \ {t}, s)
BY DEF Placed

LEMMA CalmLess == ASSUME NEW ts, NEW s, NEW t PROVE CalmTasks(ts, ts \ {t}, s) /\ CalmTasks(ts, ts, s)
BY DEF CalmTasks

LEMMA MsgsIs ==
    ASSUME NEW d \in Bases, NEW f \in [Msgs -> States]
    PROVE  LET c == [d EXCEPT !.msgs = f] IN
           /\ c \in Bases /\ c.there = d.there /\ c.lock = d.lock /\ c.pend = d.pend /\ c.msgs = f
           /\ c.local = d.local /\ c.peer = d.peer /\ c.blocked = d.blocked /\ c.muted = d.muted
BY DEF Bases

LEMMA OneMsg ==
    ASSUME NEW d \in Bases, NEW m \in Msgs, NEW x \in States
    PROVE  LET c == [d EXCEPT !.msgs[m] = x] IN
           /\ c \in Bases /\ c.there = d.there /\ c.lock = d.lock /\ c.pend = d.pend
           /\ c.msgs = [d.msgs EXCEPT ![m] = x]
           /\ c.local = d.local /\ c.peer = d.peer /\ c.blocked = d.blocked /\ c.muted = d.muted
BY DEF Bases

LEMMA OnePend ==
    ASSUME NEW d \in Bases, NEW k \in Asks, NEW x \in Requests
    PROVE  LET c == [d EXCEPT !.pend[k] = x] IN
           /\ c \in Bases /\ c.there = d.there /\ c.lock = d.lock /\ c.pend = [d.pend EXCEPT ![k] = x]
           /\ c.msgs = d.msgs /\ \A j \in Asks : c.pend[j] = IF j = k THEN x ELSE d.pend[j]
BY DEF Bases

LEMMA Spent == ASSUME Types, Spend PROVE left' \in 0..MaxWrites
BY Bounds DEF Types, Spend

-----------------------------------------------------------------------------
(* The ordinary steps.                                                     *)

LEMMA NoneWaits == ASSUME NEW l, l = <<>> PROVE Len(l) < MaxLoads
<1>1. Len(<<>>) = 0 /\ 0 < MaxLoads
  BY Bounds
<1> QED BY <1>1

LEMMA PollCalm == ASSUME Types, NEW i \in DOMAIN stack, Poll(i) PROVE Calm
<1>1. stack[i] \in Mounted /\ stack[i].kind = "chat" /\ stack[i].loads = <<>>
  BY TopIs DEF Poll
<1>2. Read("thread", "") \in Items /\ Read("thread", "").what = "thread" /\ Read("thread", "").then = ""
  BY ReadIs
<1> PICK q : q = Queue(stack[i], Read("thread", ""))
  OBVIOUS
<1>3. q \in Mounted /\ Steady(stack[i], q) /\ q.list = stack[i].list
  <2>1. Len(stack[i].loads) < MaxLoads
    BY <1>1, NoneWaits
  <2> QED BY <1>1, <1>2, <2>1, QueueSteady
<1>4. stack' = Set(stack, i, q) /\ UNCHANGED <<scene, left, db, log, phone, tasks>>
  BY DEF Poll, Set
<1>5. Placed(tasks', stack) /\ CalmTasks(tasks, tasks', stack)
  BY <1>4 DEF Types, CalmTasks
<1> QED BY <1>3, <1>4, <1>5, SetCalm

LEMMA RoomIs == ASSUME Room PROVE Roomy(stack)
BY DEF Room, Roomy

\* A write that is told at once, from the stack as it is.
LEMMA WritesCalm ==
    ASSUME Types, NEW d \in Bases, Writes(d, stack, tasks), d.lock = db.lock, d.there = db.there,
           \A k \in Asks : d.pend[k] \in {db.pend[k], "none"},
           UNCHANGED <<scene, log, phone>>, left' \in 0..MaxWrites
    PROVE  Calm
<1>1. Roomy(stack) /\ db' = d /\ Tell(stack, tasks) /\ stack \in Stacks
  BY RoomIs, TopIs DEF Writes
<1>2. SteadyStack(stack, stack) /\ CalmTasks(tasks, tasks, stack) /\ Placed(tasks, stack)
  BY <1>1, SteadySame, CalmLess DEF Types
<1> QED BY <1>1, <1>2, ToldCalm

LEMMA MarkWritesCalm == ASSUME Types, NEW t \in tasks, MarkWrites(t) PROVE Calm
<1>1. stack \in Stacks /\ Roomy(stack) /\ SteadyStack(stack, stack) /\ db \in Bases /\ Placed(tasks \ {t}, stack)
      /\ CalmTasks(tasks, tasks \ {t}, stack)
  BY TopIs, RoomIs, SteadySame, CalmLess, PlacedLess DEF MarkWrites, Types
<1>2. CASE Viewable(t) /\ \E m \in Msgs : db.msgs[m] = "unread"
  <2> PICK f : f = [m \in Msgs |-> IF db.msgs[m] = "unread" THEN "read" ELSE db.msgs[m]]
    OBVIOUS
  <2>1. f \in [Msgs -> States]
    BY <1>1 DEF Bases, States
  <2>2. db' = [db EXCEPT !.msgs = f] /\ Tell(stack, tasks \ {t}) /\ UNCHANGED <<scene, left, log, phone>>
    BY <1>2 DEF MarkWrites
  <2>3. db' \in Bases /\ db'.lock = db.lock /\ db'.there = db.there /\ db'.pend = db.pend
    BY <1>1, <2>1, <2>2, MsgsIs
  <2>4. left' \in 0..MaxWrites
    BY <2>2 DEF Types
  <2> QED BY <1>1, <2>2, <2>3, <2>4, ToldCalm
<1>3. CASE ~(Viewable(t) /\ \E m \in Msgs : db.msgs[m] = "unread")
  BY <1>1, <1>3, StillCalm DEF MarkWrites, Types
<1> QED BY <1>2, <1>3

\* The handlers of the visible screen that must not run twice.
LEMMA BusiesIs ==
    ASSUME Types, NEW name \in {"send", "answer", "gate", "scan", "refused"}
    PROVE  LET q == [Screen EXCEPT !.busy = @ \cup {name}] IN
           /\ Busies(name) = Set(stack, Top, q) /\ q \in Mounted /\ q.list = Screen.list
           /\ q.kind = Screen.kind /\ q.loads = Screen.loads /\ q.seen = Screen.seen
           /\ q.thread = Screen.thread /\ q.open = Screen.open /\ q.busy = Screen.busy \cup {name}
<1>1. Screen \in Mounted /\ Screen = stack[Top]
  BY TopIs
<1>2. Screen.busy \cup {name} \in SUBSET {"send", "answer", "gate", "scan", "refused"}
  BY <1>1 DEF Mounted, Entries
<1>3. [Screen EXCEPT !.busy = @ \cup {name}] = [Screen EXCEPT !.busy = Screen.busy \cup {name}]
  OBVIOUS
<1> QED BY <1>1, <1>2, <1>3, BusyIs DEF Busies, Set

LEMMA RoomySame ==
    ASSUME NEW s \in Stacks, NEW i \in DOMAIN s, NEW q \in Mounted, q.loads = s[i].loads, Roomy(s)
    PROVE  Roomy(Set(s, i, q))
BY SetIs DEF Roomy

\* What one adds to the handlers.
LEMMA PlacedMore ==
    ASSUME NEW s, NEW ts, Placed(ts, s), NEW t \in Tasks, t.at \in 0..Len(s),
           t.at # 0 => s[t.at].kind \in From(t.op)
    PROVE  Placed(ts \cup {t}, s)
BY DEF Placed

LEMMA SendTask ==
    ASSUME Types, Screen.kind = "chat", NEW m \in Msgs, NEW text \in BOOLEAN
    PROVE  LET ts == tasks \cup {[op |-> "send", at |-> Top, m |-> m, text |-> text]}
           IN  Placed(ts, stack) /\ CalmTasks(tasks, ts, stack)
<1> PICK t : t = [op |-> "send", at |-> Top, m |-> m, text |-> text]
  OBVIOUS
<1>1. t \in Tasks /\ t.at = Top /\ t.op = "send" /\ Top \in 0..Len(stack) /\ stack[Top].kind = "chat"
  BY TopIs DEF Tasks
<1>2. Placed(tasks \cup {t}, stack)
  BY <1>1, PlacedMore DEF From, Types
<1> QED BY <1>1, <1>2 DEF CalmTasks

LEMMA SendTextCalm == ASSUME Types, NEW m \in Msgs, SendText(m) PROVE Calm
<1> PICK ts : ts = tasks \cup {[op |-> "send", at |-> Top, m |-> m, text |-> TRUE]}
  OBVIOUS
<1> PICK q : q = [Screen EXCEPT !.busy = @ \cup {"send"}]
  OBVIOUS
<1> PICK s : s = Set(stack, Top, q)
  OBVIOUS
<1>1. Screen.kind = "chat" /\ Room /\ UNCHANGED <<scene, log, phone>> /\ Spend
  BY DEF SendText, Composer, InChat, Shows, On, Writes
<1>2. /\ Busies("send") = s /\ q \in Mounted /\ q.kind = Screen.kind /\ q.loads = Screen.loads
      /\ q.seen = Screen.seen /\ q.thread = Screen.thread /\ q.open = Screen.open
      /\ q.busy = Screen.busy \cup {"send"}
  BY BusiesIs
<1>3. Screen = stack[Top] /\ Top \in DOMAIN stack /\ stack \in Stacks /\ db \in Bases
  BY TopIs
<1>4. Steady(stack[Top], q)
  BY <1>2, <1>3, GrownSame DEF Steady, SameView
<1>5. s \in Stacks /\ SteadyStack(stack, s) /\ Roomy(s) /\ Shape(stack, s)
  <2>1. s \in Stacks /\ SteadyStack(stack, s)
    BY <1>2, <1>3, <1>4, SetIs, SteadySet
  <2>2. Shape(stack, s)
    BY <1>2, <1>3, SetShape
  <2>3. Roomy(s)
    BY <1>1, <1>2, <1>3, RoomIs, RoomySame, ZenonT(30)
  <2> QED BY <2>1, <2>2, <2>3
<1>6. Placed(ts, stack) /\ CalmTasks(tasks, ts, stack)
  BY <1>1, SendTask
<1>7. Placed(ts, s)
  BY <1>3, <1>5, <1>6, PlacedKept
<1>8. db' = [db EXCEPT !.msgs[m] = "sending"] /\ Tell(s, ts)
  BY <1>2 DEF SendText, Writes
<1>9. db' \in Bases /\ db'.lock = db.lock /\ db'.there = db.there /\ db'.pend = db.pend
  <2>1. "sending" \in States
    BY DEF States, Mine
  <2> QED BY <1>3, <1>8, <2>1, OneMsg
<1> QED BY <1>1, <1>5, <1>6, <1>7, <1>8, <1>9, Spent, ToldCalm

LEMMA SendPhotoCalm == ASSUME Types, NEW m \in Msgs, SendPhoto(m) PROVE Calm
<1> PICK ts : ts = tasks \cup {[op |-> "send", at |-> Top, m |-> m, text |-> FALSE]}
  OBVIOUS
<1>1. Screen.kind = "chat" /\ Roomy(stack) /\ UNCHANGED <<scene, log, phone>> /\ Spend
  BY RoomIs DEF SendPhoto, Composer, InChat, Shows, On, Writes
<1>2. stack \in Stacks /\ db \in Bases /\ SteadyStack(stack, stack)
  BY TopIs, SteadySame
<1>3. Placed(ts, stack) /\ CalmTasks(tasks, ts, stack)
  BY <1>1, SendTask
<1>4. db' = [db EXCEPT !.msgs[m] = "sending"] /\ Tell(stack, ts)
  BY DEF SendPhoto, Writes
<1>5. db' \in Bases /\ db'.lock = db.lock /\ db'.there = db.there /\ db'.pend = db.pend
  BY <1>2, <1>4, OneMsg, ZenonT(30) DEF States, Mine
<1> QED BY <1>1, <1>2, <1>3, <1>4, <1>5, Spent, ToldCalm

\* A read asked of one screen with room, and a write told to all.
LEMMA AskedIs ==
    ASSUME Types, NEW i \in DOMAIN stack, NEW x \in Items, x.what # "put", x.then # "answer",
           stack[i].kind = "chat" \/ x.then = "", Len(stack[i].loads) < MaxLoads
    PROVE  LET s == [stack EXCEPT ![i] = Queue(@, x)] IN
           /\ s = Set(stack, i, Queue(stack[i], x)) /\ Queue(stack[i], x) \in Mounted
           /\ Steady(stack[i], Queue(stack[i], x)) /\ Queue(stack[i], x).list = stack[i].list
           /\ s \in Stacks /\ SteadyStack(stack, s) /\ Shape(stack, s)
<1>1. stack \in Stacks /\ stack[i] \in Mounted
  BY TopIs
<1>2. Queue(stack[i], x) \in Mounted /\ Steady(stack[i], Queue(stack[i], x)) /\ Queue(stack[i], x).list = stack[i].list
  BY <1>1, QueueSteady
<1>3. [stack EXCEPT ![i] = Queue(@, x)] = Set(stack, i, Queue(stack[i], x))
  BY DEF Set
<1>4. Queue(stack[i], x).kind = stack[i].kind
  BY <1>2 DEF Steady, SameView
<1> DEFINE q == Queue(stack[i], x)
<1> HIDE DEF q
<1>5. q \in Mounted /\ Steady(stack[i], q) /\ q.list = stack[i].list /\ q.kind = stack[i].kind
  BY <1>2, <1>4 DEF q
<1>6. Set(stack, i, q) \in Stacks /\ SteadyStack(stack, Set(stack, i, q)) /\ Shape(stack, Set(stack, i, q))
  BY <1>1, <1>5, SetIs, SetShape, SteadySet
<1> QED BY <1>2, <1>3, <1>6 DEF q

LEMMA SendEndsCalm == ASSUME Types, NEW t \in tasks, SendEnds(t) PROVE Calm
<1> PICK x : x = Read("thread", IF t.text THEN "send" ELSE "")
  OBVIOUS
<1> PICK s : s = IF t.at = 0 THEN stack ELSE [stack EXCEPT ![t.at] = Queue(@, x)]
  OBVIOUS
<1>1. /\ t.op = "send" /\ Roomy(s) /\ Roomy(stack) /\ Tell(s, tasks \ {t}) /\ UNCHANGED <<scene, left, log, phone>>
      /\ db' = [db EXCEPT !.msgs[t.m] = IF db.msgs[t.m] = "sending" THEN "sent" ELSE db.msgs[t.m]]
  BY RoomIs DEF SendEnds, Writes, Roomy
<1>2. stack \in Stacks /\ db \in Bases /\ t \in Tasks /\ t.at \in 0..Len(stack) /\ (t.at # 0 => stack[t.at].kind = "chat")
      /\ t.m \in Msgs /\ DOMAIN stack = 1..Len(stack)
  <2>1. t \in Tasks /\ t.at \in 0..Len(stack) /\ (t.at # 0 => stack[t.at].kind = "chat")
    BY <1>1 DEF Types, Placed, From
  <2>2. t.m \in Msgs
    BY <1>1, <2>1, TaskIs
  <2> QED BY <2>1, <2>2, TopIs
<1>3. x \in Items /\ x.what # "put" /\ x.then # "answer"
  BY ReadIs
<1>4. s \in Stacks /\ SteadyStack(stack, s) /\ Shape(stack, s)
  <2>1. CASE t.at = 0
    BY <1>2, <2>1, SteadySame DEF Shape
  <2>2. CASE t.at # 0
    <3>1. t.at \in DOMAIN stack
      BY <1>2, <2>2, TopIs, Somewhere
    <3>2. Len(stack[t.at].loads) < MaxLoads
      BY <1>1, <3>1 DEF Roomy
    <3> QED BY <1>2, <1>3, <2>2, <3>1, <3>2, AskedIs
  <2> QED BY <2>1, <2>2
<1>5. Placed(tasks \ {t}, s) /\ CalmTasks(tasks, tasks \ {t}, stack)
  BY <1>2, <1>4, PlacedLess, PlacedKept, CalmLess DEF Types
<1>6. db' \in Bases /\ db'.lock = db.lock /\ db'.there = db.there /\ db'.pend = db.pend
  <2>a. PICK m : m = t.m
    OBVIOUS
  <2>b. PICK v : v = IF db.msgs[m] = "sending" THEN "sent" ELSE db.msgs[m]
    OBVIOUS
  <2>1. db \in Bases /\ m \in Msgs /\ v \in States
    BY <1>2, <2>a, <2>b DEF Bases, States, Mine
  <2>2. db' = [db EXCEPT !.msgs[m] = v]
    BY <1>1, <2>a, <2>b
  <2>c. PICK c : c = [db EXCEPT !.msgs[m] = v]
    OBVIOUS
  <2>3. c \in Bases /\ c.lock = db.lock /\ c.there = db.there /\ c.pend = db.pend
    BY <2>1, <2>c, OneMsg
  <2> QED BY <2>2, <2>c, <2>3
<1>7. left' \in 0..MaxWrites
  BY <1>1 DEF Types
<1> QED BY <1>1, <1>4, <1>5, <1>6, <1>7, ToldCalm

\* One screen changes its menu, its sheet, or what keeps its handlers from running twice.
LEMMA MenuCalm ==
    ASSUME Types, NEW i \in DOMAIN stack, NEW q \in Mounted, stack' = Set(stack, i, q),
           q.kind = stack[i].kind, q.scanned = stack[i].scanned, q.seen = stack[i].seen, q.thread = stack[i].thread, q.loads = stack[i].loads,
           q.list = stack[i].list,
           stack[i].kind = "chat" => q.open = stack[i].open /\ q.busy = stack[i].busy,
           Placed(tasks', stack), CalmTasks(tasks, tasks', stack), UNCHANGED <<scene, left, db, log, phone>>
    PROVE  Calm
<1>1. Steady(stack[i], q)
  BY GrownSame DEF Steady, SameView
<1> QED BY <1>1, SetCalm

LEMMA SameTasks == ASSUME Types, tasks' = tasks PROVE Placed(tasks', stack) /\ CalmTasks(tasks, tasks', stack)
BY DEF Types, CalmTasks

LEMMA OpenMenuCalm == ASSUME Types, NEW m \in Msgs, OpenMenu(m) PROVE Calm
<1> PICK q : q = [Screen EXCEPT !.sheet = m]
  OBVIOUS
<1>1. Screen \in Mounted /\ Screen = stack[Top] /\ Top \in DOMAIN stack
  BY TopIs
<1>2. stack' = Set(stack, Top, q) /\ UNCHANGED <<scene, left, db, log, phone, tasks>>
  BY <1>1 DEF OpenMenu, Set
<1> QED BY <1>1, <1>2, SheetIs, SameTasks, MenuCalm, ZenonT(30)

LEMMA CloseSheetCalm == ASSUME Types, CloseSheet PROVE Calm
<1> PICK q : q = [Screen EXCEPT !.sheet = Nothing]
  OBVIOUS
<1>1. Screen \in Mounted /\ Screen = stack[Top] /\ Top \in DOMAIN stack
  BY TopIs
<1>2. stack' = Set(stack, Top, q) /\ UNCHANGED <<scene, left, db, log, phone, tasks>>
  BY <1>1 DEF CloseSheet, Set
<1> QED BY <1>1, <1>2, SheetIs, SameTasks, MenuCalm, ZenonT(30)

LEMMA OpenLockSheetCalm == ASSUME Types, OpenLockSheet PROVE Calm
<1>a. PICK r : r = [Screen EXCEPT !.sheet = "lock"]
  OBVIOUS
<1>b. PICK q : q = [r EXCEPT !.open = phone.released]
  OBVIOUS
<1>1. Screen \in Mounted /\ Screen = stack[Top] /\ Top \in DOMAIN stack /\ Screen.kind = "contact" /\ phone.released \in BOOLEAN
  BY TopIs DEF OpenLockSheet, InPage, Shows, On, Phones
<1>2. stack' = Set(stack, Top, q) /\ UNCHANGED <<scene, left, db, log, phone, tasks>>
  <2>1. [stack EXCEPT ![Top].sheet = "lock", ![Top].open = phone.released] = Set(stack, Top, q)
    BY <1>a, <1>b, <1>1, TopIs DEF Set, Stacks, Mounted, Entries
  <2> QED BY <2>1 DEF OpenLockSheet
<1>3. /\ q \in Mounted /\ q.kind = Screen.kind /\ q.scanned = Screen.scanned /\ q.seen = Screen.seen /\ q.thread = Screen.thread
      /\ q.loads = Screen.loads /\ q.list = Screen.list
  <2>1. /\ r \in Mounted /\ r.kind = Screen.kind /\ r.scanned = Screen.scanned /\ r.seen = Screen.seen /\ r.thread = Screen.thread
        /\ r.loads = Screen.loads /\ r.list = Screen.list
    BY <1>a, <1>1, SheetIs
  <2>a. PICK o : o = phone.released
    OBVIOUS
  <2>2. o \in BOOLEAN
    BY <1>1, <2>a
  <2>3. /\ [r EXCEPT !.open = o] \in Mounted /\ [r EXCEPT !.open = o].kind = r.kind
        /\ [r EXCEPT !.open = o].scanned = r.scanned /\ [r EXCEPT !.open = o].seen = r.seen
        /\ [r EXCEPT !.open = o].thread = r.thread
        /\ [r EXCEPT !.open = o].loads = r.loads /\ [r EXCEPT !.open = o].list = r.list
    BY <2>1, <2>2, OpenIs
  <2>4. q = [r EXCEPT !.open = o]
    BY <1>b, <2>a
  <2> QED BY <2>1, <2>3, <2>4
<1> QED BY <1>1, <1>2, <1>3, SameTasks, MenuCalm

LEMMA FallsBackCalm ==
    ASSUME Types, FallsBack, Manages, UNCHANGED <<scene, left, log>>
    PROVE  Calm
<1> PICK q : q = [Screen EXCEPT !.open = FALSE]
  OBVIOUS
<1>1. Screen \in Mounted /\ Screen = stack[Top] /\ Top \in DOMAIN stack /\ Screen.kind = "contact"
  BY TopIs DEF Manages, ManagePanel, InSheet
<1>2. stack' = Set(stack, Top, q) /\ UNCHANGED <<scene, left, db, log, phone, tasks>>
  BY <1>1 DEF FallsBack, Set
<1> QED BY <1>1, <1>2, OpenIs, SameTasks, MenuCalm

LEMMA AddTask ==
    ASSUME Types, Screen.kind = "scan"
    PROVE  LET ts == tasks \cup {[op |-> "add", at |-> Top]}
           IN  Placed(ts, stack) /\ CalmTasks(tasks, ts, stack)
<1> PICK t : t = [op |-> "add", at |-> Top]
  OBVIOUS
<1>1. t \in Tasks /\ t.at = Top /\ t.op = "add" /\ Top \in 0..Len(stack) /\ stack[Top].kind = "scan" /\ Top = Len(stack)
  BY TopIs DEF Tasks
<1>2. Placed(tasks \cup {t}, stack)
  BY <1>1, PlacedMore DEF From, Types
<1> QED BY <1>1, <1>2 DEF CalmTasks

LEMMA ScanCodeCalm == ASSUME Types, ScanCode PROVE Calm
<1> PICK q : q = [Screen EXCEPT !.busy = @ \cup {"scan"}]
  OBVIOUS
<1>1. Screen = stack[Top] /\ Top \in DOMAIN stack /\ Screen.kind = "scan"
  BY TopIs DEF ScanCode, On
<1>2. stack' = Busies("scan") /\ tasks' = tasks \cup {[op |-> "add", at |-> Top]} /\ UNCHANGED <<scene, left, db, log, phone>>
  BY DEF ScanCode
<1>3. /\ Busies("scan") = Set(stack, Top, q) /\ q \in Mounted /\ q.list = Screen.list
      /\ q.kind = Screen.kind /\ q.scanned = Screen.scanned /\ q.loads = Screen.loads /\ q.seen = Screen.seen /\ q.thread = Screen.thread
  BY BusiesIs
<1> QED BY <1>1, <1>2, <1>3, AddTask, MenuCalm

LEMMA ScanFailsCalm == ASSUME Types, NEW t \in tasks, ScanFails(t) PROVE Calm
<1>1. t.op = "add" /\ tasks' = tasks \ {t} /\ UNCHANGED <<scene, left, db, log, phone>>
      /\ stack' = IF t.at = 0 THEN stack ELSE [stack EXCEPT ![t.at].busy = {"refused"}]
  BY DEF ScanFails
<1>2. t \in Tasks /\ t.at \in 0..Len(stack) /\ (t.at # 0 => stack[t.at].kind # "chat") /\ DOMAIN stack = 1..Len(stack)
  BY <1>1, TopIs DEF Types, Placed, From
<1>3. Placed(tasks', stack) /\ CalmTasks(tasks, tasks', stack)
  BY <1>1, PlacedLess, CalmLess DEF Types
<1>4. CASE t.at = 0
  BY <1>1, <1>3, <1>4, StillCalm DEF Types
<1>5. CASE t.at # 0
  <2> PICK q : q = [stack[t.at] EXCEPT !.busy = {"refused"}]
    OBVIOUS
  <2>1. t.at \in DOMAIN stack /\ stack[t.at] \in Mounted
    BY <1>2, <1>5, TopIs
  <2>2. stack' = Set(stack, t.at, q)
    BY <1>1, <1>5 DEF Set
  <2>3. {"refused"} \in SUBSET {"send", "answer", "gate", "scan", "refused"}
    OBVIOUS
  <2>4. /\ q \in Mounted /\ q.kind = stack[t.at].kind /\ q.scanned = stack[t.at].scanned /\ q.seen = stack[t.at].seen /\ q.thread = stack[t.at].thread
        /\ q.loads = stack[t.at].loads /\ q.list = stack[t.at].list
    BY <2>1, <2>3, BusyIs
  <2> QED BY <1>1, <1>2, <1>3, <1>5, <2>1, <2>2, <2>4, MenuCalm
<1> QED BY <1>4, <1>5

LEMMA ScanAgainCalm == ASSUME Types, ScanAgain PROVE Calm
<1> PICK q : q = [Screen EXCEPT !.busy = {}]
  OBVIOUS
<1>1. Screen \in Mounted /\ Screen = stack[Top] /\ Top \in DOMAIN stack /\ Screen.kind # "chat"
  BY TopIs DEF ScanAgain, On
<1>2. stack' = Set(stack, Top, q) /\ UNCHANGED <<scene, left, db, log, phone, tasks>>
  BY <1>1 DEF ScanAgain, Set
<1>3. {} \in SUBSET {"send", "answer", "gate", "scan", "refused"}
  OBVIOUS
<1>4. /\ q \in Mounted /\ q.kind = Screen.kind /\ q.scanned = Screen.scanned /\ q.seen = Screen.seen /\ q.thread = Screen.thread
      /\ q.loads = Screen.loads /\ q.list = Screen.list
  BY <1>1, <1>3, BusyIs, ZenonT(30)
<1> QED BY <1>1, <1>2, <1>4, SameTasks, MenuCalm

LEMMA AddAnywayCalm == ASSUME Types, AddAnyway PROVE Calm
<1>1. Screen.kind = "scan" /\ tasks' = tasks \cup {[op |-> "add", at |-> Top]}
      /\ UNCHANGED <<scene, left, db, log, phone, stack>>
  BY DEF AddAnyway, On
<1>2. phone' \in Phones
  BY <1>1 DEF Types
<1> QED BY <1>1, <1>2, AddTask, StillCalm

LEMMA BackgroundCalm == ASSUME Types, Background PROVE Calm
<1>1. phone' = [phone EXCEPT !.fg = FALSE] /\ UNCHANGED <<scene, left, db, log, stack, tasks>>
  BY DEF Background
<1>2. phone' \in Phones /\ phone'.locked = phone.locked /\ phone'.released = phone.released
  BY <1>1 DEF Types, Phones
<1> QED BY <1>1, <1>2, SameTasks, StillCalm

LEMMA ForegroundCalm == ASSUME Types, Foreground PROVE Calm
<1>1. phone' = [phone EXCEPT !.fg = TRUE] /\ UNCHANGED <<scene, left, db, log>>
  BY DEF Foreground
<1>2. phone' \in Phones /\ phone'.locked = phone.locked /\ phone'.released = phone.released
  BY <1>1 DEF Types, Phones
<1>3. CASE UNCHANGED <<stack, tasks>>
  BY <1>1, <1>2, <1>3, SameTasks, StillCalm
<1>4. CASE Focus(stack, tasks)
  <2>1. stack \in Stacks /\ Top = Len(stack) /\ Top \in DOMAIN stack /\ stack[Top] \in Mounted
    BY TopIs
  <2>2. Roomy(stack)
    BY <1>4, RoomIs DEF Focus
  <2>3. Len(stack[Top].loads) < MaxLoads
    BY <2>1, <2>2 DEF Roomy
  <2>4. /\ stack' = Set(stack, Top, Hears(stack[Top])) /\ stack' \in Stacks
        /\ tasks' = tasks \cup Marks(stack, TRUE) /\ Placed(tasks', stack')
    BY <1>4, <2>1, <2>3, FocusIs DEF Types
  <2>5. Steady(stack[Top], Hears(stack[Top])) /\ Hears(stack[Top]) \in Mounted
    BY <2>1, <2>3, HearsSteady, HearsIs
  <2>6. SteadyStack(stack, stack') /\ stack'[Top] = Hears(stack[Top])
    BY <2>1, <2>4, <2>5, SteadySet, SetIs
  <2>7. UpToDate(stack'[Top], db')
    BY <2>1, <2>3, <2>6, HearsFresh
  <2>8. CalmTasks(tasks, tasks', stack)
    BY <2>1, <2>4, CalmLess, CalmMarks
  <2> QED BY <1>1, <1>2, <2>4, <2>6, <2>7, <2>8 DEF Calm, Ordinary, Types
<1> QED BY <1>3, <1>4 DEF Foreground

\* The menu closes, the chat reads its thread, and the database may lose a message.
LEMMA DeletesCalm ==
    ASSUME Types, InMenu, NEW d \in Bases, Deletes(d), d.lock = db.lock, d.there = db.there, d.pend = db.pend
    PROVE  Calm
<1> PICK x : x = Read("thread", "")
  OBVIOUS
<1> PICK e : e = [Screen EXCEPT !.sheet = Nothing]
  OBVIOUS
<1> PICK q : q = Queue(e, x)
  OBVIOUS
<1> PICK s : s = Set(stack, Top, q)
  OBVIOUS
<1>1. Screen \in Mounted /\ Screen = stack[Top] /\ Top \in DOMAIN stack /\ stack \in Stacks /\ Screen.kind = "chat"
  BY TopIs DEF InMenu, InChat, Shows, On
<1>2. s = [stack EXCEPT ![Top] = Queue([@ EXCEPT !.sheet = Nothing], Read("thread", ""))]
  BY <1>1 DEF Set
<1>3. Roomy(s) /\ UNCHANGED <<scene, log, phone>>
  BY <1>2 DEF Deletes, Roomy
<1>0. Nothing \in Msgs \cup {"lock", Nothing}
  OBVIOUS
<1>4. /\ e \in Mounted /\ e.kind = Screen.kind /\ e.scanned = Screen.scanned /\ e.seen = Screen.seen /\ e.thread = Screen.thread
      /\ e.loads = Screen.loads /\ e.list = Screen.list /\ e.busy = Screen.busy /\ e.open = Screen.open
  BY <1>0, <1>1, SheetIs, ZenonT(30)
<1>5. x \in Items /\ x.what # "put" /\ x.then = ""
  BY ReadIs
<1>6. q \in Entries
  BY <1>4, <1>5, MountedIs, QueueIs
<1>7. s[Top] = q
  BY <1>1 DEF Set, Stacks
<1>8. Len(e.loads) < MaxLoads
  <2>1. Len(q.loads) < MaxLoads
    <3>1. DOMAIN s = DOMAIN stack
      BY DEF Set
    <3> QED BY <1>1, <1>3, <1>7, <3>1 DEF Roomy
  <2> QED BY <1>4, <1>5, <2>1, QueueRoom
<1>9. q \in Mounted /\ Steady(e, q) /\ q.list = e.list
  BY <1>4, <1>5, <1>8, QueueSteady
<1>10. Steady(stack[Top], q) /\ q.list = stack[Top].list
  <2>1. Steady(Screen, e)
    BY <1>4, GrownSame DEF Steady, SameView
  <2> QED BY <1>1, <1>4, <1>9, <2>1, SteadyTrans
<1>11. s \in Stacks /\ SteadyStack(stack, s) /\ Shape(stack, s)
  <2>1. q.kind = stack[Top].kind
    BY <1>10 DEF Steady, SameView
  <2> QED BY <1>1, <1>9, <1>10, <2>1, SetIs, SetShape, SteadySet
<1>12. CASE d = db
  <2>1. stack' = s /\ UNCHANGED <<left, db, tasks>>
    BY <1>2, <1>12 DEF Deletes
  <2> QED BY <1>1, <1>3, <1>9, <1>10, <2>1, SameTasks, SetCalm
<1>13. CASE d # db
  <2>1. Spend /\ db' = d /\ Tell(s, tasks)
    BY <1>2, <1>13 DEF Deletes, Writes
  <2>2. Placed(tasks, s) /\ CalmTasks(tasks, tasks, stack)
    BY <1>1, <1>11, PlacedKept, CalmLess DEF Types
  <2> QED BY <1>3, <1>11, <2>1, <2>2, Spent, ToldCalm
<1> QED BY <1>12, <1>13

LEMMA DeleteForMeCalm == ASSUME Types, DeleteForMe PROVE Calm
<1>1. InMenu /\ Screen.sheet \in Msgs /\ Deletes([db EXCEPT !.msgs[Screen.sheet] = "none"]) /\ db \in Bases
  BY TopIs DEF DeleteForMe, InMenu
<1> PICK m : m = Screen.sheet
  OBVIOUS
<1> PICK d : d = [db EXCEPT !.msgs[m] = "none"]
  OBVIOUS
<1>2. d \in Bases /\ d.lock = db.lock /\ d.there = db.there /\ d.pend = db.pend
  BY <1>1, OneMsg DEF States
<1> QED BY <1>1, <1>2, DeletesCalm

LEMMA DeleteForEveryoneCalm == ASSUME Types, DeleteForEveryone PROVE Calm
<1> PICK m : m = Screen.sheet
  OBVIOUS
<1> PICK c : c = [db EXCEPT !.msgs[m] = "none"]
  OBVIOUS
<1> PICK d : d = IF db.msgs[m] \in Mine THEN c ELSE db
  OBVIOUS
<1>1. InMenu /\ m \in Msgs /\ Deletes(d) /\ db \in Bases
  BY TopIs DEF DeleteForEveryone, MenuRetracts, InMenu
<1>2. c \in Bases /\ c.lock = db.lock /\ c.there = db.there /\ c.pend = db.pend
  BY <1>1, OneMsg DEF States
<1> QED BY <1>1, <1>2, DeletesCalm

LEMMA ClearChatCalm == ASSUME Types, ClearChat PROVE Calm
<1> PICK d : d = [db EXCEPT !.msgs = NoMessages]
  OBVIOUS
<1>1. Writes(d, stack, tasks) /\ Spend /\ UNCHANGED <<scene, log, phone>>
  BY DEF ClearChat
<1>2. NoMessages \in [Msgs -> States] /\ db \in Bases
  BY TopIs DEF NoMessages, States
<1>3. d \in Bases /\ d.lock = db.lock /\ d.there = db.there /\ d.pend = db.pend
  BY <1>2, MsgsIs
<1> QED BY <1>1, <1>3, Spent, WritesCalm

LEMMA PeerSendsCalm == ASSUME Types, NEW m \in Msgs, PeerSends(m) PROVE Calm
<1> PICK d : d = [db EXCEPT !.msgs[m] = "unread"]
  OBVIOUS
<1>1. Writes(d, stack, tasks) /\ Spend /\ UNCHANGED <<scene, log, phone>> /\ db \in Bases
  BY TopIs DEF PeerSends
<1>2. d \in Bases /\ d.lock = db.lock /\ d.there = db.there /\ d.pend = db.pend
  BY <1>1, OneMsg DEF States
<1> QED BY <1>1, <1>2, Spent, WritesCalm

LEMMA VanishesCalm == ASSUME Types, NEW m \in Msgs, Vanishes(m) PROVE Calm
<1> PICK d : d = [db EXCEPT !.msgs[m] = "none"]
  OBVIOUS
<1>1. Writes(d, stack, tasks) /\ Spend /\ UNCHANGED <<scene, log, phone>> /\ db \in Bases
  BY TopIs DEF Vanishes
<1>2. d \in Bases /\ d.lock = db.lock /\ d.there = db.there /\ d.pend = db.pend
  BY <1>1, OneMsg DEF States
<1> QED BY <1>1, <1>2, Spent, WritesCalm

LEMMA PeerEndsCalm == ASSUME Types, NEW k \in Asks, PeerEnds(k) PROVE Calm
<1> PICK d : d = [db EXCEPT !.pend[k] = "none"]
  OBVIOUS
<1>1. Writes(d, stack, tasks) /\ Spend /\ UNCHANGED <<scene, log, phone>> /\ db \in Bases
  BY TopIs DEF PeerEnds
<1>2. d \in Bases /\ d.lock = db.lock /\ d.there = db.there /\ \A j \in Asks : d.pend[j] \in {db.pend[j], "none"}
  <2>1. "none" \in Requests
    BY DEF Requests
  <2>2. d \in Bases /\ d.lock = db.lock /\ d.there = db.there /\ \A j \in Asks : d.pend[j] = IF j = k THEN "none" ELSE db.pend[j]
    BY <1>1, <2>1, OnePend
  <2> QED BY <2>2
<1> QED BY <1>1, <1>2, Spent, WritesCalm

LEMMA PeerConfirmsCalm == ASSUME Types, PeerConfirms PROVE Calm
<1> PICK d : d = [db EXCEPT !.peer = TRUE]
  OBVIOUS
<1>1. Writes(d, stack, tasks) /\ UNCHANGED <<scene, left, log, phone>> /\ db \in Bases
  BY TopIs DEF PeerConfirms
<1>2. d \in Bases /\ d.lock = db.lock /\ d.there = db.there /\ d.pend = db.pend
  BY <1>1 DEF Bases
<1>3. left' \in 0..MaxWrites
  BY <1>1 DEF Types
<1> QED BY <1>1, <1>2, <1>3, WritesCalm

LEMMA ConfirmCalm == ASSUME Types, Confirm PROVE Calm
<1> PICK x : x = Read("row", "")
  OBVIOUS
<1> PICK s : s = [stack EXCEPT ![Top] = Queue(@, x)]
  OBVIOUS
<1>1. Roomy(s) /\ Roomy(stack) /\ Tell(s, tasks) /\ db' = [db EXCEPT !.local = db.there]
      /\ UNCHANGED <<scene, left, log, phone>>
  BY RoomIs DEF Confirm, Writes, Roomy
<1>2. x \in Items /\ x.what # "put" /\ x.then = "" /\ Top \in DOMAIN stack /\ stack \in Stacks /\ db \in Bases
  BY ReadIs, TopIs
<1>3. s \in Stacks /\ SteadyStack(stack, s) /\ Shape(stack, s)
  <2>1. Len(stack[Top].loads) < MaxLoads
    BY <1>1, <1>2 DEF Roomy
  <2> QED BY <1>2, <2>1, AskedIs
<1>4. Placed(tasks, s) /\ CalmTasks(tasks, tasks, stack)
  BY <1>2, <1>3, PlacedKept, CalmLess DEF Types
<1>5. db' \in Bases /\ db'.lock = db.lock /\ db'.there = db.there /\ db'.pend = db.pend
  BY <1>1, <1>2 DEF Bases
<1>6. left' \in 0..MaxWrites
  BY <1>1 DEF Types
<1> QED BY <1>1, <1>3, <1>4, <1>5, <1>6, ToldCalm

\* A read that waits makes the screen current, whatever the row will hold.
LEMMA RowFresh ==
    ASSUME NEW e \in Mounted, NEW x \in Items, x.what = "row", e.kind \in Readers, NEW d
    PROVE  UpToDate(Queue(e, x), d)
<1>1. Queue(e, x).loads = Queued(e.loads, x) /\ Queue(e, x).kind = e.kind /\ e.loads \in Seq(Items)
  BY MountedIs, QueueIs DEF Alike
<1> DEFINE m == Queued(e.loads, x)
<1>2. m \in Seq(Items) /\ Len(m) >= 1 /\ Len(m) \in Nat /\ m[Len(m)] = x
  BY <1>1, QueuedIs
<1>3. Queue(e, x).loads = m
  BY <1>1
<1> HIDE DEF m
<1>4. Len(m) \in DOMAIN m
  BY <1>2, LastIn
<1>5. HasRow(Queue(e, x)) /\ HasRead(Queue(e, x))
  BY <1>2, <1>3, <1>4 DEF HasRow, HasRead
<1> QED BY <1>1, <1>5 DEF UpToDate, Readers

LEMMA ReportBlocksCalm == ASSUME Types, ReportBlocks PROVE Calm
<1> PICK x : x = Read("row", "")
  OBVIOUS
<1> PICK s : s = [stack EXCEPT ![Top] = Queue(@, x)]
  OBVIOUS
<1>1. Roomy(stack) /\ stack' = s /\ db' = [db EXCEPT !.blocked = TRUE] /\ UNCHANGED <<scene, left, log, phone, tasks>>
  BY RoomIs DEF ReportBlocks
<1>2. x \in Items /\ x.what = "row" /\ x.then = "" /\ Top \in DOMAIN stack /\ stack \in Stacks /\ db \in Bases
      /\ Screen = stack[Top] /\ Screen.kind = "chat" /\ Screen \in Mounted
  BY ReadIs, TopIs DEF ReportBlocks, InChat, Shows, On
<1>3. /\ s \in Stacks /\ SteadyStack(stack, s) /\ Shape(stack, s)
      /\ s = Set(stack, Top, Queue(stack[Top], x)) /\ Queue(stack[Top], x) \in Mounted
  <2>1. Len(stack[Top].loads) < MaxLoads
    BY <1>1, <1>2 DEF Roomy
  <2> QED BY <1>2, <2>1, AskedIs
<1>4. Placed(tasks', stack') /\ CalmTasks(tasks, tasks', stack)
  BY <1>1, <1>2, <1>3, PlacedKept, SameTasks
<1>5. db' \in Bases /\ db'.lock = db.lock /\ db'.there = db.there /\ db'.pend = db.pend
  BY <1>1, <1>2 DEF Bases
<1>6. UpToDate(stack'[Top], db')
  <2>1. stack'[Top] = Queue(stack[Top], x)
    BY <1>1, <1>2, <1>3, SetIs
  <2> QED BY <1>2, <2>1, RowFresh DEF Readers
<1> QED BY <1>1, <1>3, <1>4, <1>5, <1>6 DEF Calm, Ordinary, Types

LEMMA BottomKept ==
    ASSUME NEW s \in Stacks, NEW q \in Stacks, Shape(s, q), NEW ts, NEW us, Bottom(s, ts),
           \A t \in us : t.op = "add" => t \in ts \/ (t.at = Len(s) /\ s[t.at].kind = "scan")
    PROVE  Bottom(q, us)
BY StackIs DEF Bottom, Shape

LEMMA SteadyShape == ASSUME NEW s \in Stacks, NEW q, SteadyStack(s, q) PROVE Shape(s, q)
BY DEF SteadyStack, Steady, SameView, Shape

LEMMA CalmBottom == ASSUME Types, Bottom(stack, tasks), Calm PROVE Bottom(stack', tasks')
<1>1. stack \in Stacks /\ stack' \in Stacks /\ Shape(stack, stack')
  BY TopIs, SteadyShape DEF Calm, Types, Ordinary
<1>2. \A t \in tasks' : t.op = "add" => t \in tasks \/ (t.at = Len(stack) /\ stack[t.at].kind = "scan")
  BY DEF Calm, Ordinary, CalmTasks
<1> QED BY <1>1, <1>2, BottomKept

\* What the requests need of a step that is not about them.
LEMMA AnsweringSame ==
    ASSUME NEW s \in Stacks, NEW q \in Stacks, SteadyStack(s, q), NEW d, NEW c, NEW lg, NEW ts, NEW us,
           Answering(s, d, lg, ts), \A t \in us : IsAnswer(t) => t \in ts,
           \A k \in Asks : c.pend[k] \in {d.pend[k], "none"}
    PROVE  Answering(q, c, lg, us)
<1>1. Len(q) = Len(s) /\ \A i \in DOMAIN s :
           /\ q[i].kind = s[i].kind /\ Unanswered(s[i].loads, q[i].loads)
           /\ (s[i].kind = "chat" => ("answer" \in q[i].busy <=> "answer" \in s[i].busy))
  BY DEF SteadyStack, Steady, SameView
<1> QED BY <1>1, AnsweringKept

LEMMA CalmAnswering ==
    ASSUME Types, Answering(stack, db, log, tasks), Calm
    PROVE  Answering(stack', db', log', tasks')
<1>1. stack \in Stacks /\ stack' \in Stacks /\ SteadyStack(stack, stack') /\ log' = log
  BY TopIs DEF Calm, Types, Ordinary
<1>2. \A t \in tasks' : IsAnswer(t) => t \in tasks
  BY DEF Calm, Ordinary, CalmTasks, IsAnswer
<1>3. \A k \in Asks : db'.pend[k] \in {db.pend[k], "none"}
  BY DEF Calm, Ordinary
<1> QED BY <1>1, <1>2, <1>3, AnsweringSame

\* What a screen comes to show, after a step in which no screen is put anything.
SameViews(s, q) == Len(q) = Len(s) /\ \A i \in DOMAIN s : SameView(s[i], q[i])

LEMMA FollowingKept ==
    ASSUME NEW s \in Stacks, NEW q \in Stacks, SameViews(s, q), NEW d, NEW c, NEW ph, NEW pj,
           Following(s, d, ph), ph.locked => pj.locked,
           UpToDate(q[Len(q)], c) \/ (c = d /\ q[Len(q)].list = s[Len(s)].list)
    PROVE  Following(q, c, pj)
<1>1. \A i \in DOMAIN q : PutsFirst(q[i])
  BY StackIs, PutsFirstKept DEF Following, SameViews, SameView
<1>2. ASSUME ~pj.locked PROVE UpToDate(q[Len(q)], c)
  <2>1. CASE UpToDate(q[Len(q)], c)
    BY <2>1
  <2>2. CASE c = d /\ q[Len(q)].list = s[Len(s)].list
    <3>1. Len(q) = Len(s) /\ Len(s) \in DOMAIN s /\ s[Len(s)] \in Mounted /\ q[Len(s)] \in Mounted
      BY StackIs DEF SameViews
    <3>2. UpToDate(s[Len(s)], d) /\ SameView(s[Len(s)], q[Len(s)])
      BY <1>2, <3>1 DEF Following, SameViews
    <3> QED BY <2>2, <3>1, <3>2, FreshKept
  <2> QED BY <2>1, <2>2
<1> QED BY <1>1, <1>2 DEF Following

LEMMA SteadyViews == ASSUME NEW s, NEW q, SteadyStack(s, q) PROVE SameViews(s, q)
BY DEF SteadyStack, Steady, SameViews

LEMMA CalmFollowing ==
    ASSUME Types, Following(stack, db, phone), Calm
    PROVE  Following(stack', db', phone')
<1>1. stack \in Stacks /\ stack' \in Stacks /\ SameViews(stack, stack') /\ phone'.locked = phone.locked
  BY TopIs, SteadyViews DEF Calm, Types, Ordinary
<1>2. UpToDate(stack'[Top], db') \/ (db' = db /\ stack'[Top].list = stack[Top].list)
  BY DEF Calm, Ordinary
<1>3. Len(stack) = Top /\ Len(stack') = Top
  BY <1>1, TopIs DEF SameViews
<1> QED BY <1>1, <1>2, <1>3, FollowingKept

LEMMA CalmGates ==
    ASSUME Types, Gates(stack, db, phone, tasks), Calm
    PROVE  Gates(stack', db', phone', tasks')
<1>1. stack \in Stacks /\ stack' \in Stacks /\ SteadyStack(stack, stack') /\ Placed(tasks', stack')
  BY TopIs DEF Calm, Types, Ordinary
<1>2. Len(stack') = Len(stack) /\ \A i \in DOMAIN stack : stack'[i].kind = stack[i].kind /\ stack'[i].scanned = stack[i].scanned
         /\ (stack[i].kind = "chat" => stack'[i].open = stack[i].open /\ stack'[i].seen = stack[i].seen)
  BY <1>1 DEF SteadyStack, Steady, SameView
<1>3. \A t \in tasks' : t \in tasks \/ t.op \in {"send", "answer"} \/ (t.op = "mark" /\ t.was = "?") \/ t.op = "add"
  BY DEF Calm, Ordinary, CalmTasks
<1>4. db'.lock = db.lock /\ db'.there = db.there /\ phone'.locked = phone.locked /\ phone'.released = phone.released
  BY DEF Calm, Ordinary
<1> QED BY <1>1, <1>2, <1>3, <1>4, GatesKept

-----------------------------------------------------------------------------
(* The types after the steps that the rest is about.                       *)

LEMMA TypesChanged ==
    ASSUME Types, NEW i, NEW q, Changes(i, q), Placed(tasks', stack), scene' = scene, left' \in 0..MaxWrites,
           db' \in Bases, phone' \in Phones
    PROVE  Types'
<1>1. stack' \in Stacks /\ Placed(tasks', stack')
  BY Changed
<1> QED BY <1>1 DEF Types

LEMMA MarkTask ==
    ASSUME Types, NEW i \in DOMAIN stack, stack[i].kind = "chat"
    PROVE  Placed(tasks \cup {Marking(i)}, stack)
<1>1. Marking(i) \in Tasks /\ Marking(i).at = i /\ Marking(i).op = "mark"
  BY TopIs DEF Marking, Tasks
<1>2. i \in 0..Len(stack) /\ "chat" \in From("mark")
  BY TopIs DEF From
<1> QED BY <1>1, <1>2, PlacedMore DEF Types

LEMMA LoadTypes == ASSUME Types, NEW i \in DOMAIN stack, Load(i) PROVE Types'
<1> PICK e : e = stack[i]
  OBVIOUS
<1>1. /\ e.loads # <<>> /\ UNCHANGED <<scene, left, db, log, phone>> /\ e \in Mounted
      /\ \/ Changes(i, AfterRow(e)) /\ tasks' = tasks
         \/ Changes(i, AfterThread(e)) /\ tasks' = IF Head(e.loads).then = "mark" THEN tasks \cup {Marking(i)} ELSE tasks
         \/ Changes(i, AfterPut(e)) /\ tasks' = tasks
  BY LoadIs, TopIs
<1>2. left' \in 0..MaxWrites /\ db' \in Bases /\ phone' \in Phones /\ scene' = scene
  BY <1>1 DEF Types
<1>3. Placed(tasks', stack)
  <2>1. CASE tasks' = tasks
    BY <2>1 DEF Types
  <2>2. CASE tasks' = tasks \cup {Marking(i)} /\ Head(e.loads).then = "mark"
    <3>1. e.kind = "chat"
      <4>1. Head(e.loads) = e.loads[1] /\ 1 \in DOMAIN e.loads /\ (e.kind = "chat" \/ Unasked(e))
        BY <1>1, MountedIs, QueueHead
      <4> QED BY <2>2, <4>1 DEF Unasked
    <3> QED BY <2>2, <3>1, MarkTask
  <2> QED BY <1>1, <2>1, <2>2
<1> QED BY <1>1, <1>2, <1>3, TypesChanged

LEMMA RowIs == ASSUME db \in Bases PROVE RowOf(db) \in Rows /\ NoRow \in Rows
<1>1. NoRow \in Rows
  BY DEF NoRow, Rows
<1>2. (\E m \in Msgs : db.msgs[m] = "unread") \in BOOLEAN /\ db.lock \in BOOLEAN
  BY DEF Bases
<1> QED BY <1>1, <1>2 DEF RowOf, Rows

ReadList(l) == [l EXCEPT !.read = <<RowOf(db)>>]
ShownList(l) ==
    [row |-> IF l.read[1].shown /\ db.there THEN [l.read[1] EXCEPT !.locked = db.lock] ELSE NoRow,
     loading |-> l.dirty, dirty |-> FALSE, read |-> <<>>]

\* A screen with another list.
Relisted(i, l) ==
    /\ Changes(i, [stack[i] EXCEPT !.list = l])
    /\ l \in Lists /\ (l.loading \/ l.read = <<>>)
    /\ UNCHANGED <<scene, left, db, log, phone, tasks>>

LEMMA ListReadsIs ==
    ASSUME Types, NEW i \in DOMAIN stack, ListReads(i)
    PROVE  Relisted(i, ReadList(stack[i].list)) /\ stack[i].list.loading
<1> PICK l : l = stack[i].list
  OBVIOUS
<1>1. stack[i] \in Mounted /\ l \in Lists /\ l.loading /\ RowOf(db) \in Rows
  BY TopIs, MountedIs, RowIs DEF ListReads
<1>2. ReadList(l) \in Lists /\ ReadList(l).loading
  <2>1. <<RowOf(db)>> \in Seq(Rows)
    BY <1>1
  <2>2. ReadList(l) = [l EXCEPT !.read = <<RowOf(db)>>]
    BY DEF ReadList
  <2> QED BY <1>1, <2>1, <2>2 DEF Lists
<1>3. stack' = Set(stack, i, [stack[i] EXCEPT !.list = ReadList(l)]) /\ UNCHANGED <<scene, left, db, log, phone, tasks>>
  <2>1. [stack EXCEPT ![i].list.read = <<RowOf(db)>>] = Set(stack, i, [stack[i] EXCEPT !.list = ReadList(l)])
    BY DEF Set, ReadList
  <2> QED BY <2>1 DEF ListReads
<1> QED BY <1>1, <1>2, <1>3, ListIs DEF Relisted, Changes

LEMMA ListShowsIs ==
    ASSUME Types, NEW i \in DOMAIN stack, ListShows(i)
    PROVE  Relisted(i, ShownList(stack[i].list)) /\ stack[i].list.read # <<>>
<1> PICK l : l = stack[i].list
  OBVIOUS
<1>1. stack[i] \in Mounted /\ l \in Lists /\ l.read \in Seq(Rows) /\ l.read # <<>> /\ NoRow \in Rows /\ db \in Bases
  BY TopIs, MountedIs, RowIs DEF ListShows
<1>2. ShownList(l) \in Lists /\ ShownList(l).read = <<>>
  <2>1. l.read[1] \in Rows
    BY <1>1
  <2>2. [l.read[1] EXCEPT !.locked = db.lock] \in Rows
    BY <1>1, <2>1 DEF Rows, Bases
  <2> QED BY <1>1, <2>2 DEF ShownList, Lists
<1>3. stack' = Set(stack, i, [stack[i] EXCEPT !.list = ShownList(l)]) /\ UNCHANGED <<scene, left, db, log, phone, tasks>>
  <2>1. [stack EXCEPT ![i].list = ShownList(l)] = Set(stack, i, [stack[i] EXCEPT !.list = ShownList(l)])
    BY DEF Set
  <2> QED BY <2>1 DEF ListShows, ShownList
<1> QED BY <1>1, <1>2, <1>3, ListIs DEF Relisted, Changes

LEMMA RelistedTypes == ASSUME Types, NEW i, NEW l, Relisted(i, l) PROVE Types'
BY TypesChanged DEF Relisted, Types

LEMMA MarkReadsIs ==
    ASSUME Types, NEW t \in tasks, MarkReads(t)
    PROVE  \E u \in Tasks : /\ u.op = "mark" /\ u.at = t.at /\ u.was = IF db.lock THEN "locked" ELSE "open"
                            /\ tasks' = (tasks \ {t}) \cup {u} /\ Types'
                            /\ UNCHANGED <<scene, left, db, log, phone, stack>>
<1> PICK u : u = [t EXCEPT !.was = IF db.lock THEN "locked" ELSE "open"]
  OBVIOUS
<1>1. t.op = "mark" /\ tasks' = (tasks \ {t}) \cup {u} /\ UNCHANGED <<scene, left, db, log, phone, stack>>
  BY DEF MarkReads
<1>2. t \in [op : {"mark"}, at : Nat, was : {"?", "locked", "open"}] /\ t.at \in 0..Len(stack)
      /\ (t.at # 0 => stack[t.at].kind \in From("mark"))
  BY <1>1, TaskIs DEF Types, Placed
<1>3. u \in Tasks /\ u.op = "mark" /\ u.at = t.at /\ u.was = IF db.lock THEN "locked" ELSE "open"
  BY <1>2 DEF Tasks
<1>4. Placed(tasks', stack')
  BY <1>1, <1>2, <1>3 DEF Types, Placed
<1> QED BY <1>1, <1>3, <1>4 DEF Types

LEMMA AnswerReadsIs ==
    ASSUME Types, NEW t \in tasks, AnswerReads(t)
    PROVE  \E u \in Tasks : /\ u.op = "answer" /\ u.at = t.at /\ u.k = t.k /\ u.was = db.pend[t.k] /\ t.op = "answer"
                            /\ tasks' = (tasks \ {t}) \cup {u} /\ Types' /\ t.k \in Asks
                            /\ UNCHANGED <<scene, left, db, log, phone, stack>>
<1> PICK u : u = [t EXCEPT !.was = db.pend[t.k]]
  OBVIOUS
<1>1. t.op = "answer" /\ tasks' = (tasks \ {t}) \cup {u} /\ UNCHANGED <<scene, left, db, log, phone, stack>>
  BY DEF AnswerReads
<1>2. /\ t \in [op : {"answer"}, at : Nat, k : Asks, yes : BOOLEAN, was : {"?"} \cup Requests] /\ t.at \in 0..Len(stack)
      /\ (t.at # 0 => stack[t.at].kind \in From("answer"))
  BY <1>1, TaskIs DEF Types, Placed
<1>3. db.pend[t.k] \in Requests
  BY <1>2 DEF Types, Bases
<1>4. u \in Tasks /\ u.op = "answer" /\ u.at = t.at /\ u.k = t.k /\ u.was = db.pend[t.k]
  BY <1>2, <1>3 DEF Tasks
<1>5. Placed(tasks', stack')
  BY <1>1, <1>2, <1>4 DEF Types, Placed
<1> QED BY <1>1, <1>2, <1>4, <1>5 DEF Types

LEMMA StartUnlockIs ==
    ASSUME Types, StartUnlock
    PROVE  LET q == [Screen EXCEPT !.busy = @ \cup {"gate"}]
               u == [op |-> "unlock", at |-> Top] IN
           /\ Changes(Top, q) /\ Steady(Screen, q) /\ q.list = Screen.list
           /\ tasks' = tasks \cup {u} /\ u \in Tasks /\ u.at = Top /\ u.op = "unlock"
           /\ Ready /\ (Screen.kind = "chat" => Gated(Screen))
           /\ UNCHANGED <<scene, left, db, log, phone>> /\ Types'
<1> PICK q : q = [Screen EXCEPT !.busy = @ \cup {"gate"}]
  OBVIOUS
<1> PICK u : u = [op |-> "unlock", at |-> Top]
  OBVIOUS
<1>1. Screen = stack[Top] /\ Top \in DOMAIN stack /\ Top \in Nat /\ Top \in 0..Len(stack)
  BY TopIs
<1>2. /\ Busies("gate") = Set(stack, Top, q) /\ q \in Mounted /\ q.list = Screen.list
      /\ q.kind = Screen.kind /\ q.scanned = Screen.scanned /\ q.loads = Screen.loads /\ q.seen = Screen.seen
      /\ q.thread = Screen.thread /\ q.open = Screen.open /\ q.busy = Screen.busy \cup {"gate"}
  BY BusiesIs
<1>3. stack' = Busies("gate") /\ tasks' = tasks \cup {u} /\ UNCHANGED <<scene, left, db, log, phone>>
  BY DEF StartUnlock, Busies
<1>4. u \in Tasks /\ u.at = Top /\ u.op = "unlock"
  BY <1>1 DEF Tasks
<1>5. Changes(Top, q)
  BY <1>1, <1>2, <1>3 DEF Changes
<1>6. Steady(Screen, q)
  BY <1>2, GrownSame DEF Steady, SameView
<1>7. Ready /\ Screen.kind \in {"chat", "contact"} /\ (Screen.kind = "chat" => Gated(Screen))
  BY DEF StartUnlock, AsksForCode, CodePanel, InSheet, Shows, On
<1>8. Placed(tasks', stack)
  BY <1>1, <1>3, <1>4, <1>7, PlacedMore DEF Types, From
<1>9. Types'
  BY <1>3, <1>5, <1>8, TypesChanged DEF Types
<1> QED BY <1>2, <1>3, <1>4, <1>5, <1>6, <1>7, <1>9

\* A handler's screen after the right code.
LEMMA UnlockedIs ==
    ASSUME NEW e \in Mounted, Len(e.loads) < MaxLoads
    PROVE  /\ Unlocked(e) \in Mounted /\ SameView(e, Unlocked(e)) /\ Unlocked(e).list = e.list
           /\ Unanswered(e.loads, Unlocked(e).loads)
           /\ Unlocked(e).open = TRUE /\ Unlocked(e).busy = e.busy \ {"gate"}
<1> PICK r : r = [e EXCEPT !.open = TRUE]
  OBVIOUS
<1> PICK f : f = [r EXCEPT !.busy = e.busy \ {"gate"}]
  OBVIOUS
<1> PICK x : x = Read("row", IF e.kind = "chat" THEN "mark" ELSE "")
  OBVIOUS
<1>1. /\ r \in Mounted /\ r.kind = e.kind /\ r.scanned = e.scanned /\ r.seen = e.seen /\ r.thread = e.thread /\ r.loads = e.loads
      /\ r.list = e.list /\ r.busy = e.busy /\ r.open = TRUE
  BY OpenIs
<1>2. e.busy \ {"gate"} \in SUBSET {"send", "answer", "gate", "scan", "refused"}
  BY DEF Mounted, Entries
<1>3. /\ f \in Mounted /\ f.kind = e.kind /\ f.scanned = e.scanned /\ f.seen = e.seen /\ f.thread = e.thread /\ f.loads = e.loads
      /\ f.list = e.list /\ f.busy = e.busy \ {"gate"} /\ f.open = TRUE
  BY <1>1, <1>2, BusyIs
<1>4. f = [e EXCEPT !.open = TRUE, !.busy = @ \ {"gate"}]
  BY DEF Mounted, Entries
<1>5. x \in Items /\ x.what # "put" /\ x.then # "answer" /\ (e.kind = "chat" \/ x.then = "")
  BY ReadIs
<1>6. Unlocked(e) = Queue(f, x)
  BY <1>4 DEF Unlocked
<1> PICK q : q = Queue(f, x)
  OBVIOUS
<1>7. q \in Mounted /\ Steady(f, q) /\ q.list = f.list
  BY <1>3, <1>5, QueueSteady, ZenonT(30)
<1>8. q.busy = f.busy /\ q.open = f.open
  <2>1. f \in Entries
    BY <1>3, MountedIs
  <2>2. Alike(f, Queue(f, x))
    BY <1>5, <2>1, QueueIs
  <2> QED BY <2>2 DEF Alike
<1>9. SameView(e, q) /\ Unanswered(e.loads, q.loads)
  BY <1>3, <1>7 DEF Steady, SameView
<1> QED BY <1>3, <1>6, <1>7, <1>8, <1>9

AfterUnlock(e, q, right) ==
    /\ SameView(e, q) /\ Unanswered(e.loads, q.loads) /\ q.list = e.list
    /\ ("answer" \in q.busy <=> "answer" \in e.busy)
    /\ q.open = (right \/ e.open)

LEMMA UnlockEndsIs ==
    ASSUME Types, NEW t \in tasks, NEW right \in BOOLEAN, UnlockEnds(t, right)
    PROVE  /\ t.op = "unlock" /\ (right => db.lock) /\ tasks' = tasks \ {t}
           /\ phone' = [phone EXCEPT !.released = phone.released \/ right]
           /\ t.at \in 0..Top /\ Top \in Nat
           /\ \/ t.at = 0 /\ stack' = stack
              \/ /\ t.at \in DOMAIN stack /\ stack[t.at].kind \in {"chat", "contact"}
                 /\ \E q : Changes(t.at, q) /\ AfterUnlock(stack[t.at], q, right)
           /\ UNCHANGED <<scene, left, db, log>> /\ Types'
<1> PICK e : e = stack[t.at]
  OBVIOUS
<1>1. t.op = "unlock" /\ (right => db.lock) /\ tasks' = tasks \ {t} /\ Roomy(stack)
      /\ phone' = [phone EXCEPT !.released = phone.released \/ right] /\ UNCHANGED <<scene, left, db, log>>
  BY RoomIs DEF UnlockEnds
<1>2. t \in Tasks /\ t.at \in 0..Len(stack) /\ (t.at # 0 => e.kind \in {"chat", "contact"}) /\ Len(stack) = Top /\ Top \in Nat
      /\ DOMAIN stack = 1..Len(stack) /\ phone \in Phones
  BY <1>1, TopIs DEF Types, Placed, From
<1>3. Placed(tasks', stack) /\ phone' \in Phones /\ left' \in 0..MaxWrites /\ db' \in Bases /\ scene' = scene
  BY <1>1, <1>2, PlacedLess DEF Types, Phones
<1>4. CASE t.at = 0
  <2>1. stack' = stack
    BY <1>4 DEF UnlockEnds
  <2>2. Types'
    BY <1>3, <2>1 DEF Types
  <2> QED BY <1>1, <1>2, <1>4, <2>1, <2>2
<1>5. CASE t.at # 0
  <2>1. t.at \in DOMAIN stack /\ e \in Mounted /\ e.busy \in SUBSET {"send", "answer", "gate", "scan", "refused"} /\ e.open \in BOOLEAN
    <3>1. t.at \in DOMAIN stack
      BY <1>2, <1>5, Somewhere
    <3> QED BY <3>1, TopIs DEF Mounted, Entries
  <2> PICK q : q = IF right THEN Unlocked(e) ELSE [e EXCEPT !.busy = e.busy \ {"gate"}]
    OBVIOUS
  <2>2. stack' = Set(stack, t.at, q)
    <3>1. CASE right
      BY <1>5, <3>1 DEF UnlockEnds, Set
    <3>2. CASE ~right
      BY <1>5, <3>2 DEF UnlockEnds, Set, Refused
    <3> QED BY <3>1, <3>2
  <2>3. q \in Mounted /\ AfterUnlock(e, q, right)
    <3>1. CASE right
      <4>1. Len(e.loads) < MaxLoads
        BY <1>1, <2>1 DEF Roomy
      <4> QED BY <2>1, <3>1, <4>1, UnlockedIs DEF AfterUnlock
    <3>2. CASE ~right
      <4>1. e.busy \ {"gate"} \in SUBSET {"send", "answer", "gate", "scan", "refused"}
        BY <2>1
      <4>2. /\ q \in Mounted /\ q.kind = e.kind /\ q.scanned = e.scanned /\ q.seen = e.seen /\ q.thread = e.thread
            /\ q.loads = e.loads /\ q.list = e.list /\ q.busy = e.busy \ {"gate"} /\ q.open = e.open
        BY <2>1, <3>2, <4>1, BusyIs
      <4> QED BY <2>1, <3>2, <4>2, GrownSame DEF SameView, AfterUnlock
    <3> QED BY <3>1, <3>2
  <2>4. Changes(t.at, q)
    BY <2>1, <2>2, <2>3 DEF Changes, SameView, AfterUnlock
  <2>5. Types'
    BY <1>3, <2>4, TypesChanged
  <2> QED BY <1>1, <1>2, <1>5, <2>1, <2>3, <2>4, <2>5
<1> QED BY <1>4, <1>5

\* What is left when a write has been told.
Told ==
    /\ Types' /\ SteadyStack(stack, stack') /\ UpToDate(stack'[Top], db')
    /\ \A t \in tasks' : t \in tasks \/ (t.op = "mark" /\ t.was = "?")

LEMMA TellTold ==
    ASSUME Types, NEW s \in Stacks, SteadyStack(stack, s), Roomy(s), NEW ts, Placed(ts, s), ts \subseteq tasks,
           Tell(s, ts), db' \in Bases, phone' \in Phones, scene' = scene, left' \in 0..MaxWrites
    PROVE  Told
<1>1. /\ HaveHeard(s, stack') /\ tasks' = ts \cup Marks(s, phone.fg) /\ Placed(tasks', stack')
  BY TopIs, TellIs
<1>2. stack' \in Stacks /\ SteadyStack(stack, stack')
  <2>1. stack' \in Stacks
    BY <1>1 DEF HaveHeard
  <2> QED BY <1>1, <2>1, TopIs, HeardSteady, SteadyStackTrans
<1>3. Len(s) = Top
  BY TopIs DEF SteadyStack
<1>4. UpToDate(stack'[Top], db')
  BY <1>1, <1>3, HeardFresh
<1>5. \A t \in tasks' : t \in tasks \/ (t.op = "mark" /\ t.was = "?")
  BY <1>1, TopIs, MarksIs DEF Phones
<1> QED BY <1>1, <1>2, <1>4, <1>5 DEF Told, Types

LEMMA WritesTold ==
    ASSUME Types, NEW d \in Bases, Writes(d, stack, tasks), phone' \in Phones, scene' = scene, left' \in 0..MaxWrites
    PROVE  Told /\ db' = d
<1>1. Roomy(stack) /\ db' = d /\ Tell(stack, tasks) /\ stack \in Stacks
  BY RoomIs, TopIs DEF Writes
<1>2. SteadyStack(stack, stack) /\ Placed(tasks, stack)
  BY <1>1, SteadySame DEF Types
<1> QED BY <1>1, <1>2, TellTold

LEMMA ReleasedIs ==
    ASSUME NEW ph \in Phones, NEW r \in BOOLEAN
    PROVE  LET pj == [ph EXCEPT !.released = r] IN
           pj \in Phones /\ pj.locked = ph.locked /\ pj.fg = ph.fg /\ pj.released = r
BY DEF Phones

LEMMA LockChangesIs ==
    ASSUME Types, NEW d \in Bases, NEW r \in BOOLEAN, LockChanges(d, r)
    PROVE  /\ Told /\ db' = d /\ phone' \in Phones /\ phone'.locked = phone.locked /\ phone'.released = r
           /\ log' = log /\ Roomy(stack)
<1> PICK q : q = [Screen EXCEPT !.sheet = Nothing]
  OBVIOUS
<1> PICK s : s = Set(stack, Top, q)
  OBVIOUS
<1>1. Screen \in Mounted /\ Screen = stack[Top] /\ Top \in DOMAIN stack /\ stack \in Stacks /\ phone \in Phones
  BY TopIs
<1>2. /\ Spend /\ Roomy(stack) /\ db' = d /\ phone' = [phone EXCEPT !.released = r]
      /\ Tell(s, tasks) /\ UNCHANGED <<scene, log>>
  <2>1. [stack EXCEPT ![Top].sheet = Nothing] = s
    BY <1>1 DEF Set
  <2> QED BY <2>1, RoomIs DEF LockChanges
<1>3. /\ q \in Mounted /\ q.kind = Screen.kind /\ q.seen = Screen.seen /\ q.thread = Screen.thread
      /\ q.loads = Screen.loads /\ q.busy = Screen.busy /\ q.open = Screen.open
  <2>1. Nothing \in Msgs \cup {"lock", Nothing}
    OBVIOUS
  <2> QED BY <1>1, <2>1, SheetIs
<1>4. Steady(Screen, q)
  BY <1>3, GrownSame DEF Steady, SameView
<1>5. s \in Stacks /\ SteadyStack(stack, s) /\ Shape(stack, s) /\ Roomy(s)
  <2>1. s \in Stacks /\ SteadyStack(stack, s)
    BY <1>1, <1>3, <1>4, SetIs, SteadySet
  <2>2. Shape(stack, s)
    BY <1>1, <1>3, SetShape
  <2>3. Roomy(s)
    BY <1>1, <1>2, <1>3, RoomySame
  <2> QED BY <2>1, <2>2, <2>3
<1>6. phone' \in Phones /\ phone'.locked = phone.locked /\ phone'.released = r
  BY <1>1, <1>2, ReleasedIs
<1>7. Placed(tasks, s)
  BY <1>1, <1>5, PlacedKept DEF Types
<1>8. Told
  BY <1>2, <1>5, <1>6, <1>7, Spent, TellTold
<1> QED BY <1>2, <1>6, <1>8

Unlock(d) == [d EXCEPT !.lock = FALSE]

LEMMA DeleteChatIs ==
    ASSUME Types, DeleteChat
    PROVE  /\ Told /\ db'.there = db.there /\ db'.lock = FALSE /\ \A k \in Asks : db'.pend[k] = "none"
           /\ log' = log /\ phone'.locked = phone.locked /\ phone'.released = FALSE
<1> PICK d : d = [db EXCEPT !.msgs = NoMessages, !.lock = FALSE, !.pend = [k \in Asks |-> "none"]]
  OBVIOUS
<1>1. Writes(d, stack, tasks) /\ Spend /\ UNCHANGED <<scene, log>> /\ phone' = [phone EXCEPT !.released = FALSE]
      /\ db \in Bases /\ phone \in Phones
  BY TopIs DEF DeleteChat
<1>2. NoMessages \in [Msgs -> States] /\ [k \in Asks |-> "none"] \in [Asks -> Requests]
  BY DEF NoMessages, States, Requests
<1>3. d \in Bases /\ d.there = db.there /\ d.lock = FALSE /\ d.pend = [k \in Asks |-> "none"]
  BY <1>1, <1>2 DEF Bases
<1>4. phone' \in Phones /\ phone'.locked = phone.locked /\ phone'.released = FALSE
  BY <1>1, ReleasedIs
<1>5. Told /\ db' = d
  BY <1>1, <1>3, <1>4, Spent, WritesTold
<1> QED BY <1>1, <1>3, <1>4, <1>5

LEMMA RemovedIs ==
    ASSUME db \in Bases
    PROVE  /\ Removed \in Bases /\ Removed.there = FALSE /\ Removed.lock = FALSE
           /\ Removed.pend = [k \in Asks |-> "none"] /\ Removed.msgs = NoMessages
<1>1. NoMessages \in [Msgs -> States] /\ [k \in Asks |-> "none"] \in [Asks -> Requests]
  BY DEF NoMessages, States, Requests
<1> QED BY <1>1 DEF Removed, Bases

LEMMA DeleteContactFromTabsIs ==
    ASSUME Types, DeleteContactFromTabs
    PROVE  /\ Told /\ db' = Removed /\ log' = log /\ phone'.locked = phone.locked /\ phone'.released = FALSE
           /\ Screen.kind = "tabs"
<1>1. Writes(Removed, stack, tasks) /\ UNCHANGED <<scene, left, log>> /\ phone' = [phone EXCEPT !.released = FALSE]
      /\ db \in Bases /\ phone \in Phones /\ Screen.kind = "tabs"
  BY TopIs DEF DeleteContactFromTabs, On
<1>2. phone' \in Phones /\ phone'.locked = phone.locked /\ phone'.released = FALSE
  BY <1>1, ReleasedIs
<1>3. left' \in 0..MaxWrites
  BY <1>1 DEF Types
<1> QED BY <1>1, <1>2, <1>3, RemovedIs, WritesTold

LEMMA AsksIs ==
    ASSUME Types, NEW k \in Asks, AsksFor(k) \/ PeerAsks(k)
    PROVE  /\ Told /\ log' = [log EXCEPT ![k] = 0] /\ phone' = phone /\ db'.lock = db.lock /\ db'.there = db.there
           /\ \A j \in Asks : j # k => db'.pend[j] = db.pend[j]
<1> PICK d : d = [db EXCEPT !.pend[k] = IF AsksFor(k) THEN "mine" ELSE "theirs"]
  OBVIOUS
<1>1. Writes(d, stack, tasks) /\ Spend /\ UNCHANGED <<scene, phone>> /\ log' = [log EXCEPT ![k] = 0] /\ db \in Bases
  BY TopIs DEF AsksFor, PeerAsks
<1>2. (IF AsksFor(k) THEN "mine" ELSE "theirs") \in Requests
  BY DEF Requests
<1>3. d \in Bases /\ d.lock = db.lock /\ d.there = db.there /\ \A j \in Asks : j # k => d.pend[j] = db.pend[j]
  BY <1>1, <1>2, OnePend
<1>4. phone' \in Phones /\ scene' = scene
  BY <1>1 DEF Types
<1>5. Told /\ db' = d
  BY <1>1, <1>3, <1>4, Spent, WritesTold
<1> QED BY <1>1, <1>3, <1>5

LEMMA AnswerTask ==
    ASSUME Types, NEW k \in Asks, NEW yes \in BOOLEAN, Screen.kind \in {"chat", "contact"}
    PROVE  LET u == Answer(k, yes) IN
           /\ u \in Tasks /\ u.op = "answer" /\ u.at = Top /\ u.k = k /\ u.was = "?"
           /\ Placed(tasks \cup {u}, stack)
<1> PICK u : u = Answer(k, yes)
  OBVIOUS
<1>1. u \in Tasks /\ u.op = "answer" /\ u.at = Top /\ u.k = k /\ u.was = "?"
  BY TopIs DEF Answer, Tasks
<1>2. Top \in 0..Len(stack) /\ stack[Top].kind \in From("answer")
  BY TopIs DEF From
<1> QED BY <1>1, <1>2, PlacedMore DEF Types

LEMMA TapInChatIs ==
    ASSUME Types, NEW k \in Asks, NEW yes \in BOOLEAN, TapInChat(k, yes)
    PROVE  LET q == [Screen EXCEPT !.busy = @ \cup {"answer"}]
               u == Answer(k, yes) IN
           /\ Screen.kind = "chat" /\ "answer" \notin Screen.busy /\ Alone(k, {Top})
           /\ Changes(Top, q) /\ SameView(Screen, q) /\ q.list = Screen.list /\ q.open = Screen.open
           /\ q.loads = Screen.loads /\ q.busy = Screen.busy \cup {"answer"}
           /\ tasks' = tasks \cup {u} /\ u \in Tasks /\ u.op = "answer" /\ u.at = Top /\ u.k = k /\ u.was = "?"
           /\ UNCHANGED <<scene, left, db, log, phone>> /\ Types'
<1> PICK q : q = [Screen EXCEPT !.busy = @ \cup {"answer"}]
  OBVIOUS
<1> PICK u : u = Answer(k, yes)
  OBVIOUS
<1>1. Screen = stack[Top] /\ Top \in DOMAIN stack
  BY TopIs
<1>2. /\ Busies("answer") = Set(stack, Top, q) /\ q \in Mounted /\ q.list = Screen.list
      /\ q.kind = Screen.kind /\ q.loads = Screen.loads /\ q.seen = Screen.seen
      /\ q.thread = Screen.thread /\ q.open = Screen.open /\ q.busy = Screen.busy \cup {"answer"}
  BY BusiesIs
<1>3. /\ stack' = Busies("answer") /\ tasks' = tasks \cup {u} /\ UNCHANGED <<scene, left, db, log, phone>>
      /\ Screen.kind = "chat" /\ "answer" \notin Screen.busy /\ Alone(k, {Top})
  BY DEF TapInChat, RequestBanner, InChat, Shows, On, Respond
<1>4. u \in Tasks /\ u.op = "answer" /\ u.at = Top /\ u.k = k /\ u.was = "?" /\ Placed(tasks', stack)
  BY <1>3, AnswerTask
<1>5. Changes(Top, q)
  BY <1>1, <1>2, <1>3 DEF Changes
<1>6. SameView(Screen, q)
  BY <1>2, GrownSame DEF SameView
<1>7. Types'
  BY <1>3, <1>4, <1>5, TypesChanged DEF Types
<1> QED BY <1>2, <1>3, <1>4, <1>5, <1>6, <1>7

LEMMA TapInContactIs ==
    ASSUME Types, NEW k \in Asks, NEW yes \in BOOLEAN, TapInContact(k, yes)
    PROVE  LET u == Answer(k, yes) IN
           /\ Screen.kind = "contact" /\ Alone(k, {})
           /\ tasks' = tasks \cup {u} /\ u \in Tasks /\ u.op = "answer" /\ u.at = Top /\ u.k = k /\ u.was = "?"
           /\ UNCHANGED <<scene, left, db, log, phone, stack>> /\ Types'
<1> PICK u : u = Answer(k, yes)
  OBVIOUS
<1>1. /\ tasks' = tasks \cup {u} /\ UNCHANGED <<scene, left, db, log, phone, stack>>
      /\ Screen.kind = "contact" /\ Alone(k, {})
  BY DEF TapInContact, RequestCard, WithdrawSheet, InPage, Shows, On
<1>2. u \in Tasks /\ u.op = "answer" /\ u.at = Top /\ u.k = k /\ u.was = "?" /\ Placed(tasks', stack)
  BY <1>1, AnswerTask
<1>3. Types'
  BY <1>1, <1>2 DEF Types
<1> QED BY <1>1, <1>2, <1>3

\* The screen of an answer with the read that the answer asks for in the end.
AnswerItem(e) == Read("row", IF e.kind = "chat" THEN "answer" ELSE "")
Answered(e) == Queue(e, AnswerItem(e))

LEMMA AnsweredIs ==
    ASSUME NEW e \in Mounted, Len(e.loads) < MaxLoads
    PROVE  /\ Answered(e) \in Mounted /\ SameView(e, Answered(e)) /\ Answered(e).list = e.list
           /\ Answered(e).open = e.open /\ Answered(e).busy = e.busy
           /\ Answered(e).loads = Queued(e.loads, AnswerItem(e))
           /\ AnswerItem(e) \in Items /\ AnswerItem(e).what = "row"
           /\ AnswerItem(e).then = IF e.kind = "chat" THEN "answer" ELSE ""
<1> PICK x : x = AnswerItem(e)
  OBVIOUS
<1>1. x \in Items /\ x.what = "row" /\ x.then = IF e.kind = "chat" THEN "answer" ELSE ""
  BY ReadIs DEF AnswerItem
<1>2. e \in Entries /\ e.loads \in Seq(Items)
  BY MountedIs
<1>3. Alike(e, Queue(e, x)) /\ Queue(e, x).list = e.list /\ Queue(e, x).loads = Queued(e.loads, x)
  BY <1>1, <1>2, QueueIs
<1>4. Queue(e, x) \in Mounted
  BY <1>1, QueueMounted
<1>5. Grown(e.loads, Queued(e.loads, x))
  BY <1>1, <1>2, GrownQueued
<1>6. SameView(e, Queue(e, x))
  BY <1>3, <1>5 DEF SameView, Alike
<1> QED BY <1>1, <1>3, <1>4, <1>6 DEF Answered, Alike

\* An answer has ended: its screen has its read, and what is written is told.
LEMMA AnswerWritesIs ==
    ASSUME Types, NEW t \in tasks, AnswerWrites(t)
    PROVE  LET s == IF t.at = 0 THEN stack ELSE Set(stack, t.at, Answered(stack[t.at])) IN
           /\ t \in Tasks /\ t.op = "answer" /\ t.k \in Asks /\ t.at \in 0..Top /\ t.was # "?"
           /\ (t.at # 0 => t.at \in DOMAIN stack /\ stack[t.at].kind \in {"chat", "contact"}
                           /\ Len(stack[t.at].loads) < MaxLoads)
           /\ s \in Stacks /\ SameViews(stack, s) /\ Roomy(s)
           /\ UNCHANGED <<scene, left, phone>> /\ Types'
           /\ \/ /\ stack' = s /\ tasks' = tasks \ {t} /\ db' = db /\ log' = log
              \/ /\ HaveHeard(s, stack') /\ ~Stale(t)
                 /\ tasks' = (tasks \ {t}) \cup Marks(s, phone.fg)
                 /\ db' = [db EXCEPT !.pend[t.k] = "none"]
                 /\ log' = [log EXCEPT ![t.k] = IF t.was = "none" THEN @ ELSE @ + 1]
<1> PICK e : e = stack[t.at]
  OBVIOUS
<1> PICK s : s = IF t.at = 0 THEN stack ELSE Set(stack, t.at, Answered(e))
  OBVIOUS
<1>0. t.at # 0 => [stack EXCEPT ![t.at] = Queue(@, Read("row", IF @.kind = "chat" THEN "answer" ELSE ""))] = Set(stack, t.at, Answered(e))
  BY DEF Set, Answered, AnswerItem
<1>1. Reloads(t) = s
  BY <1>0 DEF Reloads
<1>2. t \in Tasks /\ t.op = "answer" /\ t.was # "?" /\ UNCHANGED <<scene, left, phone>>
      /\ t.at \in 0..Len(stack) /\ (t.at # 0 => e.kind \in {"chat", "contact"})
  BY DEF AnswerWrites, Types, Placed, From
<1>3. t.k \in Asks /\ stack \in Stacks /\ Len(stack) = Top /\ db \in Bases /\ phone \in Phones
  BY <1>2, TaskIs, TopIs
<1>4. \A i \in DOMAIN stack : Len(s[i].loads) < MaxLoads
  BY <1>1 DEF AnswerWrites
<1>5. t.at # 0 => t.at \in DOMAIN stack /\ e \in Mounted
  BY <1>2, <1>3, TopIs, StackIs, Somewhere
<1>6. ASSUME t.at # 0 PROVE Len(e.loads) < MaxLoads
  <2>1. s[t.at] = Answered(e)
    BY <1>3, <1>5, <1>6 DEF Set, Stacks
  <2>2. Len(Queue(e, AnswerItem(e)).loads) < MaxLoads
    BY <1>4, <1>5, <1>6, <2>1 DEF Answered
  <2>3. AnswerItem(e) \in Items
    BY ReadIs DEF AnswerItem
  <2> QED BY <1>5, <1>6, <2>2, <2>3, QueueRoom
<1>7. s \in Stacks /\ SameViews(stack, s) /\ Shape(stack, s)
  <2>1. CASE t.at = 0
    BY <1>3, <2>1, SteadySame, SteadyViews DEF Shape
  <2>2. CASE t.at # 0
    <3>1. Answered(e) \in Mounted /\ SameView(e, Answered(e))
      BY <1>5, <1>6, <2>2, AnsweredIs
    <3>2. \A i \in DOMAIN stack : SameView(stack[i], stack[i])
      BY GrownSame DEF SameView
    <3>3. s = Set(stack, t.at, Answered(e)) /\ t.at \in DOMAIN stack
      BY <1>5, <2>2
    <3>6. /\ Set(stack, t.at, Answered(e)) \in Stacks /\ Len(Set(stack, t.at, Answered(e))) = Len(stack)
          /\ Set(stack, t.at, Answered(e))[t.at] = Answered(e)
          /\ \A j \in DOMAIN stack : j # t.at => Set(stack, t.at, Answered(e))[j] = stack[j]
      BY <1>3, <3>1, <3>3, SetIs, ZenonT(30)
    <3>4. s \in Stacks /\ Len(s) = Len(stack) /\ s[t.at] = Answered(e) /\ \A j \in DOMAIN stack : j # t.at => s[j] = stack[j]
      BY <3>3, <3>6
    <3>5. SameViews(stack, s)
      BY <3>1, <3>2, <3>4 DEF SameViews
    <3> QED BY <3>4, <3>5 DEF Shape, SameViews, SameView
  <2> QED BY <2>1, <2>2
<1>8. Roomy(s)
  <2>1. DOMAIN s = DOMAIN stack
    BY <1>3, <1>7, StackIs DEF SameViews
  <2> QED BY <1>4, <2>1 DEF Roomy
<1>9. Placed(tasks \ {t}, s)
  BY <1>3, <1>7, PlacedLess, PlacedKept DEF Types
<1>10. left' \in 0..MaxWrites /\ scene' \in Scenes /\ phone' \in Phones
  BY <1>2 DEF Types
<1>11. CASE Stale(t)
  <2>1. stack' = s /\ tasks' = tasks \ {t} /\ db' = db /\ log' = log
    BY <1>1, <1>11 DEF AnswerWrites
  <2>2. Types'
    BY <1>3, <1>7, <1>9, <1>10, <2>1 DEF Types
  <2> QED BY <1>2, <1>3, <1>5, <1>6, <1>7, <1>8, <2>1, <2>2
<1>12. CASE ~Stale(t)
  <2>1. Tell(s, tasks \ {t}) /\ db' = [db EXCEPT !.pend[t.k] = "none"]
        /\ log' = [log EXCEPT ![t.k] = IF t.was = "none" THEN @ ELSE @ + 1]
    BY <1>1, <1>12 DEF AnswerWrites, Writes
  <2>2. HaveHeard(s, stack') /\ tasks' = (tasks \ {t}) \cup Marks(s, phone.fg) /\ Placed(tasks', stack')
    BY <1>3, <1>7, <1>8, <1>9, <2>1, TellIs
  <2>3. db' \in Bases
    BY <1>3, <2>1, OnePend DEF Requests
  <2>4. Types'
    BY <1>10, <2>2, <2>3 DEF Types, HaveHeard
  <2> QED BY <1>2, <1>3, <1>5, <1>6, <1>7, <1>8, <1>12, <2>1, <2>2, <2>4
<1> QED BY <1>11, <1>12

PutOf(f) == [what |-> "put", then |-> "", put |-> [Screen.seen EXCEPT ![f] = ~Screen.seen[f]]]

LEMMA ToggleIs ==
    ASSUME Types, NEW f \in {"muted", "blocked"}, Toggle(f)
    PROVE  /\ Screen.kind = "contact" /\ ("toggle" \in Windows \/ Screen.loads = <<>>)
           /\ PutOf(f) \in Items /\ Changes(Top, Queue(Screen, PutOf(f)))
           /\ Queue(Screen, PutOf(f)).loads = Queued(Screen.loads, PutOf(f)) /\ Alike(Screen, Queue(Screen, PutOf(f)))
           /\ db' = [db EXCEPT ![f] = ~Screen.seen[f]] /\ db'.lock = db.lock /\ db'.there = db.there /\ db'.pend = db.pend
           /\ UNCHANGED <<scene, left, log, phone, tasks>> /\ Types'
<1>1. /\ Screen.kind = "contact" /\ ("toggle" \in Windows \/ Screen.loads = <<>>) /\ Roomy(stack)
      /\ db' = [db EXCEPT ![f] = ~Screen.seen[f]] /\ UNCHANGED <<scene, left, log, phone, tasks>>
      /\ stack' = [stack EXCEPT ![Top] = Queue(@, [what |-> "put", then |-> "", put |-> [@.seen EXCEPT ![f] = ~Screen.seen[f]]])]
  BY RoomIs DEF Toggle, InPage, Shows, On
<1>2. Screen \in Mounted /\ Screen = stack[Top] /\ Top \in DOMAIN stack /\ db \in Bases /\ Screen.seen \in AllFacts
  BY TopIs, MountedIs
<1> PICK x : x = PutOf(f)
  OBVIOUS
<1>3. x \in Items /\ x.then = ""
  <2>1. [Screen.seen EXCEPT ![f] = ~Screen.seen[f]] \in AllFacts
    <3>1. CASE f = "muted"
      BY <1>2, <3>1 DEF AllFacts
    <3>2. CASE f = "blocked"
      BY <1>2, <3>2 DEF AllFacts
    <3> QED BY <3>1, <3>2
  <2> QED BY <2>1 DEF PutOf, Items
<1>4. Len(Screen.loads) < MaxLoads
  BY <1>1, <1>2 DEF Roomy
<1>5. Queue(Screen, x) \in Mounted
  BY <1>2, <1>3, <1>4, QueueMounted
<1>6. Alike(Screen, Queue(Screen, x)) /\ Queue(Screen, x).loads = Queued(Screen.loads, x)
  BY <1>2, <1>3, MountedIs, QueueIs
<1>7. stack' = Set(stack, Top, Queue(Screen, x))
  BY <1>1, <1>2 DEF Set, PutOf
<1>8. Changes(Top, Queue(Screen, x))
  BY <1>2, <1>5, <1>6, <1>7 DEF Changes, Alike
<1>9. db' \in Bases /\ db'.lock = db.lock /\ db'.there = db.there /\ db'.pend = db.pend
  <2>1. (~Screen.seen[f]) \in BOOLEAN
    OBVIOUS
  <2>2. CASE f = "muted"
    BY <1>1, <1>2, <2>1, <2>2 DEF Bases
  <2>3. CASE f = "blocked"
    BY <1>1, <1>2, <2>1, <2>3 DEF Bases
  <2> QED BY <2>2, <2>3
<1>10. Types'
  BY <1>1, <1>8, <1>9, TypesChanged DEF Types
<1> QED BY <1>1, <1>3, <1>6, <1>8, <1>9, <1>10

LEMMA Wider == ASSUME NEW n \in Nat, NEW a \in 0..n PROVE a \in 0..(n + 1) /\ a # n + 1
OBVIOUS

LEMMA EntryRoom ==
    ASSUME NEW kind \in Kinds, NEW scanned \in BOOLEAN, phone \in Phones
    PROVE  /\ Entry(kind, scanned) \in Mounted /\ Len(Entry(kind, scanned).loads) < MaxLoads
           /\ Hears(Entry(kind, scanned)) \in Mounted /\ Alike(Entry(kind, scanned), Hears(Entry(kind, scanned)))
<1>1. Entry(kind, scanned) \in Mounted /\ Entry(kind, scanned).loads = <<>>
  BY EntryIs
<1>2. Len(Entry(kind, scanned).loads) < MaxLoads
  BY <1>1, NoneWaits
<1> QED BY <1>1, <1>2, HearsIs

LEMMA HearsUnasked ==
    ASSUME NEW e \in Mounted, Len(e.loads) < MaxLoads
    PROVE  \A n \in DOMAIN Hears(e).loads : Hears(e).loads[n].what = "put" \/ Hears(e).loads[n].then = "answer"
                                             => n \in DOMAIN e.loads /\ e.loads[n] = Hears(e).loads[n]
<1>1. Steady(e, Hears(e))
  BY HearsSteady
<1> QED BY <1>1 DEF Steady, SameView, Grown, Unanswered

\* The visible screen after it was changed to another: told of the change, or not when the
\* app is locked.
LEMMA FocusTop ==
    ASSUME NEW s \in Stacks, Len(s[Len(s)].loads) < MaxLoads, NEW ts, Placed(ts, s), Focus(s, ts)
    PROVE  /\ stack' \in Stacks /\ Len(stack') = Len(s) /\ Placed(tasks', stack')
           /\ Hears(s[Len(s)]) \in Mounted /\ Alike(s[Len(s)], Hears(s[Len(s)]))
           /\ stack'[Len(s)] = Hears(s[Len(s)]) /\ \A i \in DOMAIN s : i # Len(s) => stack'[i] = s[i]
           /\ tasks' = ts \cup Marks(s, TRUE)
           /\ \A t \in tasks' : t \in ts \/ (t.op = "mark" /\ t.was = "?" /\ t.at = Len(s))
<1> PICK h : h = Hears(s[Len(s)])
  OBVIOUS
<1>1. Len(s) \in DOMAIN s /\ s[Len(s)] \in Mounted
  BY StackIs
<1>2. h \in Mounted /\ Alike(s[Len(s)], h)
  BY <1>1, HearsIs
<1>3. stack' = Set(s, Len(s), h) /\ stack' \in Stacks /\ tasks' = ts \cup Marks(s, TRUE) /\ Placed(tasks', stack')
  BY FocusIs
<1>4. /\ Len(Set(s, Len(s), h)) = Len(s) /\ Set(s, Len(s), h)[Len(s)] = h
      /\ \A j \in DOMAIN s : j # Len(s) => Set(s, Len(s), h)[j] = s[j]
  BY <1>1, <1>2, SetIs
<1>5. \A t \in tasks' : t \in ts \/ (t.op = "mark" /\ t.was = "?" /\ t.at = Len(s))
  <2>1. \A t \in Marks(s, TRUE) : t.op = "mark" /\ t.was = "?" /\ t.at = Len(s)
    BY MarksIs
  <2> QED BY <1>3, <2>1
<1> QED BY <1>2, <1>3, <1>4, <1>5

\* A screen on top of the others.
LEMMA OpensIs ==
    ASSUME Types, NEW kind \in Kinds, Opens(kind)
    PROVE  LET e == Hears(Entry(kind, FALSE)) IN
           /\ Top < MaxDepth /\ ("twice" \notin Windows /\ kind = "chat" => ~Has(stack, "chat"))
           /\ stack' \in Stacks /\ Len(stack') = Top + 1 /\ stack'[Top + 1] = e /\ \A i \in DOMAIN stack : stack'[i] = stack[i]
           /\ e \in Mounted /\ Alike(Entry(kind, FALSE), e)
           /\ \A t \in tasks' : t \in tasks \/ (t.op = "mark" /\ t.was = "?" /\ t.at = Top + 1)
           /\ UNCHANGED <<scene, left, db, log, phone>> /\ Types' /\ Roomy(stack)
<1>a. PICK n : n = Entry(kind, FALSE)
  OBVIOUS
<1>b. PICK s : s = Append(stack, n)
  OBVIOUS
<1>1. /\ Top < MaxDepth /\ ("twice" \notin Windows /\ kind = "chat" => ~Has(stack, "chat"))
      /\ Focus(s, tasks) /\ UNCHANGED <<scene, left, db, log, phone>> /\ Roomy(stack)
  BY <1>a, <1>b, RoomIs DEF Opens, Focus
<1>2. stack \in Stacks /\ phone \in Phones /\ Len(stack) = Top /\ Top \in Nat /\ DOMAIN stack = 1..Top
  BY TopIs
<1>3. n \in Mounted /\ Len(n.loads) < MaxLoads /\ Hears(n) \in Mounted /\ Alike(n, Hears(n))
  BY <1>2, <1>a, EntryRoom
<1>4. s \in Stacks /\ Len(s) = Top + 1 /\ s[Top + 1] = n /\ \A i \in DOMAIN stack : s[i] = stack[i]
  BY <1>1, <1>2, <1>3, <1>b, AppendIs
<1>5. Placed(tasks, s)
  <2> SUFFICES ASSUME NEW t \in tasks PROVE t \in Tasks /\ t.at \in 0..Len(s) /\ (t.at # 0 => s[t.at].kind \in From(t.op))
    BY DEF Placed
  <2>1. t \in Tasks /\ t.at \in 0..Len(stack) /\ (t.at # 0 => stack[t.at].kind \in From(t.op))
    BY DEF Types, Placed
  <2>2. t.at # 0 => t.at \in DOMAIN stack
    BY <1>2, <2>1, Somewhere
  <2>3. t.at \in 0..Len(s)
    BY <1>2, <1>4, <2>1, Wider
  <2>4. t.at # 0 => s[t.at].kind \in From(t.op)
    BY <1>4, <2>1, <2>2
  <2> QED BY <2>1, <2>3, <2>4
<1>6. /\ stack' \in Stacks /\ Len(stack') = Len(s) /\ Placed(tasks', stack')
      /\ stack'[Len(s)] = Hears(s[Len(s)]) /\ \A i \in DOMAIN s : i # Len(s) => stack'[i] = s[i]
      /\ \A t \in tasks' : t \in tasks \/ (t.op = "mark" /\ t.was = "?" /\ t.at = Len(s))
  BY <1>1, <1>3, <1>4, <1>5, FocusTop
<1>7. Len(stack') = Top + 1 /\ stack'[Top + 1] = Hears(n) /\ \A i \in DOMAIN stack : stack'[i] = stack[i]
  <2>1. \A i \in DOMAIN stack : i # Len(s) /\ i \in DOMAIN s
    BY <1>2, <1>4, StackIs
  <2> QED BY <1>4, <1>6, <2>1
<1>8. \A t \in tasks' : t \in tasks \/ (t.op = "mark" /\ t.was = "?" /\ t.at = Top + 1)
  BY <1>4, <1>6
<1>9. Types'
  BY <1>1, <1>6 DEF Types
<1> QED BY <1>1, <1>3, <1>6, <1>7, <1>8, <1>9, <1>a

\* The visible screen replaced by one of another kind.
LEMMA SwapsIs ==
    ASSUME Types, NEW kind \in Kinds, NEW scanned \in BOOLEAN, NEW ts, Swaps(kind, scanned, ts),
           Placed(ts, Set(stack, Top, Entry(kind, scanned)))
    PROVE  LET e == Hears(Entry(kind, scanned)) IN
           /\ stack' \in Stacks /\ Len(stack') = Top /\ stack'[Top] = e
           /\ \A i \in DOMAIN stack : i # Top => stack'[i] = stack[i]
           /\ e \in Mounted /\ Alike(Entry(kind, scanned), e) /\ Roomy(stack) /\ Placed(tasks', stack')
           /\ \A t \in tasks' : t \in ts \/ (t.op = "mark" /\ t.was = "?" /\ t.at = Top)
<1> PICK n : n = Entry(kind, scanned)
  OBVIOUS
<1> PICK s : s = Set(stack, Top, n)
  OBVIOUS
<1>1. stack \in Stacks /\ phone \in Phones /\ Len(stack) = Top /\ Top \in DOMAIN stack
  BY TopIs
<1>2. n \in Mounted /\ Len(n.loads) < MaxLoads
  BY <1>1, EntryRoom
<1>3. Append(Front(stack), n) = s
  BY <1>1, <1>2, SwapIs
<1>4. Focus(s, ts) /\ Roomy(stack)
  BY <1>3, RoomIs DEF Swaps, Focus
<1>5. s \in Stacks /\ Len(s) = Top /\ s[Top] = n /\ DOMAIN s = DOMAIN stack /\ \A i \in DOMAIN stack : i # Top => s[i] = stack[i]
  <2>1. /\ Set(stack, Top, n) \in Stacks /\ Len(Set(stack, Top, n)) = Len(stack) /\ DOMAIN Set(stack, Top, n) = DOMAIN stack
        /\ Set(stack, Top, n)[Top] = n /\ \A i \in DOMAIN stack : i # Top => Set(stack, Top, n)[i] = stack[i]
    BY <1>1, <1>2, SetIs, ZenonT(30)
  <2> QED BY <1>1, <2>1
<1>6. /\ stack' \in Stacks /\ Len(stack') = Top /\ Placed(tasks', stack')
      /\ Hears(n) \in Mounted /\ Alike(n, Hears(n))
      /\ stack'[Top] = Hears(n) /\ \A i \in DOMAIN s : i # Top => stack'[i] = s[i]
      /\ \A t \in tasks' : t \in ts \/ (t.op = "mark" /\ t.was = "?" /\ t.at = Top)
  BY <1>2, <1>4, <1>5, FocusTop, ZenonT(30)
<1> QED BY <1>4, <1>5, <1>6

\* The handlers of the screen that is left go on detached.
LEMMA DetachSwap ==
    ASSUME Types, NEW n \in Mounted
    PROVE  Placed(Detach(Top), Set(stack, Top, n))
<1>1. stack \in Stacks /\ Len(stack) = Top /\ Top \in Nat /\ Top \in DOMAIN stack /\ DOMAIN stack = 1..Top
  BY TopIs
<1>2. /\ Set(stack, Top, n) \in Stacks /\ Len(Set(stack, Top, n)) = Len(stack)
      /\ \A i \in DOMAIN stack : i # Top => Set(stack, Top, n)[i] = stack[i]
  BY <1>1, SetIs
<1>3. \A i \in 1..(Top - 1) : i \in DOMAIN stack /\ i # Top
  BY <1>1
<1>4. Len(Set(stack, Top, n)) >= Top - 1
  BY <1>1, <1>2
<1>5. Beneath(stack, Set(stack, Top, n), Top - 1)
  BY <1>2, <1>3 DEF Beneath
<1> QED BY <1>2, <1>4, <1>5, PlacedDetached

LEMMA DetachedIs ==
    ASSUME Types, NEW u \in Detach(Top)
    PROVE  /\ u \in Tasks /\ u.at # Top
           /\ u.at # 0 => u \in tasks
<1>1. Top \in Nat /\ Top # 0
  BY TopIs
<1>2. PICK t \in tasks : /\ u.op = t.op /\ u \in Tasks
                         /\ u.at = IF t.at = Top THEN 0 ELSE t.at
                         /\ u = [t EXCEPT !.at = IF t.at = Top THEN 0 ELSE t.at]
  BY DetachIs
<1>3. ASSUME u.at # 0 PROVE u = t
  <2>1. t.at # Top
    BY <1>2, <1>3
  <2>2. u = [t EXCEPT !.at = t.at]
    BY <1>2, <2>1
  <2>3. t \in Tasks
    BY DEF Types, Placed
  <2> QED BY <2>2, <2>3 DEF Tasks
<1> QED BY <1>1, <1>2, <1>3

LEMMA LeavesIs ==
    ASSUME Types, Leaves
    PROVE  /\ Top > 1 /\ ("late" \in Windows \/ ~\E t \in tasks : t.op = "unlock" /\ t.at = Top)
           /\ ("gone" \in Windows \/ ~\E t \in tasks : t.op = "add" /\ t.at = Top)
           /\ phone' = Relocks(Screen) /\ phone' \in Phones /\ phone'.locked = phone.locked
           /\ stack' \in Stacks /\ Len(stack') = Top - 1 /\ \A i \in 1..(Top - 2) : stack'[i] = stack[i]
           /\ Top - 1 \in DOMAIN stack
           /\ IF phone.locked
              THEN stack'[Top - 1] = IF stack[Top - 1].kind \in {"tabs", "scan"} THEN Entry("lock", FALSE) ELSE stack[Top - 1]
              ELSE /\ stack'[Top - 1] = Hears(stack[Top - 1]) /\ Hears(stack[Top - 1]) \in Mounted
                   /\ Alike(stack[Top - 1], Hears(stack[Top - 1])) /\ Roomy(stack)
           /\ \A t \in tasks' : t \in Detach(Top) \/ (t.op = "mark" /\ t.was = "?" /\ t.at = Top - 1 /\ ~phone.locked)
           /\ UNCHANGED <<scene, left, db, log>> /\ Types'
<1>a. PICK f : f = Front(stack)
  OBVIOUS
<1>b. PICK n : n = Entry("lock", FALSE)
  OBVIOUS
<1>c. PICK s : s = Lands(f, phone.locked)
  OBVIOUS
<1>1. /\ Top > 1 /\ ("late" \in Windows \/ ~\E t \in tasks : t.op = "unlock" /\ t.at = Top)
      /\ ("gone" \in Windows \/ ~\E t \in tasks : t.op = "add" /\ t.at = Top)
      /\ phone' = Relocks(Screen) /\ UNCHANGED <<scene, left, db, log>>
      /\ IF phone.locked THEN stack' = s /\ tasks' = Detach(Top) ELSE Focus(s, Detach(Top))
  BY <1>a, <1>c DEF Leaves
<1>2. stack \in Stacks /\ phone \in Phones /\ Len(stack) = Top /\ Top \in Nat /\ DOMAIN stack = 1..Top
  BY TopIs
<1>3. f \in Stacks /\ Len(f) = Top - 1 /\ \A i \in 1..(Top - 1) : f[i] = stack[i]
  BY <1>1, <1>2, <1>a, FrontIs
<1>4. Top - 1 \in 1..(Top - 1) /\ Top - 1 \in DOMAIN stack /\ Top - 1 \in Nat /\ Top - 1 \in DOMAIN f
      /\ \A i \in 1..(Top - 2) : i \in 1..(Top - 1) /\ i # Top - 1 /\ i \in DOMAIN f
  BY <1>1, <1>2, <1>3, StackIs
<1>5. f[Top - 1] = stack[Top - 1]
  BY <1>3, <1>4
<1>6. phone' \in Phones /\ phone'.locked = phone.locked
  BY <1>1, <1>2, ReleasedIs DEF Relocks
<1>7. n \in Mounted /\ n.kind = "lock"
  BY <1>2, <1>b, EntryRoom, EntryIs DEF Kinds
<1>8. CASE phone.locked /\ stack[Top - 1].kind \in {"tabs", "scan"}
  <2>1. s = Set(f, Top - 1, n)
    BY <1>3, <1>5, <1>7, <1>8, <1>b, <1>c, SwapIs DEF Lands
  <2>0. f \in Stacks /\ Top - 1 \in DOMAIN f
    BY <1>3, <1>4
  <2>2. /\ s \in Stacks /\ Len(s) = Len(f) /\ s[Top - 1] = n
        /\ \A i \in DOMAIN f : i # Top - 1 => s[i] = f[i]
    BY <1>7, <2>0, <2>1, SetAt
  <2>3. s \in Stacks /\ Len(s) = Top - 1 /\ s[Top - 1] = n /\ \A i \in 1..(Top - 2) : s[i] = stack[i]
    BY <1>3, <1>4, <2>1, <2>2
  <2>4. Beneath(stack, s, Top - 1)
    <3> SUFFICES ASSUME NEW i \in 1..(Top - 1), i # Top - 1 PROVE s[i].kind = stack[i].kind
      BY <1>7, <1>8, <2>3 DEF Beneath
    <3>1. i \in 1..(Top - 2)
      BY <1>2
    <3> QED BY <2>3, <3>1
  <2>5. Placed(Detach(Top), s)
    <3>1. Len(s) >= Top - 1
      BY <1>4, <2>3
    <3> QED BY <2>3, <2>4, <3>1, PlacedDetached
  <2>6. stack' = s /\ tasks' = Detach(Top)
    BY <1>1, <1>8
  <2>7. Types'
    BY <1>1, <1>6, <2>3, <2>5, <2>6 DEF Types
  <2> QED BY <1>1, <1>4, <1>6, <1>8, <1>b, <2>3, <2>6, <2>7
<1>9. CASE ~(phone.locked /\ stack[Top - 1].kind \in {"tabs", "scan"})
  <2>1. s = f
    BY <1>3, <1>5, <1>9, <1>c DEF Lands
  <2>2. Placed(Detach(Top), f)
    <3>1. Len(f) >= Top - 1
      BY <1>3, <1>4
    <3>2. Beneath(stack, f, Top - 1)
      BY <1>3 DEF Beneath
    <3> QED BY <1>3, <3>1, <3>2, PlacedDetached
  <2>3. CASE phone.locked
    <3>1. stack' = f /\ tasks' = Detach(Top)
      BY <1>1, <2>1, <2>3
    <3>2. \A i \in 1..(Top - 2) : stack'[i] = stack[i]
      BY <1>3, <1>4, <3>1
    <3>3. Types'
      BY <1>1, <1>3, <1>6, <2>2, <3>1 DEF Types
    <3> QED BY <1>1, <1>3, <1>4, <1>5, <1>6, <1>9, <2>3, <3>1, <3>2, <3>3
  <2>4. CASE ~phone.locked
    <3>1. Focus(f, Detach(Top)) /\ Roomy(stack)
      BY <1>1, <2>1, <2>4, RoomIs DEF Focus
    <3>2. Len(f[Top - 1].loads) < MaxLoads
      BY <1>4, <1>5, <3>1 DEF Roomy
    <3>3. /\ stack' \in Stacks /\ Len(stack') = Top - 1 /\ Placed(tasks', stack')
          /\ Hears(f[Top - 1]) \in Mounted /\ Alike(f[Top - 1], Hears(f[Top - 1]))
          /\ stack'[Top - 1] = Hears(f[Top - 1]) /\ \A i \in DOMAIN f : i # Top - 1 => stack'[i] = f[i]
          /\ \A t \in tasks' : t \in Detach(Top) \/ (t.op = "mark" /\ t.was = "?" /\ t.at = Top - 1)
      BY <1>3, <2>2, <3>1, <3>2, FocusTop
    <3>4. \A i \in 1..(Top - 2) : stack'[i] = stack[i]
      BY <1>3, <1>4, <3>3
    <3>5. Types'
      BY <1>1, <1>6, <3>3 DEF Types
    <3> QED BY <1>1, <1>4, <1>5, <1>6, <2>4, <3>1, <3>3, <3>4, <3>5
  <2> QED BY <2>3, <2>4
<1> QED BY <1>8, <1>9

\* The visible screen has given way to a new one.
Swapped(kind, scanned, ts) ==
    LET e == Hears(Entry(kind, scanned)) IN
    /\ stack' \in Stacks /\ Len(stack') = Top /\ stack'[Top] = e
    /\ \A i \in DOMAIN stack : i # Top => stack'[i] = stack[i]
    /\ e \in Mounted /\ Alike(Entry(kind, scanned), e) /\ Roomy(stack)
    /\ \A t \in tasks' : t \in ts \/ (t.op = "mark" /\ t.was = "?" /\ t.at = Top)
    /\ Types'

LEMMA DoneIs ==
    ASSUME Types, Done
    PROVE  /\ Screen.kind = "verify"
           /\ \/ Leaves
              \/ Screen.scanned /\ Swapped("contact", FALSE, Detach(Top)) /\ UNCHANGED <<scene, left, db, log, phone>>
<1>1. Screen.kind = "verify" /\ (Leaves \/ (Screen.scanned /\ Swaps("contact", FALSE, Detach(Top)) /\ UNCHANGED <<scene, left, db, log, phone>>))
  BY DEF Done, Shows, On
<1>2. ASSUME Swaps("contact", FALSE, Detach(Top)), UNCHANGED <<scene, left, db, log, phone>>
      PROVE  Swapped("contact", FALSE, Detach(Top))
  <2>1. "contact" \in Kinds /\ Entry("contact", FALSE) \in Mounted
    BY TopIs, EntryIs DEF Kinds
  <2>2. Placed(Detach(Top), Set(stack, Top, Entry("contact", FALSE)))
    BY <2>1, DetachSwap
  <2> QED BY <1>2, <2>1, <2>2, SwapsIs DEF Swapped, Types
<1> QED BY <1>1, <1>2

LEMMA ScanAddsIs ==
    ASSUME Types, NEW t \in tasks, ScanAdds(t)
    PROVE  /\ Swapped("verify", TRUE, Detach(Top)) /\ t.op = "add"
           /\ \A u \in tasks' : u.op = "add" => u # t /\ u # [t EXCEPT !.at = 0]
           /\ db' = [db EXCEPT !.there = TRUE] /\ UNCHANGED <<scene, left, log, phone>>
<1> DEFINE ts == Detach(Top) \ {t, [t EXCEPT !.at = 0]}
<1>1. t.op = "add" /\ db' = [db EXCEPT !.there = TRUE] /\ Swaps("verify", TRUE, ts) /\ UNCHANGED <<scene, left, log, phone>>
  BY DEF ScanAdds
<1>2. "verify" \in Kinds /\ Entry("verify", TRUE) \in Mounted /\ db \in Bases
  BY TopIs, EntryIs DEF Kinds
<1>3. Placed(Detach(Top), Set(stack, Top, Entry("verify", TRUE)))
  BY <1>2, DetachSwap
<1>4. Placed(ts, Set(stack, Top, Entry("verify", TRUE)))
  BY <1>3 DEF Placed
<1>5. db' \in Bases /\ left' \in 0..MaxWrites /\ scene' \in Scenes /\ phone' \in Phones
  BY <1>1, <1>2 DEF Types, Bases
<1>6. t \notin ts /\ [t EXCEPT !.at = 0] \notin ts
  OBVIOUS
<1> HIDE DEF ts
<1>7. /\ stack' \in Stacks /\ Len(stack') = Top /\ stack'[Top] = Hears(Entry("verify", TRUE))
      /\ \A i \in DOMAIN stack : i # Top => stack'[i] = stack[i]
      /\ Hears(Entry("verify", TRUE)) \in Mounted /\ Alike(Entry("verify", TRUE), Hears(Entry("verify", TRUE)))
      /\ Roomy(stack) /\ Placed(tasks', stack')
      /\ \A u \in tasks' : u \in ts \/ (u.op = "mark" /\ u.was = "?" /\ u.at = Top)
  BY <1>1, <1>2, <1>4, SwapsIs
<1>8. Types'
  BY <1>5, <1>7 DEF Types
<1>9. \A u \in tasks' : u \in Detach(Top) \/ (u.op = "mark" /\ u.was = "?" /\ u.at = Top)
  BY <1>7 DEF ts
<1>10. \A u \in tasks' : u.op = "add" => u # t /\ u # [t EXCEPT !.at = 0]
  BY <1>6, <1>7
<1> QED BY <1>1, <1>7, <1>8, <1>9, <1>10 DEF Swapped

LEMMA AppUnlockIs ==
    ASSUME Types, AppUnlock
    PROVE  /\ Swapped("tabs", FALSE, tasks) /\ Screen.kind = "lock" /\ phone.locked
           /\ phone' = [phone EXCEPT !.locked = FALSE] /\ UNCHANGED <<scene, left, db, log>>
           /\ phone'.released = phone.released /\ ~phone'.locked
<1>1. /\ Screen.kind = "lock" /\ phone.locked /\ phone' = [phone EXCEPT !.locked = FALSE] /\ UNCHANGED <<scene, left, db, log>>
      /\ Swaps("tabs", FALSE, tasks)
  BY DEF AppUnlock
<1>2. "tabs" \in Kinds /\ Entry("tabs", FALSE) \in Mounted /\ Entry("tabs", FALSE).kind = "tabs" /\ phone \in Phones
      /\ stack \in Stacks /\ Len(stack) = Top /\ Top \in DOMAIN stack /\ Screen = stack[Top]
  BY TopIs, EntryIs DEF Kinds
<1>3. phone' \in Phones /\ phone'.released = phone.released /\ ~phone'.locked
  BY <1>1, <1>2 DEF Phones
<1>a. PICK n : n = Entry("tabs", FALSE)
  OBVIOUS
<1>b. PICK s : s = Set(stack, Top, n)
  OBVIOUS
<1>c. n \in Mounted /\ n.kind = "tabs"
  BY <1>2, <1>a
<1>4. s \in Stacks /\ Len(s) = Len(stack) /\ s[Top] = n /\ \A i \in DOMAIN stack : i # Top => s[i] = stack[i]
  BY <1>2, <1>b, <1>c, SetAt
<1>5. Placed(tasks, s)
  <2> SUFFICES ASSUME NEW t \in tasks PROVE t \in Tasks /\ t.at \in 0..Len(s) /\ (t.at # 0 => s[t.at].kind \in From(t.op))
    BY DEF Placed
  <2>1. t \in Tasks /\ t.at \in 0..Len(stack) /\ (t.at # 0 => stack[t.at].kind \in From(t.op))
    BY DEF Types, Placed
  <2>2. CASE t.at = Top
    BY <1>1, <1>2, <1>4, <1>c, <2>1, <2>2, TopIs DEF From
  <2>3. CASE t.at # Top /\ t.at # 0
    <3>1. t.at \in DOMAIN stack
      BY <2>1, <2>3, TopIs, Somewhere
    <3> QED BY <1>4, <2>1, <2>3, <3>1
  <2>4. CASE t.at = 0
    BY <1>4, <2>1, <2>4
  <2> QED BY <2>2, <2>3, <2>4
<1>6. Types'
  <2>1. stack' \in Stacks /\ Placed(tasks', stack')
    BY <1>1, <1>2, <1>5, <1>a, <1>b, SwapsIs
  <2> QED BY <1>1, <1>3, <2>1 DEF Types
<1>7. Swapped("tabs", FALSE, tasks)
  BY <1>1, <1>2, <1>5, <1>6, <1>a, <1>b, SwapsIs DEF Swapped
<1> QED BY <1>1, <1>3, <1>7

\* What the app lock leaves of a screen.
Cleared(e) == [e EXCEPT !.loads = <<>>, !.busy = {}, !.list = NoList]
ClearedStack == [i \in DOMAIN stack |-> Cleared(stack[i])]

LEMMA ClearedIs ==
    ASSUME NEW e \in Mounted
    PROVE  /\ Cleared(e) \in Mounted /\ Cleared(e).kind = e.kind /\ Cleared(e).seen = e.seen
           /\ Cleared(e).open = e.open /\ Cleared(e).loads = <<>> /\ Cleared(e).busy = {}
<1>1. NoList \in Lists /\ NoList.read = <<>>
  BY DEF NoList, NoRow, Lists, Rows
<1>2. e \in Entries
  BY MountedIs
<1>3. <<>> \in Seq(Items) /\ Len(<<>>) = 0 /\ 0 <= MaxLoads
  BY Bounds
<1>4. Cleared(e) \in Entries /\ Cleared(e).kind = e.kind /\ Cleared(e).seen = e.seen /\ Cleared(e).open = e.open
      /\ Cleared(e).loads = <<>> /\ Cleared(e).busy = {} /\ Cleared(e).list = NoList
  BY <1>1, <1>2, <1>3 DEF Cleared, Entries
<1>5. Len(Cleared(e).loads) <= MaxLoads /\ Unasked(Cleared(e))
  BY <1>3, <1>4 DEF Unasked
<1> QED BY <1>1, <1>4, <1>5 DEF Mounted

LEMMA AppLockIs ==
    ASSUME Types, AppLock
    PROVE  /\ ~phone.locked /\ ("late" \in Windows \/ ~\E t \in tasks : t.op = "unlock")
           /\ phone' = [phone EXCEPT !.locked = TRUE, !.released = FALSE]
           /\ phone'.locked /\ ~phone'.released
           /\ tasks' = {t \in tasks : t.op = "unlock"} /\ UNCHANGED <<scene, left, db, log>>
           /\ stack' \in Stacks /\ Len(stack') = Top /\ Types'
           /\ \A i \in DOMAIN stack : i # Top => stack'[i] = Cleared(stack[i])
           /\ stack'[Top] = IF Screen.kind \in {"tabs", "scan"} THEN Entry("lock", FALSE) ELSE Cleared(Screen)
<1>a. PICK s : s = ClearedStack
  OBVIOUS
<1>b. PICK n : n = Entry("lock", FALSE)
  OBVIOUS
<1>1. /\ ~phone.locked /\ ("late" \in Windows \/ ~\E t \in tasks : t.op = "unlock")
      /\ phone' = [phone EXCEPT !.locked = TRUE, !.released = FALSE]
      /\ tasks' = {t \in tasks : t.op = "unlock"} /\ UNCHANGED <<scene, left, db, log>>
      /\ stack' = Lands(s, TRUE)
  BY <1>a DEF AppLock, ClearedStack, Cleared
<1>2. stack \in Stacks /\ phone \in Phones /\ Len(stack) = Top /\ Top \in DOMAIN stack /\ Screen = stack[Top]
      /\ \A i \in DOMAIN stack : stack[i] \in Mounted
  BY TopIs
<1>3. phone' \in Phones /\ phone'.locked /\ ~phone'.released
  BY <1>1, <1>2 DEF Phones
<1>4. n \in Mounted /\ n.kind = "lock"
  BY <1>2, <1>b, EntryRoom, EntryIs DEF Kinds
<1>5. \A i \in DOMAIN stack : Cleared(stack[i]) \in Mounted /\ Cleared(stack[i]).kind = stack[i].kind
  BY <1>2, ClearedIs
<1>6. s \in Stacks /\ Len(s) = Top /\ DOMAIN s = DOMAIN stack /\ \A i \in DOMAIN stack : s[i] = Cleared(stack[i])
  <2>1. ClearedStack \in Stacks /\ Len(ClearedStack) = Len(stack) /\ DOMAIN ClearedStack = DOMAIN stack
    BY <1>2, <1>5 DEF ClearedStack, Stacks
  <2>2. \A i \in DOMAIN stack : ClearedStack[i] = Cleared(stack[i])
    BY DEF ClearedStack
  <2> QED BY <1>2, <1>a, <2>1, <2>2
<1>7. s[Top].kind = Screen.kind /\ s[Top] = Cleared(Screen)
  BY <1>2, <1>5, <1>6
<1>8. /\ stack' \in Stacks /\ Len(stack') = Top
      /\ \A i \in DOMAIN stack : i # Top => stack'[i] = Cleared(stack[i])
      /\ stack'[Top] = IF Screen.kind \in {"tabs", "scan"} THEN n ELSE Cleared(Screen)
  <2>1. CASE Screen.kind \in {"tabs", "scan"}
    <3>1. stack' = Append(Front(s), n)
      BY <1>1, <1>6, <1>7, <1>b, <2>1 DEF Lands
    <3>2. stack' = Set(s, Top, n)
      BY <1>4, <1>6, <3>1, SwapIs
    <3>3. s \in Stacks /\ n \in Mounted /\ stack' = Set(s, Top, n)
      BY <1>2, <1>4, <1>6, <3>2
    <3>4. Top \in DOMAIN s
      BY <1>2, <1>6
    <3>5. stack' \in Stacks /\ Len(stack') = Len(s) /\ stack'[Top] = n /\ \A j \in DOMAIN s : j # Top => stack'[j] = s[j]
      BY <3>3, <3>4, SetAt
    <3> QED BY <1>6, <2>1, <3>5
  <2>2. CASE Screen.kind \notin {"tabs", "scan"}
    <3>1. stack' = s
      BY <1>1, <1>6, <1>7, <2>2 DEF Lands
    <3> QED BY <1>6, <1>7, <2>2, <3>1
  <2> QED BY <2>1, <2>2
<1>9. Placed(tasks', stack')
  <2> SUFFICES ASSUME NEW t \in tasks, t.op = "unlock" PROVE t \in Tasks /\ t.at \in 0..Len(stack') /\ (t.at # 0 => stack'[t.at].kind \in From(t.op))
    BY <1>1 DEF Placed
  <2>1. t \in Tasks /\ t.at \in 0..Len(stack) /\ (t.at # 0 => stack[t.at].kind \in {"chat", "contact"})
    BY DEF Types, Placed, From
  <2>2. ASSUME t.at # 0 PROVE stack'[t.at].kind = stack[t.at].kind
    <3>1. t.at \in DOMAIN stack
      BY <2>1, <2>2, TopIs, Somewhere
    <3> QED BY <1>2, <1>5, <1>8, <2>1, <2>2, <3>1
  <2> QED BY <1>2, <1>8, <2>1, <2>2 DEF From
<1>10. Types'
  BY <1>1, <1>3, <1>8, <1>9 DEF Types
<1> QED BY <1>1, <1>3, <1>8, <1>10, <1>b

LEMMA DeleteContactIs ==
    ASSUME Types, DeleteContact
    PROVE  /\ Screen.kind = "contact" /\ ("late" \in Windows \/ ~\E t \in tasks : t.op = "unlock" /\ t.at = Top)
           /\ db' = Removed /\ phone'.locked = phone.locked /\ phone'.released = FALSE /\ log' = log
           /\ tasks' = Detach(Top) /\ Roomy(stack) /\ Types'
           /\ stack' \in Stacks /\ Len(stack') = Top
           /\ stack'[Top] = Hears(Entry("tabs", FALSE)) /\ Hears(Entry("tabs", FALSE)) \in Mounted
           /\ Alike(Entry("tabs", FALSE), Hears(Entry("tabs", FALSE)))
           /\ \A i \in DOMAIN stack : i # Top => stack'[i] = Hears(stack[i]) /\ Steady(stack[i], stack'[i])
<1>a. PICK n : n = Entry("tabs", FALSE)
  OBVIOUS
<1>1. /\ Screen.kind = "contact" /\ ("late" \in Windows \/ ~\E t \in tasks : t.op = "unlock" /\ t.at = Top) /\ Roomy(stack)
      /\ db' = Removed /\ phone' = [phone EXCEPT !.released = FALSE] /\ tasks' = Detach(Top) /\ UNCHANGED <<scene, left, log>>
      /\ stack' = [i \in DOMAIN stack |-> IF i = Top THEN Hears(n) ELSE Hears(stack[i])]
  BY <1>a, RoomIs DEF DeleteContact, InPage, Shows, On
<1>2. stack \in Stacks /\ phone \in Phones /\ db \in Bases /\ Len(stack) = Top /\ Top \in DOMAIN stack /\ Top \in Nat
      /\ \A i \in DOMAIN stack : stack[i] \in Mounted
  BY TopIs
<1>3. n \in Mounted /\ Hears(n) \in Mounted /\ Alike(n, Hears(n))
  BY <1>2, <1>a, EntryRoom DEF Kinds
<1>4. \A i \in DOMAIN stack : Hears(stack[i]) \in Mounted /\ Alike(stack[i], Hears(stack[i])) /\ Steady(stack[i], Hears(stack[i]))
  BY <1>1, <1>2, HearsIs, HearsSteady DEF Roomy
<1>5. stack' \in Stacks /\ Len(stack') = Top /\ stack'[Top] = Hears(n) /\ \A i \in DOMAIN stack : i # Top => stack'[i] = Hears(stack[i])
  BY <1>1, <1>2, <1>3, <1>4, SMTT(30) DEF Stacks
<1>6. Placed(tasks', stack')
  <2>1. Beneath(stack, stack', Top - 1)
    <3> SUFFICES ASSUME NEW i \in 1..(Top - 1) PROVE stack'[i].kind = stack[i].kind
      BY DEF Beneath
    <3>1. i \in DOMAIN stack /\ i # Top
      BY <1>2, TopIs
    <3> QED BY <1>4, <1>5, <3>1 DEF Alike
  <2>2. Len(stack') >= Top - 1
    BY <1>2, <1>5
  <2> QED BY <1>1, <1>5, <2>1, <2>2, PlacedDetached
<1>7. phone' \in Phones /\ phone'.locked = phone.locked /\ phone'.released = FALSE
  BY <1>1, <1>2, ReleasedIs
<1>8. Types'
  BY <1>1, <1>2, <1>5, <1>6, <1>7, RemovedIs DEF Types
<1> QED BY <1>1, <1>3, <1>4, <1>5, <1>7, <1>8, <1>a

-----------------------------------------------------------------------------
(* The steps that are not ordinary.                                        *)

Removes == RemoveLock /\ phone.released /\ db.lock
OpensChat == OpenChatFromList \/ PickContact \/ OpenChatFromContact
OpensOther == OpenContactFromTabs \/ OpenContactFromChat \/ OpenVerify \/ OpenScanner

Special ==
    \/ \E i \in DOMAIN stack : Load(i) \/ ListReads(i) \/ ListShows(i)
    \/ \E t \in tasks : \/ MarkReads(t) \/ AnswerReads(t) \/ AnswerWrites(t) \/ ScanAdds(t)
                        \/ \E right \in BOOLEAN : UnlockEnds(t, right)
    \/ StartUnlock \/ EnableLock \/ Removes \/ ForgotCode
    \/ DeleteChat \/ DeleteContactFromTabs \/ DeleteContact
    \/ \E k \in Asks : AsksFor(k) \/ PeerAsks(k)
    \/ \E k \in Asks, yes \in BOOLEAN : TapInChat(k, yes) \/ TapInContact(k, yes)
    \/ \E f \in {"muted", "blocked"} : Toggle(f)
    \/ OpensChat \/ OpensOther \/ Leaves \/ Done \/ AppLock \/ AppUnlock

LEMMA Steps == ASSUME Types, Next PROVE Calm \/ Special
<1>1. ASSUME Moves PROVE Calm \/ Special
  BY <1>1, BackgroundCalm, ForegroundCalm DEF Moves, Special, OpensChat, OpensOther, Back
<1>2. ASSUME Reads PROVE Calm \/ Special
  BY <1>2, PollCalm, MarkWritesCalm DEF Reads, Special
<1>3. ASSUME Locking PROVE Calm \/ Special
  <2>1. ASSUME ChangeCode PROVE Calm
    BY <2>1, FallsBackCalm DEF ChangeCode
  <2>2. ASSUME RemoveLock PROVE Calm \/ Removes
    BY <2>2, FallsBackCalm DEF RemoveLock, Removes
  <2> QED BY <1>3, <2>1, <2>2, OpenLockSheetCalm, CloseSheetCalm DEF Locking, Special
<1>4. ASSUME Talking PROVE Calm \/ Special
  BY <1>4, SendTextCalm, SendPhotoCalm, OpenMenuCalm, PeerSendsCalm, VanishesCalm, SendEndsCalm,
     DeleteForMeCalm, DeleteForEveryoneCalm, ClearChatCalm DEF Talking, Special
<1>5. ASSUME Asking PROVE Calm \/ Special
  BY <1>5, PeerEndsCalm DEF Asking, Special
<1>6. ASSUME Person PROVE Calm \/ Special
  BY <1>6, ReportBlocksCalm, ConfirmCalm, PeerConfirmsCalm, ScanCodeCalm, ScanAgainCalm, AddAnywayCalm, ScanFailsCalm
     DEF Person, Special
<1> QED BY <1>1, <1>2, <1>3, <1>4, <1>5, <1>6 DEF Next

\* A write about the lock, the chat or the contact, told to every screen.
Rewritten ==
    /\ Told /\ log' = log /\ phone'.locked = phone.locked
    /\ \A k \in Asks : db'.pend[k] \in {db.pend[k], "none"}

EnablesLock == [db EXCEPT !.lock = TRUE]
RemovesLock == [db EXCEPT !.lock = FALSE]
Forgets == [db EXCEPT !.lock = FALSE, !.msgs = NoMessages]

LEMMA LocksIs ==
    ASSUME db \in Bases
    PROVE  /\ EnablesLock \in Bases /\ EnablesLock.lock = TRUE /\ EnablesLock.there = db.there
           /\ EnablesLock.pend = db.pend /\ EnablesLock.msgs = db.msgs
           /\ RemovesLock \in Bases /\ RemovesLock.lock = FALSE /\ RemovesLock.there = db.there
           /\ RemovesLock.pend = db.pend /\ RemovesLock.msgs = db.msgs
           /\ Forgets \in Bases /\ Forgets.lock = FALSE /\ Forgets.there = db.there
           /\ Forgets.pend = db.pend /\ Forgets.msgs = NoMessages
<1>1. NoMessages \in [Msgs -> States]
  BY DEF NoMessages, States
<1> QED BY <1>1 DEF EnablesLock, RemovesLock, Forgets, Bases

LEMMA EnableLockIs ==
    ASSUME Types, EnableLock
    PROVE  /\ Rewritten /\ db' = EnablesLock /\ phone'.released = TRUE /\ Screen.kind = "contact" /\ Ready
           /\ ("enable" \in Windows \/ ~Has(stack, "chat"))
<1>1. LockChanges(EnablesLock, TRUE) /\ Screen.kind = "contact" /\ Ready /\ ("enable" \in Windows \/ ~Has(stack, "chat"))
  BY DEF EnableLock, EnablePanel, InSheet, EnablesLock
<1>2. db \in Bases /\ EnablesLock \in Bases /\ EnablesLock.pend = db.pend /\ TRUE \in BOOLEAN
  BY TopIs, LocksIs
<1>3. Told /\ db' = EnablesLock /\ phone'.locked = phone.locked /\ phone'.released = TRUE /\ log' = log
  BY <1>1, <1>2, LockChangesIs
<1> QED BY <1>1, <1>2, <1>3 DEF Rewritten

LEMMA RemovesIs ==
    ASSUME Types, Removes
    PROVE  /\ Rewritten /\ db' = RemovesLock /\ phone'.released = FALSE /\ Screen.kind = "contact"
<1>1. LockChanges(RemovesLock, FALSE) /\ Screen.kind = "contact"
  BY DEF Removes, RemoveLock, Manages, ManagePanel, InSheet, RemovesLock
<1>2. db \in Bases /\ RemovesLock \in Bases /\ RemovesLock.pend = db.pend /\ FALSE \in BOOLEAN
  BY TopIs, LocksIs
<1>3. Told /\ db' = RemovesLock /\ phone'.locked = phone.locked /\ phone'.released = FALSE /\ log' = log
  BY <1>1, <1>2, LockChangesIs
<1> QED BY <1>1, <1>2, <1>3 DEF Rewritten

LEMMA ForgotCodeIs ==
    ASSUME Types, ForgotCode
    PROVE  /\ Rewritten /\ db' = Forgets /\ phone'.released = FALSE /\ Screen.kind = "contact"
<1>1. LockChanges(Forgets, FALSE) /\ Screen.kind = "contact"
  BY DEF ForgotCode, CodePanel, InSheet, Forgets
<1>2. db \in Bases /\ Forgets \in Bases /\ Forgets.pend = db.pend /\ FALSE \in BOOLEAN
  BY TopIs, LocksIs
<1>3. Told /\ db' = Forgets /\ phone'.locked = phone.locked /\ phone'.released = FALSE /\ log' = log
  BY <1>1, <1>2, LockChangesIs
<1> QED BY <1>1, <1>2, <1>3 DEF Rewritten

LEMMA RewrittenIs ==
    ASSUME Types, EnableLock \/ Removes \/ ForgotCode \/ DeleteChat \/ DeleteContactFromTabs
    PROVE  Rewritten
<1>1. CASE EnableLock \/ Removes \/ ForgotCode
  BY <1>1, EnableLockIs, RemovesIs, ForgotCodeIs
<1>2. CASE DeleteChat
  BY <1>2, DeleteChatIs DEF Rewritten
<1>3. CASE DeleteContactFromTabs
  <2>1. Removed.pend = [k \in Asks |-> "none"]
    BY TopIs, RemovedIs
  <2> QED BY <1>3, <2>1, DeleteContactFromTabsIs DEF Rewritten
<1> QED BY <1>1, <1>2, <1>3

\* A screen on top of the others.
Opened(kind) ==
    LET e == Hears(Entry(kind, FALSE)) IN
    /\ Top < MaxDepth /\ ("twice" \notin Windows /\ kind = "chat" => ~Has(stack, "chat"))
    /\ stack' \in Stacks /\ Len(stack') = Top + 1 /\ stack'[Top + 1] = e /\ \A i \in DOMAIN stack : stack'[i] = stack[i]
    /\ e \in Mounted /\ Alike(Entry(kind, FALSE), e)
    /\ \A t \in tasks' : t \in tasks \/ (t.op = "mark" /\ t.was = "?" /\ t.at = Top + 1)
    /\ UNCHANGED <<scene, left, db, log, phone>> /\ Types' /\ Roomy(stack)
    /\ Ready /\ Screen.kind \in {"tabs", "chat", "contact"}

LEMMA OpenedIs == ASSUME Types, NEW kind \in Kinds, Opens(kind), Ready, Screen.kind \in {"tabs", "chat", "contact"} PROVE Opened(kind)
BY OpensIs DEF Opened

LEMMA OpensChatIs ==
    ASSUME Types, OpensChat
    PROVE  /\ Opened("chat")
           /\ \/ Screen.kind = "tabs"
              \/ Screen.kind = "contact" /\ ("late" \in Windows \/ ~\E t \in tasks : t.op = "unlock")
<1>1. Opens("chat") /\ Ready
  BY DEF OpensChat, OpenChatFromList, PickContact, OpenChatFromContact, InPage, Shows, On
<1>2. CASE OpenChatFromList \/ PickContact
  <2>1. Screen.kind = "tabs"
    BY <1>2 DEF OpenChatFromList, PickContact, On
  <2> QED BY <1>1, <2>1, OpenedIs DEF Kinds
<1>3. CASE OpenChatFromContact
  <2>1. Screen.kind = "contact"
    BY <1>3 DEF OpenChatFromContact, InPage, Shows, On
  <2>2. "late" \in Windows \/ ~\E t \in tasks : t.op = "unlock"
    BY <1>3 DEF OpenChatFromContact
  <2> QED BY <1>1, <2>1, <2>2, OpenedIs DEF Kinds
<1> QED BY <1>2, <1>3 DEF OpensChat

LEMMA OpensOtherIs ==
    ASSUME Types, OpensOther
    PROVE  \/ Opened("contact") /\ (Screen.kind = "tabs" \/ (Screen.kind = "chat" /\ Screen.seen.there /\ ~Gated(Screen)))
           \/ Opened("verify") /\ ((Screen.kind = "chat" /\ Screen.seen.there /\ ~Gated(Screen)) \/ Screen.kind = "contact")
           \/ Opened("scan") /\ Screen.kind = "tabs"
<1>1. CASE OpenContactFromTabs
  BY <1>1, OpenedIs DEF OpenContactFromTabs, On, Kinds
<1>2. CASE OpenContactFromChat
  BY <1>2, OpenedIs DEF OpenContactFromChat, InChat, Shows, On, Kinds
<1>3. CASE OpenVerify
  BY <1>3, OpenedIs DEF OpenVerify, VerifyPanel, InPage, InChat, Shows, On, Kinds
<1>4. CASE OpenScanner
  BY <1>4, OpenedIs DEF OpenScanner, On, Kinds
<1> QED BY <1>1, <1>2, <1>3, <1>4 DEF OpensOther

-----------------------------------------------------------------------------
(* The bottom of the stack.                                                *)

\* The screens are the same, and no code is being handled that was not before.
LEMMA BottomSame ==
    ASSUME Types, Bottom(stack, tasks), Types', Shape(stack, stack'),
           \A t \in tasks' : t \in tasks \/ t.op # "add"
    PROVE  Bottom(stack', tasks')
<1>1. stack \in Stacks /\ stack' \in Stacks
  BY DEF Types
<1>2. \A t \in tasks' : t.op = "add" => t \in tasks \/ (t.at = Len(stack) /\ stack[t.at].kind = "scan")
  OBVIOUS
<1> QED BY <1>1, <1>2, BottomKept

LEMMA ChangesBottom ==
    ASSUME Types, Bottom(stack, tasks), Types', NEW i, NEW q, Changes(i, q), \A t \in tasks' : t \in tasks \/ t.op # "add"
    PROVE  Bottom(stack', tasks')
BY Changed, BottomSame

LEMMA LoadBottom ==
    ASSUME Types, Bottom(stack, tasks), NEW i \in DOMAIN stack, Load(i)
    PROVE  Bottom(stack', tasks')
<1>1. Types'
  BY LoadTypes
<1>2. \E q : Changes(i, q)
  BY LoadIs
<1>3. \A t \in tasks' : t \in tasks \/ t.op # "add"
  BY LoadIs DEF Marking
<1> QED BY <1>1, <1>2, <1>3, ChangesBottom

LEMMA NoAdds ==
    ASSUME Types, Bottom(stack, tasks), Screen.kind # "scan"
    PROVE  \A t \in tasks : t.op # "add"
BY TopIs DEF Bottom

LEMMA HandlersBottom ==
    ASSUME Types, Bottom(stack, tasks), NEW t \in tasks, MarkReads(t) \/ AnswerReads(t)
    PROVE  Bottom(stack', tasks')
<1>1. \E u \in Tasks : u.op \in {"mark", "answer"} /\ tasks' = (tasks \ {t}) \cup {u} /\ Types' /\ stack' = stack
  BY MarkReadsIs, AnswerReadsIs
<1>2. \A u \in tasks' : u \in tasks \/ u.op # "add"
  BY <1>1
<1> QED BY <1>1, <1>2, BottomSame DEF Shape

LEMMA SameViewsShape == ASSUME NEW s, NEW q, SameViews(s, q) PROVE Shape(s, q)
BY DEF SameViews, SameView, Shape

LEMMA AnswerWritesBottom ==
    ASSUME Types, Bottom(stack, tasks), NEW t \in tasks, AnswerWrites(t)
    PROVE  Bottom(stack', tasks')
<1> PICK s : s = IF t.at = 0 THEN stack ELSE Set(stack, t.at, Answered(stack[t.at]))
  OBVIOUS
<1>1. /\ s \in Stacks /\ SameViews(stack, s) /\ Types' /\ phone \in Phones
      /\ \/ stack' = s /\ tasks' = tasks \ {t}
         \/ HaveHeard(s, stack') /\ tasks' = (tasks \ {t}) \cup Marks(s, phone.fg)
  BY AnswerWritesIs, TopIs
<1>2. Shape(stack, stack')
  BY <1>1, SameViewsShape, StackIs DEF HaveHeard, Alike, Shape
<1>3. \A u \in tasks' : u \in tasks \/ u.op # "add"
  BY <1>1, MarksIs DEF Phones
<1> QED BY <1>1, <1>2, <1>3, BottomSame

LEMMA UnlockEndsBottom ==
    ASSUME Types, Bottom(stack, tasks), NEW t \in tasks, NEW right \in BOOLEAN, UnlockEnds(t, right)
    PROVE  Bottom(stack', tasks')
<1>1. tasks' = tasks \ {t} /\ Types' /\ (stack' = stack \/ \E i, q : Changes(i, q))
  BY UnlockEndsIs
<1>2. CASE stack' = stack
  BY <1>1, <1>2, BottomSame DEF Shape
<1>3. CASE \E i, q : Changes(i, q)
  BY <1>1, <1>3, ChangesBottom
<1> QED BY <1>1, <1>2, <1>3

LEMMA ToldBottom ==
    ASSUME Types, Bottom(stack, tasks), Told
    PROVE  Bottom(stack', tasks')
<1>1. Types' /\ Shape(stack, stack') /\ \A t \in tasks' : t \in tasks \/ t.op # "add"
  BY TopIs, SteadyShape DEF Told
<1> QED BY <1>1, BottomSame

LEMMA TapsBottom ==
    ASSUME Types, Bottom(stack, tasks), NEW k \in Asks, NEW yes \in BOOLEAN, TapInChat(k, yes) \/ TapInContact(k, yes)
    PROVE  Bottom(stack', tasks')
<1>1. CASE TapInChat(k, yes)
  <2>1. Types' /\ (\E i, q : Changes(i, q)) /\ \A t \in tasks' : t \in tasks \/ t.op # "add"
    BY <1>1, TapInChatIs
  <2> QED BY <2>1, ChangesBottom
<1>2. CASE TapInContact(k, yes)
  <2>1. Types' /\ stack' = stack /\ \A t \in tasks' : t \in tasks \/ t.op # "add"
    BY <1>2, TapInContactIs
  <2> QED BY <2>1, BottomSame DEF Shape
<1> QED BY <1>1, <1>2

LEMMA OpenedBottom ==
    ASSUME Types, Bottom(stack, tasks), NEW kind, Opened(kind)
    PROVE  Bottom(stack', tasks')
<1>1. stack'[1] = stack[1]
  BY TopIs, StackIs DEF Opened
<1>2. \A t \in tasks' : t.op # "add"
  BY NoAdds DEF Opened
<1> QED BY <1>1, <1>2 DEF Bottom

\* A screen that is no tab is not at the bottom.
LEMMA NotFirst ==
    ASSUME Types, Bottom(stack, tasks), Screen.kind \notin {"tabs", "lock"}
    PROVE  1 \in DOMAIN stack /\ 1 # Top
BY TopIs DEF Bottom

LEMMA DetachedAdds ==
    ASSUME Types, Bottom(stack, tasks), Screen.kind # "scan" \/ ~\E t \in tasks : t.op = "add" /\ t.at = Top, NEW u \in Detach(Top)
    PROVE  u.op # "add"
<1>1. \E t \in tasks : u.op = t.op
  BY DetachIs
<1> QED BY <1>1, TopIs DEF Bottom

LEMMA LeavesBottom ==
    ASSUME Types, Bottom(stack, tasks), "gone" \notin Windows, Leaves
    PROVE  Bottom(stack', tasks')
<1>1. \A t \in tasks' : t.op # "add"
  BY LeavesIs, DetachedAdds
<1>2. stack'[1].kind \in {"tabs", "lock"}
  <2>1. Top \in Nat /\ Top > 1 /\ stack[1].kind \in {"tabs", "lock"} /\ phone \in Phones
    BY LeavesIs, TopIs DEF Bottom
  <2>2. CASE Top - 1 = 1
    <3>1. CASE phone.locked
      <4>1. Entry("lock", FALSE).kind = "lock"
        BY DEF Entry
      <4> QED BY <2>1, <2>2, <3>1, <4>1, LeavesIs
    <3>2. CASE ~phone.locked
      BY <2>1, <2>2, <3>2, LeavesIs DEF Alike
    <3> QED BY <3>1, <3>2
  <2>3. CASE Top - 1 # 1
    <3>1. 1 \in 1..(Top - 2)
      BY <2>1, <2>3
    <3> QED BY <2>1, <3>1, LeavesIs
  <2> QED BY <2>2, <2>3
<1> QED BY <1>1, <1>2 DEF Bottom

LEMMA DoneBottom ==
    ASSUME Types, Bottom(stack, tasks), "gone" \notin Windows, Done
    PROVE  Bottom(stack', tasks')
<1>1. CASE Leaves
  BY <1>1, LeavesBottom
<1>2. CASE Swapped("contact", FALSE, Detach(Top)) /\ Screen.kind = "verify"
  <2>1. stack'[1] = stack[1]
    BY <1>2, NotFirst DEF Swapped
  <2>2. \A t \in tasks' : t.op # "add"
    BY <1>2, DetachedAdds DEF Swapped
  <2> QED BY <2>1, <2>2 DEF Bottom
<1> QED BY <1>1, <1>2, DoneIs

LEMMA ScanAddsBottom ==
    ASSUME Types, Bottom(stack, tasks), NEW t \in tasks, ScanAdds(t)
    PROVE  Bottom(stack', tasks')
<1>1. Swapped("verify", TRUE, Detach(Top)) /\ t.op = "add"
      /\ \A u \in tasks' : u.op = "add" => u # t /\ u # [t EXCEPT !.at = 0]
  BY ScanAddsIs
<1>2. t.at = Top /\ Screen.kind = "scan"
  BY <1>1, TopIs DEF Bottom
<1>3. stack'[1] = stack[1]
  BY <1>1, <1>2, NotFirst DEF Swapped
<1>4. ASSUME NEW u \in tasks', u.op = "add" PROVE FALSE
  <2>1. u \in Detach(Top)
    BY <1>1, <1>4 DEF Swapped
  <2>2. PICK v \in tasks : u.op = v.op /\ u.at = (IF v.at = Top THEN 0 ELSE v.at)
                           /\ u = [v EXCEPT !.at = IF v.at = Top THEN 0 ELSE v.at]
    BY <2>1, DetachIs
  <2>3. v.op = "add" /\ v.at = Top
    BY <1>4, <2>2, TopIs DEF Bottom
  <2>4. v = t
    <3>1. v \in Tasks /\ t \in Tasks
      BY DEF Types, Placed
    <3>2. v \in [op : {"add"}, at : Nat] /\ t \in [op : {"add"}, at : Nat]
      BY <1>1, <2>3, <3>1, TaskIs
    <3> QED BY <1>1, <1>2, <2>3, <3>2
  <2>5. u = [t EXCEPT !.at = 0]
    BY <2>2, <2>3, <2>4
  <2> QED BY <1>1, <1>4, <2>5
<1> QED BY <1>3, <1>4 DEF Bottom

LEMMA AppLockBottom ==
    ASSUME Types, Bottom(stack, tasks), AppLock
    PROVE  Bottom(stack', tasks')
<1>1. \A t \in tasks' : t.op # "add"
  BY AppLockIs
<1>2. stack'[1].kind \in {"tabs", "lock"}
  <2>1. stack[1].kind \in {"tabs", "lock"} /\ 1 \in DOMAIN stack /\ stack[1] \in Mounted /\ Screen = stack[Top]
    BY TopIs DEF Bottom
  <2>2. Cleared(stack[1]).kind = stack[1].kind /\ Entry("lock", FALSE).kind = "lock"
    BY <2>1, ClearedIs DEF Entry
  <2>3. CASE 1 = Top
    BY <2>1, <2>2, <2>3, AppLockIs
  <2>4. CASE 1 # Top
    BY <2>1, <2>2, <2>4, AppLockIs
  <2> QED BY <2>3, <2>4
<1> QED BY <1>1, <1>2 DEF Bottom

LEMMA AppUnlockBottom ==
    ASSUME Types, Bottom(stack, tasks), AppUnlock
    PROVE  Bottom(stack', tasks')
<1>1. Swapped("tabs", FALSE, tasks) /\ Screen.kind = "lock"
  BY AppUnlockIs
<1>2. \A t \in tasks' : t.op # "add"
  BY <1>1, NoAdds DEF Swapped
<1>3. stack'[1].kind \in {"tabs", "lock"}
  <2>1. stack[1].kind \in {"tabs", "lock"} /\ 1 \in DOMAIN stack /\ Entry("tabs", FALSE).kind = "tabs"
    BY TopIs DEF Bottom, Entry
  <2>2. stack'[1] = stack[1] \/ stack'[1].kind = "tabs"
    BY <1>1, <2>1 DEF Swapped, Alike
  <2> QED BY <2>1, <2>2
<1> QED BY <1>2, <1>3 DEF Bottom

LEMMA DeleteContactBottom ==
    ASSUME Types, Bottom(stack, tasks), DeleteContact
    PROVE  Bottom(stack', tasks')
<1>1. \A t \in tasks' : t.op # "add"
  BY DeleteContactIs, DetachedAdds
<1>2. 1 \in DOMAIN stack /\ 1 # Top
  BY DeleteContactIs, NotFirst
<1>3. stack'[1].kind = stack[1].kind
  BY <1>2, DeleteContactIs DEF Steady, SameView
<1> QED BY <1>1, <1>3 DEF Bottom

LEMMA StepBottom ==
    ASSUME Types, Next, Bottom(stack, tasks), "gone" \notin Windows
    PROVE  Bottom(stack', tasks')
<1>1. CASE Calm
  BY <1>1, CalmBottom
<1>2. ASSUME NEW i \in DOMAIN stack, Load(i) \/ ListReads(i) \/ ListShows(i) PROVE Bottom(stack', tasks')
  <2>1. CASE Load(i)
    BY <2>1, LoadBottom
  <2>2. CASE ListReads(i) \/ ListShows(i)
    <3>1. \E l : Relisted(i, l)
      BY <2>2, ListReadsIs, ListShowsIs
    <3>2. Types' /\ tasks' = tasks /\ \E q : Changes(i, q)
      BY <3>1, RelistedTypes DEF Relisted
    <3> QED BY <3>2, ChangesBottom
  <2> QED BY <1>2, <2>1, <2>2
<1>3. ASSUME NEW t \in tasks, MarkReads(t) \/ AnswerReads(t) \/ AnswerWrites(t) \/ ScanAdds(t)
                             \/ \E right \in BOOLEAN : UnlockEnds(t, right)
      PROVE Bottom(stack', tasks')
  BY <1>3, HandlersBottom, AnswerWritesBottom, ScanAddsBottom, UnlockEndsBottom
<1>4. CASE StartUnlock
  <2>1. Types' /\ (\E q : Changes(Top, q)) /\ \A t \in tasks' : t \in tasks \/ t.op # "add"
    BY <1>4, StartUnlockIs
  <2> QED BY <2>1, ChangesBottom
<1>5. CASE EnableLock \/ Removes \/ ForgotCode \/ DeleteChat \/ DeleteContactFromTabs
  BY <1>5, RewrittenIs, ToldBottom DEF Rewritten
<1>6. ASSUME NEW k \in Asks, AsksFor(k) \/ PeerAsks(k) PROVE Bottom(stack', tasks')
  BY <1>6, AsksIs, ToldBottom
<1>7. ASSUME NEW k \in Asks, NEW yes \in BOOLEAN, TapInChat(k, yes) \/ TapInContact(k, yes) PROVE Bottom(stack', tasks')
  BY <1>7, TapsBottom
<1>8. ASSUME NEW f \in {"muted", "blocked"}, Toggle(f) PROVE Bottom(stack', tasks')
  <2>1. Types' /\ (\E q : Changes(Top, q)) /\ tasks' = tasks
    BY <1>8, ToggleIs
  <2> QED BY <2>1, ChangesBottom
<1>9. CASE OpensChat \/ OpensOther
  BY <1>9, OpensChatIs, OpensOtherIs, OpenedBottom
<1>10. CASE DeleteContact \/ Leaves \/ Done \/ AppLock \/ AppUnlock
  BY <1>10, DeleteContactBottom, LeavesBottom, DoneBottom, AppLockBottom, AppUnlockBottom
<1> QED BY <1>1, <1>2, <1>3, <1>4, <1>5, <1>6, <1>7, <1>8, <1>9, <1>10, Steps DEF Special

-----------------------------------------------------------------------------
(* The requests.                                                           *)

LEMMA StepTypes == ASSUME Types, Next PROVE Types'
<1>1. CASE Calm
  BY <1>1 DEF Calm
<1>2. ASSUME NEW i \in DOMAIN stack, Load(i) \/ ListReads(i) \/ ListShows(i) PROVE Types'
  BY <1>2, LoadTypes, ListReadsIs, ListShowsIs, RelistedTypes
<1>3. ASSUME NEW t \in tasks, MarkReads(t) \/ AnswerReads(t) \/ AnswerWrites(t) \/ ScanAdds(t)
                             \/ \E right \in BOOLEAN : UnlockEnds(t, right)
      PROVE Types'
  BY <1>3, MarkReadsIs, AnswerReadsIs, AnswerWritesIs, ScanAddsIs, UnlockEndsIs DEF Swapped
<1>4. CASE EnableLock \/ Removes \/ ForgotCode \/ DeleteChat \/ DeleteContactFromTabs
  BY <1>4, RewrittenIs DEF Rewritten, Told
<1>5. ASSUME NEW k \in Asks, AsksFor(k) \/ PeerAsks(k) PROVE Types'
  BY <1>5, AsksIs DEF Told
<1>6. ASSUME NEW k \in Asks, NEW yes \in BOOLEAN, TapInChat(k, yes) \/ TapInContact(k, yes) PROVE Types'
  BY <1>6, TapInChatIs, TapInContactIs
<1>7. ASSUME NEW f \in {"muted", "blocked"}, Toggle(f) PROVE Types'
  BY <1>7, ToggleIs
<1>8. CASE OpensChat \/ OpensOther
  BY <1>8, OpensChatIs, OpensOtherIs DEF Opened
<1>9. CASE DeleteContact \/ Leaves \/ Done \/ AppLock \/ AppUnlock \/ StartUnlock
  BY <1>9, DeleteContactIs, LeavesIs, DoneIs, AppLockIs, AppUnlockIs, StartUnlockIs DEF Swapped
<1> QED BY <1>1, <1>2, <1>3, <1>4, <1>5, <1>6, <1>7, <1>8, <1>9, Steps DEF Special

\* A stack on which no chat waits otherwise than before.
Undisturbed(s, q) ==
    /\ Len(q) = Len(s)
    /\ \A i \in DOMAIN s : /\ q[i].kind = s[i].kind /\ Unanswered(s[i].loads, q[i].loads)
                           /\ (s[i].kind = "chat" => ("answer" \in q[i].busy <=> "answer" \in s[i].busy))

LEMMA UndisturbedAnswering ==
    ASSUME Types, Types', Answering(stack, db, log, tasks), Undisturbed(stack, stack'), log' = log,
           \A t \in tasks' : t \in tasks \/ ~IsAnswer(t), \A k \in Asks : db'.pend[k] \in {db.pend[k], "none"}
    PROVE  Answering(stack', db', log', tasks')
<1>1. stack \in Stacks /\ stack' \in Stacks
  BY DEF Types
<1>2. \A t \in tasks' : IsAnswer(t) => t \in tasks
  OBVIOUS
<1> QED BY <1>1, <1>2, AnsweringKept DEF Undisturbed

LEMMA ChangesUndisturbed ==
    ASSUME Types, NEW i, NEW q, Changes(i, q), Unanswered(stack[i].loads, q.loads),
           stack[i].kind = "chat" => ("answer" \in q.busy <=> "answer" \in stack[i].busy)
    PROVE  Undisturbed(stack, stack')
<1>1. stack \in Stacks /\ stack' \in Stacks /\ i \in DOMAIN stack /\ q.kind = stack[i].kind
      /\ stack'[i] = q /\ Len(stack') = Len(stack) /\ \A j \in DOMAIN stack : j # i => stack'[j] = stack[j]
  BY TopIs, Changed DEF Changes, Shape
<1>2. \A l : Unanswered(l, l)
  BY GrownSame
<1> QED BY <1>1, <1>2 DEF Undisturbed

LEMMA SameUndisturbed == ASSUME stack' = stack PROVE Undisturbed(stack, stack')
BY GrownSame DEF Undisturbed

LEMMA SteadyUndisturbed == ASSUME NEW s, NEW q, SteadyStack(s, q) PROVE Undisturbed(s, q)
BY DEF SteadyStack, Steady, SameView, Undisturbed

LEMMA RelistedAnswering ==
    ASSUME Types, Answering(stack, db, log, tasks), NEW i, NEW l, Relisted(i, l)
    PROVE  Answering(stack', db', log', tasks')
<1>1. i \in DOMAIN stack /\ stack[i] \in Mounted /\ l \in Lists /\ (l.loading \/ l.read = <<>>)
  BY TopIs DEF Relisted, Changes
<1> PICK q : q = [stack[i] EXCEPT !.list = l]
  OBVIOUS
<1>2. q.loads = stack[i].loads /\ q.busy = stack[i].busy
  BY <1>1, ListIs
<1>3. Changes(i, q) /\ UNCHANGED <<db, log, tasks>> /\ Types'
  BY RelistedTypes DEF Relisted
<1>4. Undisturbed(stack, stack')
  BY <1>2, <1>3, ChangesUndisturbed, GrownSame
<1> QED BY <1>3, <1>4, UndisturbedAnswering

\* One chat waits otherwise, and the requests are what they were.
LEMMA ChangesAnswering ==
    ASSUME Types, Answering(stack, db, log, tasks), NEW i, NEW q, Changes(i, q), q.kind = "chat" => Awaits(q, i, tasks'),
           \A t \in tasks' : t \in tasks \/ ~IsAnswer(t), db' = db, log' = log
    PROVE  Answering(stack', db', log', tasks')
<1>1. stack \in Stacks /\ stack' \in Stacks /\ i \in DOMAIN stack /\ q.kind = stack[i].kind
      /\ stack'[i] = q /\ DOMAIN stack' = DOMAIN stack /\ \A j \in DOMAIN stack : j # i => stack'[j] = stack[j]
  BY TopIs, Changed DEF Changes, Shape
<1>2. \A j \in DOMAIN stack' : stack'[j].kind = "chat" => Awaits(stack'[j], j, tasks')
  <2> SUFFICES ASSUME NEW j \in DOMAIN stack, j # i, stack[j].kind = "chat" PROVE Awaits(stack[j], j, tasks')
    BY <1>1
  <2>1. Awaits(stack[j], j, tasks) /\ Unanswered(stack[j].loads, stack[j].loads)
    BY GrownSame DEF Answering
  <2> QED BY <2>1, AwaitsKept
<1>3. LoggedOnce(log', db', tasks') /\ OnePerKind(tasks') /\ log' \in [Asks -> 0..1]
  BY DEF Answering, LoggedOnce, OnePerKind
<1> QED BY <1>2, <1>3 DEF Answering

\* A read that is moved from the head of the queue to its end, as another.
LEMMA Rotated ==
    ASSUME NEW l \in Seq(Items), l # <<>>, NEW x \in Items, x.then = Head(l).then,
           \A m, n \in DOMAIN l : l[m].then = "answer" /\ l[n].then = "answer" => m = n
    PROVE  LET r == Append(Tail(l), x) IN
           /\ \A m, n \in DOMAIN r : r[m].then = "answer" /\ r[n].then = "answer" => m = n
           /\ \A n \in DOMAIN r : r[n].then = "answer" => \E m \in DOMAIN l : l[m].then = "answer"
<1> PICK k : k = Tail(l)
  OBVIOUS
<1>a. PICK r : r = Append(k, x)
  OBVIOUS
<1>1. k \in Seq(Items) /\ Head(l) = l[1] /\ 1 \in DOMAIN l
      /\ \A n \in DOMAIN k : n + 1 \in DOMAIN l /\ k[n] = l[n + 1] /\ n \in Nat /\ n >= 1
  BY QueueHead
<1>2. r[Len(k) + 1] = x /\ \A n \in DOMAIN r : n = Len(k) + 1 \/ (n \in DOMAIN k /\ r[n] = k[n])
  BY <1>1, <1>a
<1>3. \A n \in DOMAIN k : n + 1 # 1
  BY <1>1
<1>4. \A n \in DOMAIN r : r[n].then = "answer" =>
        \/ n = Len(k) + 1 /\ l[1].then = "answer"
        \/ n \in DOMAIN k /\ n + 1 \in DOMAIN l /\ l[n + 1].then = "answer" /\ n + 1 # 1
  BY <1>1, <1>2, <1>3
<1>5. ASSUME NEW m \in DOMAIN r, NEW n \in DOMAIN r, r[m].then = "answer", r[n].then = "answer" PROVE m = n
  <2>1. CASE l[1].then = "answer"
    <3>1. m = Len(k) + 1 /\ n = Len(k) + 1
      BY <1>1, <1>4, <1>5, <2>1
    <3> QED BY <3>1
  <2>2. CASE l[1].then # "answer"
    <3>1. m + 1 = n + 1 /\ m \in DOMAIN k /\ n \in DOMAIN k
      BY <1>4, <1>5, <2>2
    <3> QED BY <1>1, <3>1
  <2> QED BY <2>1, <2>2
<1>6. ASSUME NEW n \in DOMAIN r, r[n].then = "answer" PROVE \E m \in DOMAIN l : l[m].then = "answer"
  BY <1>1, <1>4, <1>6
<1> QED BY <1>5, <1>6, <1>a

\* A read that is dropped from the head of the queue.
LEMMA Popped ==
    ASSUME NEW l \in Seq(Items), l # <<>>,
           \A m, n \in DOMAIN l : l[m].then = "answer" /\ l[n].then = "answer" => m = n
    PROVE  LET r == Tail(l) IN
           /\ \A m, n \in DOMAIN r : r[m].then = "answer" /\ r[n].then = "answer" => m = n
           /\ \A n \in DOMAIN r : r[n].then = "answer" => \E m \in DOMAIN l : l[m].then = "answer"
           /\ Head(l).then = "answer" => \A n \in DOMAIN r : r[n].then # "answer"
<1>a. PICK k : k = Tail(l)
  OBVIOUS
<1>1. k \in Seq(Items) /\ Head(l) = l[1] /\ 1 \in DOMAIN l
      /\ \A n \in DOMAIN k : n + 1 \in DOMAIN l /\ k[n] = l[n + 1] /\ n \in Nat /\ n >= 1
  BY <1>a, QueueHead
<1>2. \A n \in DOMAIN k : n + 1 # 1
  BY <1>1
<1>3. \A n \in DOMAIN k : k[n].then = "answer" => n + 1 \in DOMAIN l /\ l[n + 1].then = "answer"
  BY <1>1
<1>4. ASSUME NEW m \in DOMAIN k, NEW n \in DOMAIN k, k[m].then = "answer", k[n].then = "answer" PROVE m = n
  <2>1. m + 1 = n + 1
    BY <1>3, <1>4
  <2> QED BY <1>1, <2>1
<1>5. Head(l).then = "answer" => \A n \in DOMAIN k : k[n].then # "answer"
  BY <1>1, <1>2, <1>3
<1> QED BY <1>3, <1>4, <1>5, <1>a

LEMMA AwaitsMoved ==
    ASSUME NEW e, NEW q, NEW i, NEW ts, NEW us, Awaits(e, i, ts),
           \A m, n \in DOMAIN q.loads : q.loads[m].then = "answer" /\ q.loads[n].then = "answer" => m = n,
           \A n \in DOMAIN q.loads : q.loads[n].then = "answer" => \E m \in DOMAIN e.loads : e.loads[m].then = "answer",
           "answer" \in q.busy <=> "answer" \in e.busy,
           \A t \in us : IsAnswer(t) => t \in ts
    PROVE  Awaits(q, i, us)
<1>1. \A n \in DOMAIN q.loads : q.loads[n].then = "answer" => "answer" \in q.busy /\ \A t \in us : IsAnswer(t) => t.at # i
  BY DEF Awaits
<1>2. \A t \in us : IsAnswer(t) /\ t.at = i => "answer" \in q.busy
  BY DEF Awaits
<1>3. \A t, u \in us : (IsAnswer(t) /\ t.at = i) /\ (IsAnswer(u) /\ u.at = i) => t = u
  BY DEF Awaits
<1> QED BY <1>1, <1>2, <1>3 DEF Awaits

LEMMA LoadAnswering ==
    ASSUME Types, Answering(stack, db, log, tasks), NEW i \in DOMAIN stack, Load(i)
    PROVE  Answering(stack', db', log', tasks')
<1>a. PICK e : e = stack[i]
  OBVIOUS
<1>1. e \in Mounted /\ e.loads \in Seq(Items) /\ e.loads # <<>> /\ db \in Bases /\ UNCHANGED <<db, log>>
  BY <1>a, LoadIs, TopIs, MountedIs
<1>2. \A t \in tasks' : t \in tasks \/ ~IsAnswer(t)
  BY LoadIs DEF Marking, IsAnswer
<1>3. CASE Head(e.loads).what = "row" /\ Changes(i, AfterRow(e))
  <2>1. PICK q : q = AfterRow(e)
    OBVIOUS
  <2>2. q.kind = e.kind /\ q.busy = e.busy
        /\ (q.kind = "chat" => q.loads = Append(Tail(e.loads), Read("thread", Head(e.loads).then)))
    BY <1>1, <2>1, AfterRowIs DEF Rest
  <2>3. ASSUME q.kind = "chat" PROVE Awaits(q, i, tasks')
    <3>1. Awaits(e, i, tasks)
      BY <1>a, <2>2, <2>3 DEF Answering
    <3>2. PICK x : x = Read("thread", Head(e.loads).then)
      OBVIOUS
    <3>3. x \in Items /\ x.then = Head(e.loads).then
      <4>1. Head(e.loads) \in Items
        BY <1>1, QueueHead
      <4>2. Head(e.loads).then \in {"", "mark", "send", "answer"}
        BY <4>1 DEF Items
      <4> QED BY <3>2, <4>2, ReadIs
    <3>4. \A m, n \in DOMAIN e.loads : e.loads[m].then = "answer" /\ e.loads[n].then = "answer" => m = n
      BY <3>1 DEF Awaits
    <3>5. q.loads = Append(Tail(e.loads), x)
      BY <2>2, <2>3, <3>2
    <3>6. /\ \A m, n \in DOMAIN q.loads : q.loads[m].then = "answer" /\ q.loads[n].then = "answer" => m = n
          /\ \A n \in DOMAIN q.loads : q.loads[n].then = "answer" => \E m \in DOMAIN e.loads : e.loads[m].then = "answer"
      BY <1>1, <3>3, <3>4, <3>5, Rotated
    <3> QED BY <1>2, <2>2, <3>1, <3>6, AwaitsMoved
  <2> QED BY <1>1, <1>2, <1>3, <2>1, <2>3, ChangesAnswering
<1>4. CASE Head(e.loads).what = "thread" /\ Changes(i, AfterThread(e))
  <2>1. PICK q : q = AfterThread(e)
    OBVIOUS
  <2>2. q.kind = e.kind /\ q.busy = e.busy \ {Head(e.loads).then} /\ q.loads = Tail(e.loads)
    BY <1>1, <2>1, AfterThreadIs DEF Rest
  <2>3. ASSUME q.kind = "chat" PROVE Awaits(q, i, tasks')
    <3>1. Awaits(e, i, tasks)
      BY <1>a, <2>2, <2>3 DEF Answering
    <3>2. \A m, n \in DOMAIN e.loads : e.loads[m].then = "answer" /\ e.loads[n].then = "answer" => m = n
      BY <3>1 DEF Awaits
    <3>3. /\ \A m, n \in DOMAIN q.loads : q.loads[m].then = "answer" /\ q.loads[n].then = "answer" => m = n
          /\ \A n \in DOMAIN q.loads : q.loads[n].then = "answer" => \E m \in DOMAIN e.loads : e.loads[m].then = "answer"
          /\ Head(e.loads).then = "answer" => \A n \in DOMAIN q.loads : q.loads[n].then # "answer"
      BY <1>1, <2>2, <3>2, Popped
    <3>4. CASE Head(e.loads).then # "answer"
      BY <1>2, <2>2, <3>1, <3>3, <3>4, AwaitsMoved
    <3>5. CASE Head(e.loads).then = "answer"
      <4>1. 1 \in DOMAIN e.loads /\ e.loads[1].then = "answer"
        BY <1>1, <3>5, QueueHead
      <4>2. \A t \in tasks' : IsAnswer(t) => t.at # i
        BY <1>2, <3>1, <4>1 DEF Awaits
      <4> QED BY <3>3, <3>5, <4>2 DEF Awaits
    <3> QED BY <3>4, <3>5
  <2> QED BY <1>1, <1>2, <1>4, <2>1, <2>3, ChangesAnswering
<1>5. CASE Head(e.loads).what = "put" /\ Changes(i, AfterPut(e))
  <2>1. PICK q : q = AfterPut(e)
    OBVIOUS
  <2>2. q.kind = e.kind /\ q.busy = e.busy /\ q.loads = Tail(e.loads)
    BY <1>1, <2>1, AfterPutIs DEF Rest
  <2>3. ASSUME q.kind = "chat" PROVE Awaits(q, i, tasks')
    <3>1. Awaits(e, i, tasks)
      BY <1>a, <2>2, <2>3 DEF Answering
    <3>2. \A m, n \in DOMAIN e.loads : e.loads[m].then = "answer" /\ e.loads[n].then = "answer" => m = n
      BY <3>1 DEF Awaits
    <3>3. /\ \A m, n \in DOMAIN q.loads : q.loads[m].then = "answer" /\ q.loads[n].then = "answer" => m = n
          /\ \A n \in DOMAIN q.loads : q.loads[n].then = "answer" => \E m \in DOMAIN e.loads : e.loads[m].then = "answer"
      BY <1>1, <2>2, <3>2, Popped
    <3> QED BY <1>2, <2>2, <3>1, <3>3, AwaitsMoved
  <2> QED BY <1>1, <1>2, <1>5, <2>1, <2>3, ChangesAnswering
<1> QED BY <1>3, <1>4, <1>5, <1>a, LoadIs

LEMMA MarkReadsAnswering ==
    ASSUME Types, Answering(stack, db, log, tasks), NEW t \in tasks, MarkReads(t)
    PROVE  Answering(stack', db', log', tasks')
<1>1. /\ \E u \in Tasks : u.op = "mark" /\ tasks' = (tasks \ {t}) \cup {u}
      /\ Types' /\ UNCHANGED <<db, log, stack>>
  BY MarkReadsIs
<1>2. \A u \in tasks' : u \in tasks \/ ~IsAnswer(u)
  BY <1>1 DEF IsAnswer
<1> QED BY <1>1, <1>2, SameUndisturbed, UndisturbedAnswering

\* A handler is replaced by what it has become.
LEMMA AnswerReadsAnswering ==
    ASSUME Types, Answering(stack, db, log, tasks), NEW t \in tasks, AnswerReads(t)
    PROVE  Answering(stack', db', log', tasks')
<1>1. PICK u \in Tasks : /\ u.op = "answer" /\ u.at = t.at /\ u.k = t.k /\ u.was = db.pend[t.k] /\ t.op = "answer"
                         /\ tasks' = (tasks \ {t}) \cup {u} /\ t.k \in Asks
                         /\ UNCHANGED <<db, log, stack>>
  BY AnswerReadsIs
<1>2. IsAnswer(u) /\ IsAnswer(t)
  BY <1>1 DEF IsAnswer
<1>3. OnePerKind(tasks')
  BY <1>1, <1>2 DEF Answering, OnePerKind
<1>4. LoggedOnce(log, db, tasks')
  <2>1. LoggedOnce(log, db, tasks)
    BY DEF Answering
  <2> SUFFICES ASSUME NEW k \in Asks, log[k] = 1, NEW v \in tasks', IsAnswer(v), v.k = k PROVE v.was \in {"?", "none"}
    BY <2>1 DEF LoggedOnce
  <2> QED BY <1>1, <2>1 DEF LoggedOnce
<1>5. ASSUME NEW i \in DOMAIN stack, stack[i].kind = "chat" PROVE Awaits(stack[i], i, tasks')
  <2>1. Awaits(stack[i], i, tasks)
    BY <1>5 DEF Answering
  <2>2. \A v \in tasks' : v \in tasks \/ (v = u /\ u.at = t.at)
    BY <1>1
  <2>3. \A m, n \in DOMAIN stack[i].loads : stack[i].loads[m].then = "answer" /\ stack[i].loads[n].then = "answer" => m = n
    BY <2>1 DEF Awaits
  <2>4. \A n \in DOMAIN stack[i].loads :
           stack[i].loads[n].then = "answer" => "answer" \in stack[i].busy /\ \A v \in tasks' : IsAnswer(v) => v.at # i
    BY <1>2, <2>1, <2>2 DEF Awaits
  <2>5. \A v \in tasks' : IsAnswer(v) /\ v.at = i => "answer" \in stack[i].busy
    BY <1>2, <2>1, <2>2 DEF Awaits
  <2>6. \A v, w \in tasks' : (IsAnswer(v) /\ v.at = i) /\ (IsAnswer(w) /\ w.at = i) => v = w
    <3>1. \A v, w \in tasks : (IsAnswer(v) /\ v.at = i) /\ (IsAnswer(w) /\ w.at = i) => v = w
      BY <2>1 DEF Awaits
    <3> QED BY <1>1, <1>2, <3>1
  <2> QED BY <2>3, <2>4, <2>5, <2>6 DEF Awaits
<1>6. log \in [Asks -> 0..1]
  BY DEF Answering
<1> QED BY <1>1, <1>3, <1>4, <1>5, <1>6 DEF Answering

\* An answer asks for its read.
LEMMA AnsweredAwaits ==
    ASSUME NEW e \in Mounted, Len(e.loads) < MaxLoads, e.kind = "chat", NEW t \in tasks, IsAnswer(t),
           Awaits(e, t.at, tasks), NEW us, \A u \in us : IsAnswer(u) => u \in tasks /\ u # t
    PROVE  Awaits(Answered(e), t.at, us)
<1>1. PICK x : x = AnswerItem(e)
  OBVIOUS
<1>a. PICK l : l = e.loads
  OBVIOUS
<1>b. PICK r : r = Queued(l, x)
  OBVIOUS
<1>2. Answered(e).loads = r /\ Answered(e).busy = e.busy /\ x \in Items /\ l \in Seq(Items)
  BY <1>1, <1>a, <1>b, AnsweredIs, MountedIs
<1>3. \A n \in DOMAIN l : l[n].then # "answer"
  BY <1>a DEF Awaits
<1>4. /\ \A n \in DOMAIN l : n \in DOMAIN r /\ r[n] = l[n]
      /\ \A n \in DOMAIN r : n \in DOMAIN l \/ n = Len(r)
  <2>1. /\ \A n \in DOMAIN l : n \in DOMAIN Queued(l, x) /\ Queued(l, x)[n] = l[n]
        /\ \A n \in DOMAIN Queued(l, x) : n \in DOMAIN l \/ n = Len(Queued(l, x))
    BY <1>2, QueuedIs
  <2> QED BY <1>b, <2>1
<1>5. \A n \in DOMAIN r : r[n].then = "answer" => n = Len(r)
  BY <1>3, <1>4
<1>6. "answer" \in e.busy /\ \A u \in us : IsAnswer(u) => u.at # t.at
  BY DEF Awaits
<1>7. \A m, n \in DOMAIN r : r[m].then = "answer" /\ r[n].then = "answer" => m = n
  BY <1>5
<1> QED BY <1>2, <1>6, <1>7 DEF Awaits

LEMMA AnswerWritesAnswering ==
    ASSUME Types, Answering(stack, db, log, tasks), NEW t \in tasks, AnswerWrites(t)
    PROVE  Answering(stack', db', log', tasks')
<1>a. PICK s : s = IF t.at = 0 THEN stack ELSE Set(stack, t.at, Answered(stack[t.at]))
  OBVIOUS
<1>1. /\ t \in Tasks /\ t.op = "answer" /\ t.k \in Asks /\ t.at \in 0..Top /\ t.was # "?"
      /\ (t.at # 0 => t.at \in DOMAIN stack /\ Len(stack[t.at].loads) < MaxLoads)
      /\ s \in Stacks /\ SameViews(stack, s) /\ Roomy(s) /\ Types'
      /\ \/ /\ stack' = s /\ tasks' = tasks \ {t} /\ db' = db /\ log' = log
         \/ /\ HaveHeard(s, stack')
            /\ tasks' = (tasks \ {t}) \cup Marks(s, phone.fg)
            /\ db' = [db EXCEPT !.pend[t.k] = "none"]
            /\ log' = [log EXCEPT ![t.k] = IF t.was = "none" THEN @ ELSE @ + 1]
  BY <1>a, AnswerWritesIs
<1>2. \A u \in tasks' : IsAnswer(u) => u \in tasks /\ u # t
  BY <1>1, TopIs, MarksIs DEF IsAnswer, Phones
<1>3. stack \in Stacks /\ stack' \in Stacks /\ db \in Bases /\ DOMAIN stack = 1..Top /\ Len(stack) = Top
      /\ \A i \in DOMAIN stack : stack[i] \in Mounted
  BY <1>1, TopIs DEF Types
<1>4. DOMAIN s = DOMAIN stack /\ Len(s) = Top
  BY <1>1, <1>3, StackIs DEF SameViews
<1>5. ASSUME NEW i \in DOMAIN stack, stack[i].kind = "chat" PROVE Awaits(s[i], i, tasks')
  <2>1. Awaits(stack[i], i, tasks) /\ stack[i] \in Mounted
    BY <1>3, <1>5 DEF Answering
  <2>2. CASE i = t.at
    <3>1. i # 0
      BY <1>3
    <3>a. PICK q : q = Answered(stack[t.at])
      OBVIOUS
    <3>2. i \in DOMAIN stack /\ q \in Mounted /\ s = Set(stack, i, q) /\ stack \in Stacks
      BY <1>1, <1>3, <1>a, <2>2, <3>1, <3>a, AnsweredIs
    <3>b. s[i] = q
      BY <3>2, SetAt
    <3>3. s[i] = Answered(stack[i])
      BY <2>2, <3>a, <3>b
    <3>4. IsAnswer(t) /\ Len(stack[i].loads) < MaxLoads
      BY <1>1, <2>2, <3>1 DEF IsAnswer
    <3>5. Awaits(Answered(stack[i]), t.at, tasks')
      BY <1>2, <1>5, <2>1, <2>2, <3>4, AnsweredAwaits
    <3> QED BY <2>2, <3>3, <3>5
  <2>3. CASE i # t.at
    <3>1. s[i] = stack[i]
      <4>1. CASE t.at = 0
        BY <1>a, <4>1
      <4>2. CASE t.at # 0
        <5>a. PICK q : q = Answered(stack[t.at])
          OBVIOUS
        <5>b. PICK j : j = t.at
          OBVIOUS
        <5>1. j \in DOMAIN stack /\ q \in Mounted /\ s = Set(stack, j, q) /\ stack \in Stacks /\ i # j
          BY <1>1, <1>3, <1>a, <2>3, <4>2, <5>a, <5>b, AnsweredIs
        <5>2. \A m \in DOMAIN stack : m # j => s[m] = stack[m]
          BY <5>1, SetAt
        <5> QED BY <5>1, <5>2
      <4> QED BY <4>1, <4>2
    <3> QED BY <1>2, <2>1, <3>1, GrownSame, AwaitsKept
  <2> QED BY <2>2, <2>3
<1>6. ASSUME NEW i \in DOMAIN stack', stack'[i].kind = "chat" PROVE Awaits(stack'[i], i, tasks')
  <2>1. SteadyStack(s, stack')
    <3>1. CASE stack' = s
      BY <1>1, <3>1, SteadySame
    <3>2. CASE HaveHeard(s, stack')
      BY <1>1, <3>2, HeardSteady
    <3> QED BY <1>1, <3>1, <3>2
  <2>2. i \in DOMAIN s
    BY <1>1, <1>3, <2>1, StackIs DEF SteadyStack
  <2>3. s[i].kind = "chat" /\ stack[i].kind = "chat" /\ Steady(s[i], stack'[i])
    BY <1>1, <1>4, <1>6, <2>1, <2>2 DEF SteadyStack, Steady, SameView, SameViews
  <2>4. Awaits(s[i], i, tasks')
    BY <1>4, <1>5, <2>2, <2>3
  <2> QED BY <2>3, <2>4, AwaitsKept DEF Steady
<1>7. OnePerKind(tasks')
  BY <1>2 DEF Answering, OnePerKind
<1>8. log' \in [Asks -> 0..1] /\ LoggedOnce(log', db', tasks')
  <2>1. log \in [Asks -> 0..1] /\ LoggedOnce(log, db, tasks) /\ OnePerKind(tasks) /\ IsAnswer(t)
    BY <1>1 DEF Answering, IsAnswer
  <2>2. CASE db' = db /\ log' = log
    BY <1>2, <2>1, <2>2 DEF LoggedOnce
  <2>3. CASE db' = [db EXCEPT !.pend[t.k] = "none"] /\ log' = [log EXCEPT ![t.k] = IF t.was = "none" THEN @ ELSE @ + 1]
    <3>1. "none" \in Requests
      BY DEF Requests
    <3>2. \A j \in Asks : db'.pend[j] = IF j = t.k THEN "none" ELSE db.pend[j]
      BY <1>1, <1>3, <2>3, <3>1, OnePend
    <3>3. log[t.k] = 1 => t.was = "none"
      BY <1>1, <2>1 DEF LoggedOnce
    <3>4. log[t.k] \in {0, 1}
      BY <1>1, <2>1
    <3>5. log' \in [Asks -> 0..1] /\ \A j \in Asks : j # t.k => log'[j] = log[j]
      BY <1>1, <2>1, <2>3, <3>3, <3>4
    <3>6. \A v \in tasks' : IsAnswer(v) => v.k # t.k
      BY <1>2, <2>1 DEF OnePerKind
    <3> QED BY <1>2, <2>1, <3>2, <3>5, <3>6 DEF LoggedOnce
  <2> QED BY <1>1, <2>2, <2>3
<1> QED BY <1>6, <1>7, <1>8 DEF Answering

LEMMA UnlockEndsAnswering ==
    ASSUME Types, Answering(stack, db, log, tasks), NEW t \in tasks, NEW right \in BOOLEAN, UnlockEnds(t, right)
    PROVE  Answering(stack', db', log', tasks')
<1>1. /\ tasks' = tasks \ {t} /\ UNCHANGED <<db, log>> /\ Types'
      /\ \/ stack' = stack
         \/ \E q : Changes(t.at, q) /\ AfterUnlock(stack[t.at], q, right)
  BY UnlockEndsIs
<1>2. Undisturbed(stack, stack')
  <2>1. CASE stack' = stack
    BY <2>1, SameUndisturbed
  <2>2. ASSUME NEW q, Changes(t.at, q), AfterUnlock(stack[t.at], q, right) PROVE Undisturbed(stack, stack')
    BY <2>2, ChangesUndisturbed DEF AfterUnlock
  <2> QED BY <1>1, <2>1, <2>2
<1> QED BY <1>1, <1>2, UndisturbedAnswering

LEMMA StartUnlockAnswering ==
    ASSUME Types, Answering(stack, db, log, tasks), StartUnlock
    PROVE  Answering(stack', db', log', tasks')
<1>1. /\ \E q : Changes(Top, q) /\ Steady(Screen, q)
      /\ \E u : tasks' = tasks \cup {u} /\ u.op = "unlock"
      /\ UNCHANGED <<db, log>> /\ Types'
  BY StartUnlockIs
<1>2. PICK q : Changes(Top, q) /\ Steady(stack[Top], q)
  BY <1>1, TopIs
<1>3. Undisturbed(stack, stack')
  BY <1>2, ChangesUndisturbed DEF Steady
<1>4. \A t \in tasks' : t \in tasks \/ ~IsAnswer(t)
  BY <1>1 DEF IsAnswer
<1> QED BY <1>1, <1>3, <1>4, UndisturbedAnswering

LEMMA RewrittenAnswering ==
    ASSUME Types, Answering(stack, db, log, tasks), Rewritten
    PROVE  Answering(stack', db', log', tasks')
<1>1. Types' /\ Undisturbed(stack, stack') /\ log' = log /\ (\A t \in tasks' : t \in tasks \/ ~IsAnswer(t))
      /\ \A k \in Asks : db'.pend[k] \in {db.pend[k], "none"}
  BY SteadyUndisturbed DEF Rewritten, Told, IsAnswer
<1> QED BY <1>1, UndisturbedAnswering

LEMMA AsksAnswering ==
    ASSUME Types, Answering(stack, db, log, tasks), NEW k \in Asks, AsksFor(k) \/ PeerAsks(k)
    PROVE  Answering(stack', db', log', tasks')
<1>1. /\ Told /\ log' = [log EXCEPT ![k] = 0]
      /\ \A j \in Asks : j # k => db'.pend[j] = db.pend[j]
  BY AsksIs
<1>2. Undisturbed(stack, stack') /\ stack \in Stacks /\ stack' \in Stacks
      /\ \A t \in tasks' : IsAnswer(t) => t \in tasks
  BY <1>1, TopIs, SteadyUndisturbed DEF Told, Types, IsAnswer
<1>3. log \in [Asks -> 0..1] /\ LoggedOnce(log, db, tasks) /\ OnePerKind(tasks)
  BY DEF Answering
<1>4. log' \in [Asks -> 0..1] /\ log'[k] = 0 /\ \A j \in Asks : j # k => log'[j] = log[j]
  BY <1>1, <1>3
<1>5. LoggedOnce(log', db', tasks')
  BY <1>1, <1>2, <1>3, <1>4 DEF LoggedOnce
<1>6. OnePerKind(tasks')
  BY <1>2, <1>3 DEF OnePerKind
<1>7. ASSUME NEW i \in DOMAIN stack', stack'[i].kind = "chat" PROVE Awaits(stack'[i], i, tasks')
  <2>1. i \in DOMAIN stack /\ stack[i].kind = "chat" /\ Unanswered(stack[i].loads, stack'[i].loads)
        /\ ("answer" \in stack'[i].busy <=> "answer" \in stack[i].busy)
    BY <1>2, <1>7, StackIs DEF Undisturbed
  <2> QED BY <1>2, <2>1, AwaitsKept DEF Answering
<1> QED BY <1>4, <1>5, <1>6, <1>7 DEF Answering

LEMMA TapInChatAnswering ==
    ASSUME Types, Answering(stack, db, log, tasks), "double" \notin Windows,
           NEW k \in Asks, NEW yes \in BOOLEAN, TapInChat(k, yes)
    PROVE  Answering(stack', db', log', tasks')
<1>a. PICK q : q = [Screen EXCEPT !.busy = @ \cup {"answer"}]
  OBVIOUS
<1>b. PICK u : u = Answer(k, yes)
  OBVIOUS
<1>1. /\ Screen.kind = "chat" /\ "answer" \notin Screen.busy /\ Alone(k, {Top})
      /\ Changes(Top, q)
      /\ q.loads = Screen.loads /\ q.busy = Screen.busy \cup {"answer"}
      /\ tasks' = tasks \cup {u} /\ u.op = "answer" /\ u.at = Top /\ u.k = k /\ u.was = "?"
      /\ UNCHANGED <<db, log>>
  BY <1>a, <1>b, TapInChatIs
<1>2. IsAnswer(u)
  BY <1>1 DEF IsAnswer
<1>3. Awaits(Screen, Top, tasks) /\ Screen = stack[Top] /\ Top \in DOMAIN stack
  BY <1>1, TopIs DEF Answering
<1>4. (\A t \in tasks : IsAnswer(t) => t.at # Top) /\ \A n \in DOMAIN Screen.loads : Screen.loads[n].then # "answer"
  BY <1>1, <1>3 DEF Awaits
<1>5. \A t \in tasks : IsAnswer(t) => t.k # k
  BY <1>1, <1>4 DEF Alone, IsAnswer
<1>6. OnePerKind(tasks')
  BY <1>1, <1>5 DEF Answering, OnePerKind
<1>7. LoggedOnce(log', db', tasks')
  BY <1>1 DEF Answering, LoggedOnce
<1>8. Awaits(q, Top, tasks')
  BY <1>1, <1>4 DEF Awaits
<1>9. stack'[Top] = q /\ DOMAIN stack' = DOMAIN stack /\ \A j \in DOMAIN stack : j # Top => stack'[j] = stack[j]
  BY <1>1, Changed
<1>10. ASSUME NEW i \in DOMAIN stack, i # Top, stack[i].kind = "chat" PROVE Awaits(stack[i], i, tasks')
  <2>1. Awaits(stack[i], i, tasks)
    BY <1>10 DEF Answering
  <2>2. \A t \in tasks' : t \in tasks \/ t.at # i
    BY <1>1, <1>10
  <2> QED BY <2>1, <2>2 DEF Awaits
<1>11. \A i \in DOMAIN stack' : stack'[i].kind = "chat" => Awaits(stack'[i], i, tasks')
  BY <1>8, <1>9, <1>10
<1>12. log' \in [Asks -> 0..1]
  BY <1>1 DEF Answering
<1> QED BY <1>6, <1>7, <1>11, <1>12 DEF Answering

LEMMA TapInContactAnswering ==
    ASSUME Types, Answering(stack, db, log, tasks), "double" \notin Windows,
           NEW k \in Asks, NEW yes \in BOOLEAN, TapInContact(k, yes)
    PROVE  Answering(stack', db', log', tasks')
<1>b. PICK u : u = Answer(k, yes)
  OBVIOUS
<1>1. /\ Screen.kind = "contact" /\ Alone(k, {})
      /\ tasks' = tasks \cup {u} /\ u.op = "answer" /\ u.at = Top /\ u.k = k /\ u.was = "?"
      /\ UNCHANGED <<db, log, stack>>
  BY <1>b, TapInContactIs
<1>2. \A t \in tasks : IsAnswer(t) => t.k # k
  BY <1>1 DEF Alone, IsAnswer
<1>3. OnePerKind(tasks')
  BY <1>1, <1>2 DEF Answering, OnePerKind
<1>4. LoggedOnce(log', db', tasks')
  BY <1>1 DEF Answering, LoggedOnce
<1>5. ASSUME NEW i \in DOMAIN stack, stack[i].kind = "chat" PROVE Awaits(stack[i], i, tasks')
  <2>1. Awaits(stack[i], i, tasks) /\ i # Top
    BY <1>1, <1>5, TopIs DEF Answering
  <2>2. \A t \in tasks' : t \in tasks \/ t.at # i
    BY <1>1, <2>1
  <2> QED BY <2>1, <2>2 DEF Awaits
<1> QED BY <1>1, <1>3, <1>4, <1>5 DEF Answering

LEMMA ToggleAnswering ==
    ASSUME Types, Answering(stack, db, log, tasks), NEW f \in {"muted", "blocked"}, Toggle(f)
    PROVE  Answering(stack', db', log', tasks')
<1>a. PICK x : x = PutOf(f)
  OBVIOUS
<1>b. PICK q : q = Queue(Screen, x)
  OBVIOUS
<1>1. /\ x \in Items /\ Changes(Top, q) /\ q.loads = Queued(Screen.loads, x) /\ Alike(Screen, q)
      /\ db'.pend = db.pend /\ log' = log /\ tasks' = tasks /\ Types'
  BY <1>a, <1>b, ToggleIs
<1>2. x.then # "answer" /\ Screen = stack[Top] /\ Screen.loads \in Seq(Items)
  BY <1>a, TopIs, MountedIs DEF PutOf
<1>3. PICK l : l = Screen.loads
  OBVIOUS
<1>4. Unanswered(l, Queued(l, x))
  <2>1. PICK m : m = Queued(l, x)
    OBVIOUS
  <2>2. l \in Seq(Items)
    BY <1>2, <1>3
  <2>3. /\ \A n \in DOMAIN l : n \in DOMAIN Queued(l, x) /\ Queued(l, x)[n] = l[n]
        /\ \A n \in DOMAIN Queued(l, x) : n \in DOMAIN l \/ n = Len(Queued(l, x))
        /\ Queued(l, x)[Len(Queued(l, x))] = x
    BY <1>1, <2>2, QueuedIs
  <2>4. /\ \A n \in DOMAIN l : n \in DOMAIN m /\ m[n] = l[n]
        /\ \A n \in DOMAIN m : n \in DOMAIN l \/ n = Len(m)
        /\ m[Len(m)] = x
    BY <2>1, <2>3
  <2>5. Unanswered(l, m)
    BY <1>2, <2>4 DEF Unanswered
  <2> QED BY <2>1, <2>5
<1>5. Undisturbed(stack, stack')
  <2>1. Unanswered(stack[Top].loads, q.loads) /\ q.busy = stack[Top].busy
    BY <1>1, <1>2, <1>3, <1>4 DEF Alike
  <2> QED BY <1>1, <2>1, ChangesUndisturbed
<1> QED BY <1>1, <1>5, UndisturbedAnswering

\* A screen that has just been mounted awaits nothing.
LEMMA MountedAwaits ==
    ASSUME NEW kind \in Kinds, NEW scanned \in BOOLEAN, phone \in Phones, NEW i, NEW ts,
           \A t \in ts : IsAnswer(t) => t.at # i
    PROVE  Awaits(Hears(Entry(kind, scanned)), i, ts)
<1>1. Entry(kind, scanned) \in Mounted /\ Len(Entry(kind, scanned).loads) < MaxLoads /\ Entry(kind, scanned).loads = <<>>
  BY EntryRoom, EntryIs
<1>2. \A n \in DOMAIN Hears(Entry(kind, scanned)).loads : Hears(Entry(kind, scanned)).loads[n].then # "answer"
  <2>1. ~\E n : n \in DOMAIN Entry(kind, scanned).loads
    BY <1>1
  <2> QED BY <1>1, <2>1, HearsUnasked
<1> QED BY <1>2 DEF Awaits

LEMMA OpenedAnswering ==
    ASSUME Types, Answering(stack, db, log, tasks), NEW kind \in Kinds, Opened(kind)
    PROVE  Answering(stack', db', log', tasks')
<1>1. /\ stack' \in Stacks /\ Len(stack') = Top + 1 /\ stack'[Top + 1] = Hears(Entry(kind, FALSE))
      /\ \A i \in DOMAIN stack : stack'[i] = stack[i]
      /\ \A t \in tasks' : IsAnswer(t) => t \in tasks
      /\ UNCHANGED <<db, log>>
  BY DEF Opened, IsAnswer
<1>2. DOMAIN stack' = 1..(Top + 1) /\ DOMAIN stack = 1..Top /\ Top \in Nat /\ phone \in Phones
  BY <1>1, TopIs, StackIs
<1>3. \A i \in DOMAIN stack' : i = Top + 1 \/ i \in DOMAIN stack
  BY <1>2
<1>4. \A t \in tasks' : IsAnswer(t) => t.at # Top + 1
  <2>1. \A t \in tasks : t.at \in 0..Top
    BY TopIs DEF Types, Placed
  <2> QED BY <1>1, <1>2, <2>1
<1>5. Awaits(stack'[Top + 1], Top + 1, tasks')
  BY <1>1, <1>2, <1>4, MountedAwaits
<1>6. ASSUME NEW i \in DOMAIN stack, stack[i].kind = "chat" PROVE Awaits(stack[i], i, tasks')
  BY <1>1, <1>6, GrownSame, AwaitsKept DEF Answering
<1>7. LoggedOnce(log', db', tasks') /\ OnePerKind(tasks') /\ log' \in [Asks -> 0..1]
  BY <1>1 DEF Answering, LoggedOnce, OnePerKind
<1> QED BY <1>1, <1>3, <1>5, <1>6, <1>7 DEF Answering

LEMMA DetachedAnswers ==
    ASSUME Types, Answering(stack, db, log, tasks), NEW ts, \A t \in ts : IsAnswer(t) => t \in Detach(Top)
    PROVE  /\ OnePerKind(ts) /\ LoggedOnce(log, db, ts)
           /\ \A t \in ts : IsAnswer(t) => t.at # Top /\ (t.at # 0 => t \in tasks)
<1>1. OnePerKind(tasks) /\ LoggedOnce(log, db, tasks)
  BY DEF Answering
<1>2. ASSUME NEW t \in ts, IsAnswer(t)
      PROVE  \E v \in tasks : /\ IsAnswer(v) /\ v.k = t.k /\ v.was = t.was
                              /\ t = [v EXCEPT !.at = IF v.at = Top THEN 0 ELSE v.at]
  <2>1. t \in Detach(Top)
    BY <1>2
  <2>2. \E v \in tasks : t.op = v.op /\ t = [v EXCEPT !.at = IF v.at = Top THEN 0 ELSE v.at]
                         /\ (v.op = "answer" => t.k = v.k /\ t.was = v.was)
    BY <2>1, DetachIs
  <2> QED BY <1>2, <2>2 DEF IsAnswer
<1>3. OnePerKind(ts)
  <2> SUFFICES ASSUME NEW t \in ts, NEW u \in ts, IsAnswer(t), IsAnswer(u), t.k = u.k PROVE t = u
    BY DEF OnePerKind
  <2>1. PICK v \in tasks : IsAnswer(v) /\ v.k = t.k /\ t = [v EXCEPT !.at = IF v.at = Top THEN 0 ELSE v.at]
    BY <1>2
  <2>2. PICK w \in tasks : IsAnswer(w) /\ w.k = u.k /\ u = [w EXCEPT !.at = IF w.at = Top THEN 0 ELSE w.at]
    BY <1>2
  <2>3. v = w
    BY <1>1, <2>1, <2>2 DEF OnePerKind
  <2> QED BY <2>1, <2>2, <2>3
<1>4. LoggedOnce(log, db, ts)
  BY <1>1, <1>2 DEF LoggedOnce
<1>5. \A t \in ts : IsAnswer(t) => t.at # Top /\ (t.at # 0 => t \in tasks)
  BY DetachedIs
<1> QED BY <1>3, <1>4, <1>5

\* The visible screen is gone or another, and its handlers are detached.
LEMMA GoneAnswering ==
    ASSUME Types, Types', Answering(stack, db, log, tasks), log' = log, db'.pend = db.pend \/ \A k \in Asks : db'.pend[k] = "none",
           \A t \in tasks' : IsAnswer(t) => t \in Detach(Top),
           \A i \in DOMAIN stack' :
              \/ i \in DOMAIN stack /\ i # Top /\ stack'[i] = stack[i]
              \/ i \in DOMAIN stack /\ i # Top /\ Steady(stack[i], stack'[i])
              \/ stack'[i].kind # "chat"
    PROVE  Answering(stack', db', log', tasks')
<1>1. /\ OnePerKind(tasks') /\ LoggedOnce(log, db, tasks')
      /\ \A t \in tasks' : IsAnswer(t) => t.at # Top /\ (t.at # 0 => t \in tasks)
  BY DetachedAnswers
<1>2. LoggedOnce(log', db', tasks') /\ log' \in [Asks -> 0..1]
  BY <1>1 DEF LoggedOnce, Answering
<1>3. ASSUME NEW i \in DOMAIN stack', stack'[i].kind = "chat" PROVE Awaits(stack'[i], i, tasks')
  <2>1. i \in DOMAIN stack /\ i # Top /\ i # 0 /\ stack[i].kind = "chat" /\ Unanswered(stack[i].loads, stack'[i].loads)
        /\ ("answer" \in stack'[i].busy <=> "answer" \in stack[i].busy)
    <3>1. CASE i \in DOMAIN stack /\ i # Top /\ stack'[i] = stack[i]
      BY <1>3, <3>1, TopIs, GrownSame
    <3>2. CASE i \in DOMAIN stack /\ i # Top /\ Steady(stack[i], stack'[i])
      BY <1>3, <3>2, TopIs DEF Steady, SameView
    <3> QED BY <1>3, <3>1, <3>2
  <2>2. PICK us : us = {t \in tasks' : t.at # 0}
    OBVIOUS
  <2>3. Awaits(stack'[i], i, us)
    <3>1. Awaits(stack[i], i, tasks)
      BY <2>1 DEF Answering
    <3>2. \A t \in us : IsAnswer(t) => t \in tasks
      BY <1>1, <2>2
    <3> QED BY <2>1, <3>1, <3>2, AwaitsKept
  <2>4. \A t \in tasks' : t \in us \/ t.at # i
    BY <2>1, <2>2
  <2>5. us \subseteq tasks'
    BY <2>2
  <2> QED BY <2>3, <2>4, <2>5 DEF Awaits
<1> QED BY <1>1, <1>2, <1>3 DEF Answering

LEMMA LeavesAnswering ==
    ASSUME Types, Answering(stack, db, log, tasks), Leaves
    PROVE  Answering(stack', db', log', tasks')
<1>1. /\ Len(stack') = Top - 1 /\ (\A i \in 1..(Top - 2) : stack'[i] = stack[i])
      /\ Top > 1 /\ stack' \in Stacks /\ Top - 1 \in DOMAIN stack
      /\ UNCHANGED <<db, log>> /\ Types' /\ \A t \in tasks' : IsAnswer(t) => t \in Detach(Top)
  BY LeavesIs DEF IsAnswer
<1>2. /\ Top \in Nat /\ DOMAIN stack = 1..Top /\ DOMAIN stack' = 1..(Top - 1) /\ phone \in Phones
      /\ stack[Top - 1] \in Mounted
  BY <1>1, TopIs, StackIs
<1>3. \/ stack'[Top - 1] = stack[Top - 1] \/ Steady(stack[Top - 1], stack'[Top - 1]) \/ stack'[Top - 1].kind # "chat"
  <2>1. CASE phone.locked
    <3>1. Entry("lock", FALSE).kind # "chat"
      BY DEF Entry
    <3> QED BY <2>1, <3>1, LeavesIs
  <2>2. CASE ~phone.locked
    <3>1. stack'[Top - 1] = Hears(stack[Top - 1]) /\ Roomy(stack)
      BY <2>2, LeavesIs
    <3> QED BY <1>1, <1>2, <3>1, HearsSteady DEF Roomy
  <2> QED BY <1>2, <2>1, <2>2
<1>4. \A i \in DOMAIN stack' : i \in DOMAIN stack /\ i # Top /\ (i = Top - 1 \/ i \in 1..(Top - 2))
  BY <1>1, <1>2
<1>5. \A i \in DOMAIN stack' :
              \/ i \in DOMAIN stack /\ i # Top /\ stack'[i] = stack[i]
              \/ i \in DOMAIN stack /\ i # Top /\ Steady(stack[i], stack'[i])
              \/ stack'[i].kind # "chat"
  BY <1>1, <1>3, <1>4
<1> QED BY <1>1, <1>5, GoneAnswering

LEMMA SwappedAnswering ==
    ASSUME Types, Answering(stack, db, log, tasks), NEW kind, kind # "chat", NEW scanned, Swapped(kind, scanned, Detach(Top)),
           log' = log, db'.pend = db.pend
    PROVE  Answering(stack', db', log', tasks')
<1>1. /\ stack' \in Stacks /\ Len(stack') = Top /\ stack'[Top].kind = kind
      /\ \A i \in DOMAIN stack : i # Top => stack'[i] = stack[i]
      /\ Types' /\ \A t \in tasks' : IsAnswer(t) => t \in Detach(Top)
  BY DEF Swapped, IsAnswer, Alike, Entry
<1>2. DOMAIN stack' = DOMAIN stack
  BY <1>1, TopIs, StackIs
<1>3. \A i \in DOMAIN stack' :
              \/ i \in DOMAIN stack /\ i # Top /\ stack'[i] = stack[i]
              \/ i \in DOMAIN stack /\ i # Top /\ Steady(stack[i], stack'[i])
              \/ stack'[i].kind # "chat"
  BY <1>1, <1>2
<1> QED BY <1>1, <1>3, GoneAnswering

LEMMA AppUnlockAnswering ==
    ASSUME Types, Answering(stack, db, log, tasks), AppUnlock
    PROVE  Answering(stack', db', log', tasks')
<1>1. Swapped("tabs", FALSE, tasks) /\ Screen.kind = "lock" /\ UNCHANGED <<db, log>>
  BY AppUnlockIs
<1>2. /\ stack' \in Stacks /\ Len(stack') = Top /\ stack'[Top].kind = "tabs"
      /\ \A i \in DOMAIN stack : i # Top => stack'[i] = stack[i]
      /\ Types' /\ \A t \in tasks' : IsAnswer(t) => t \in tasks
  BY <1>1 DEF Swapped, IsAnswer, Alike, Entry
<1>3. DOMAIN stack' = DOMAIN stack
  BY <1>2, TopIs, StackIs
<1>4. LoggedOnce(log', db', tasks') /\ OnePerKind(tasks') /\ log' \in [Asks -> 0..1]
  BY <1>1, <1>2 DEF Answering, LoggedOnce, OnePerKind
<1>5. ASSUME NEW i \in DOMAIN stack', stack'[i].kind = "chat" PROVE Awaits(stack'[i], i, tasks')
  <2>1. i \in DOMAIN stack /\ stack'[i] = stack[i] /\ stack[i].kind = "chat"
    BY <1>2, <1>3, <1>5
  <2> QED BY <1>2, <2>1, GrownSame, AwaitsKept DEF Answering
<1> QED BY <1>4, <1>5 DEF Answering

LEMMA DeleteContactAnswering ==
    ASSUME Types, Answering(stack, db, log, tasks), DeleteContact
    PROVE  Answering(stack', db', log', tasks')
<1>1. /\ stack' \in Stacks /\ Len(stack') = Top /\ stack'[Top] = Hears(Entry("tabs", FALSE))
      /\ Alike(Entry("tabs", FALSE), Hears(Entry("tabs", FALSE)))
      /\ (\A i \in DOMAIN stack : i # Top => Steady(stack[i], stack'[i]))
      /\ db' = Removed /\ log' = log /\ tasks' = Detach(Top) /\ Types'
  BY DeleteContactIs
<1>2. DOMAIN stack' = DOMAIN stack /\ stack'[Top].kind # "chat"
  BY <1>1, TopIs, StackIs DEF Alike, Entry
<1>3. \A k \in Asks : db'.pend[k] = "none"
  <2>1. Removed.pend = [k \in Asks |-> "none"]
    BY TopIs, RemovedIs
  <2> QED BY <1>1, <2>1
<1>4. \A i \in DOMAIN stack' :
              \/ i \in DOMAIN stack /\ i # Top /\ stack'[i] = stack[i]
              \/ i \in DOMAIN stack /\ i # Top /\ Steady(stack[i], stack'[i])
              \/ stack'[i].kind # "chat"
  BY <1>1, <1>2
<1> QED BY <1>1, <1>3, <1>4, GoneAnswering

LEMMA AppLockAnswering ==
    ASSUME Types, Answering(stack, db, log, tasks), AppLock
    PROVE  Answering(stack', db', log', tasks')
<1>1. /\ tasks' = {t \in tasks : t.op = "unlock"} /\ UNCHANGED <<db, log>>
      /\ stack' \in Stacks /\ Len(stack') = Top
      /\ (\A i \in DOMAIN stack : i # Top => stack'[i] = Cleared(stack[i]))
      /\ (stack'[Top] = IF Screen.kind \in {"tabs", "scan"} THEN Entry("lock", FALSE) ELSE Cleared(Screen))
  BY AppLockIs
<1>2. \A t \in tasks' : ~IsAnswer(t)
  BY <1>1 DEF IsAnswer
<1>3. DOMAIN stack' = DOMAIN stack
  BY <1>1, TopIs, StackIs
<1>4. \A i \in DOMAIN stack' : stack'[i].loads = <<>>
  <2>1. \A i \in DOMAIN stack : Cleared(stack[i]).loads = <<>>
    BY TopIs, ClearedIs
  <2>2. Entry("lock", FALSE).loads = <<>> /\ Cleared(Screen).loads = <<>>
    BY TopIs, ClearedIs DEF Entry
  <2>3. stack'[Top].loads = <<>>
    BY <1>1, <2>2
  <2> QED BY <1>1, <1>3, <2>1, <2>3
<1>5. \A i \in DOMAIN stack' : \A n : n \notin DOMAIN stack'[i].loads
  BY <1>4
<1>6. \A i \in DOMAIN stack' : Awaits(stack'[i], i, tasks')
  BY <1>2, <1>5 DEF Awaits
<1>7. LoggedOnce(log', db', tasks') /\ OnePerKind(tasks') /\ log' \in [Asks -> 0..1]
  BY <1>1, <1>2 DEF Answering, LoggedOnce, OnePerKind
<1> QED BY <1>6, <1>7 DEF Answering

LEMMA StepAnswering ==
    ASSUME Types, Next, Answering(stack, db, log, tasks), "double" \notin Windows
    PROVE  Answering(stack', db', log', tasks')
<1>1. CASE Calm
  BY <1>1, CalmAnswering
<1>2. ASSUME NEW i \in DOMAIN stack, Load(i) \/ ListReads(i) \/ ListShows(i) PROVE Answering(stack', db', log', tasks')
  BY <1>2, LoadAnswering, ListReadsIs, ListShowsIs, RelistedAnswering
<1>3. ASSUME NEW t \in tasks, MarkReads(t) \/ AnswerReads(t) \/ AnswerWrites(t) \/ ScanAdds(t)
                             \/ \E right \in BOOLEAN : UnlockEnds(t, right)
      PROVE Answering(stack', db', log', tasks')
  <2>1. CASE ScanAdds(t)
    <3>1. Swapped("verify", TRUE, Detach(Top)) /\ db' = [db EXCEPT !.there = TRUE] /\ log' = log /\ db \in Bases
      BY <2>1, ScanAddsIs, TopIs
    <3>2. db'.pend = db.pend
      BY <3>1 DEF Bases
    <3> QED BY <3>1, <3>2, SwappedAnswering
  <2> QED BY <1>3, <2>1, MarkReadsAnswering, AnswerReadsAnswering, AnswerWritesAnswering, UnlockEndsAnswering
<1>4. CASE EnableLock \/ Removes \/ ForgotCode \/ DeleteChat \/ DeleteContactFromTabs
  BY <1>4, RewrittenIs, RewrittenAnswering
<1>5. ASSUME NEW k \in Asks, AsksFor(k) \/ PeerAsks(k) PROVE Answering(stack', db', log', tasks')
  BY <1>5, AsksAnswering
<1>6. ASSUME NEW k \in Asks, NEW yes \in BOOLEAN, TapInChat(k, yes) \/ TapInContact(k, yes) PROVE Answering(stack', db', log', tasks')
  BY <1>6, TapInChatAnswering, TapInContactAnswering
<1>7. ASSUME NEW f \in {"muted", "blocked"}, Toggle(f) PROVE Answering(stack', db', log', tasks')
  BY <1>7, ToggleAnswering
<1>8. CASE OpensChat \/ OpensOther
  BY <1>8, OpensChatIs, OpensOtherIs, OpenedAnswering DEF Kinds
<1>9. CASE Done
  BY <1>9, DoneIs, LeavesAnswering, SwappedAnswering
<1>10. CASE DeleteContact \/ Leaves \/ AppLock \/ AppUnlock \/ StartUnlock
  BY <1>10, DeleteContactAnswering, LeavesAnswering, AppLockAnswering, AppUnlockAnswering, StartUnlockAnswering
<1> QED BY <1>1, <1>2, <1>3, <1>4, <1>5, <1>6, <1>7, <1>8, <1>9, <1>10, Steps DEF Special

-----------------------------------------------------------------------------
(* What the screens come to show.                                          *)

LEMMA TailHas ==
    ASSUME NEW l \in Seq(Items), l # <<>>
    PROVE  \A m \in DOMAIN l : m # 1 => \E n \in DOMAIN Tail(l) : Tail(l)[n] = l[m]
<1>1. Len(l) \in Nat /\ Len(Tail(l)) = Len(l) - 1 /\ DOMAIN l = 1..Len(l) /\ DOMAIN Tail(l) = 1..(Len(l) - 1)
      /\ \A n \in 1..(Len(l) - 1) : Tail(l)[n] = l[n + 1]
  OBVIOUS
<1>2. ASSUME NEW m \in DOMAIN l, m # 1 PROVE m - 1 \in 1..(Len(l) - 1) /\ (m - 1) + 1 = m
  BY <1>1, <1>2
<1> QED BY <1>1, <1>2

NoPuts(l) == \A n \in DOMAIN l : l[n].what # "put"

LEMMA PutsGone ==
    ASSUME NEW e \in Mounted, e.loads # <<>>, PutsFirst(e)
    PROVE  /\ NoPuts(Tail(e.loads))
           /\ \A x \in Items : x.what # "put" => NoPuts(Append(Tail(e.loads), x))
<1>a. PICK k : k = Tail(e.loads)
  OBVIOUS
<1>1. k \in Seq(Items) /\ \A n \in DOMAIN k : n + 1 \in DOMAIN e.loads /\ k[n] = e.loads[n + 1] /\ n \in Nat /\ n >= 1
  BY <1>a, MountedIs, QueueHead
<1>2. \A n \in DOMAIN k : n + 1 # 1
  BY <1>1
<1>3. NoPuts(k)
  BY <1>1, <1>2 DEF NoPuts, PutsFirst
<1>4. ASSUME NEW x \in Items, x.what # "put" PROVE NoPuts(Append(k, x))
  <2>1. \A n \in DOMAIN Append(k, x) : (n \in DOMAIN k /\ Append(k, x)[n] = k[n]) \/ Append(k, x)[n] = x
    BY <1>1
  <2> QED BY <1>3, <1>4, <2>1 DEF NoPuts
<1> QED BY <1>3, <1>4, <1>a

LEMMA NoPutsShow ==
    ASSUME NEW e \in Mounted, NoPuts(e.loads)
    PROVE  PutsFirst(e) /\ ~Putting(e) /\ WillShow(e) = e.seen
<1>1. ~Putting(e)
  <2>1. e.loads # <<>> => 1 \in DOMAIN e.loads
    BY MountedIs, QueueHead
  <2> QED BY <2>1 DEF Putting, NoPuts
<1> QED BY <1>1 DEF PutsFirst, NoPuts, WillShow

\* A read that was not the first waits on.
LEMMA RowWaits ==
    ASSUME NEW e \in Mounted, e.loads # <<>>, NEW q, q.loads = Tail(e.loads)
    PROVE  /\ HasRow(e) /\ Head(e.loads).what # "row" => HasRow(q)
           /\ HasRead(e) /\ Head(e.loads).what = "put" => HasRead(q)
<1>1. Head(e.loads) = e.loads[1] /\ \A m \in DOMAIN e.loads : m # 1 => \E n \in DOMAIN q.loads : q.loads[n] = e.loads[m]
  BY MountedIs, QueueHead, TailHas
<1>2. ASSUME HasRow(e), Head(e.loads).what # "row" PROVE HasRow(q)
  <2>1. PICK m \in DOMAIN e.loads : e.loads[m].what = "row"
    BY <1>2 DEF HasRow
  <2>2. m # 1
    BY <1>1, <1>2, <2>1
  <2> QED BY <1>1, <2>1, <2>2 DEF HasRow
<1>3. ASSUME HasRead(e), Head(e.loads).what = "put" PROVE HasRead(q)
  <2>1. PICK m \in DOMAIN e.loads : e.loads[m].what \in {"row", "thread"}
    BY <1>3 DEF HasRead
  <2>2. m # 1
    BY <1>1, <1>3, <2>1
  <2> QED BY <1>1, <2>1, <2>2 DEF HasRead
<1> QED BY <1>2, <1>3

LEMMA RowUpToDate ==
    ASSUME NEW e \in Mounted, e.loads # <<>>, db \in Bases, PutsFirst(e)
    PROVE  PutsFirst(AfterRow(e)) /\ (UpToDate(e, db) => UpToDate(AfterRow(e), db))
<1>a. PICK q : q = AfterRow(e)
  OBVIOUS
<1>b. PICK x : x = Read("thread", Head(e.loads).then)
  OBVIOUS
<1>1. /\ q \in Mounted /\ q.kind = e.kind /\ q.list = e.list
      /\ q.seen = IF e.kind = "verify" /\ ~db.there THEN e.seen ELSE Facts(db)
      /\ q.loads = IF e.kind = "chat" THEN Append(Tail(e.loads), x) ELSE Tail(e.loads)
  BY <1>a, <1>b, AfterRowIs DEF Rest
<1>2. x \in Items /\ x.what = "thread"
  <2>1. Head(e.loads) \in Items
    BY MountedIs, QueueHead
  <2>2. Head(e.loads).then \in {"", "mark", "send", "answer"}
    BY <2>1 DEF Items
  <2> QED BY <1>b, <2>2, ReadIs
<1>3. NoPuts(q.loads)
  BY <1>1, <1>2, PutsGone
<1>4. PutsFirst(q) /\ WillShow(q) = q.seen
  BY <1>1, <1>3, NoPutsShow
<1>5. q.kind = "chat" => HasRead(q)
  <2>1. PICK k : k = Tail(e.loads)
    OBVIOUS
  <2>2. k \in Seq(Items)
    BY <2>1, MountedIs, QueueHead
  <2>3. Len(k) + 1 \in DOMAIN Append(k, x) /\ Append(k, x)[Len(k) + 1] = x
    BY <1>2, <2>2
  <2> QED BY <1>1, <1>2, <2>1, <2>3 DEF HasRead
<1>6. UpToDate(e, db) => UpToDate(q, db)
  BY <1>1, <1>4, <1>5 DEF UpToDate
<1> QED BY <1>4, <1>6, <1>a

LEMMA ThreadUpToDate ==
    ASSUME NEW e \in Mounted, e.loads # <<>>, db \in Bases, PutsFirst(e), Head(e.loads).what = "thread"
    PROVE  PutsFirst(AfterThread(e)) /\ (UpToDate(e, db) => UpToDate(AfterThread(e), db))
<1>a. PICK q : q = AfterThread(e)
  OBVIOUS
<1>1. /\ q \in Mounted /\ q.kind = e.kind /\ q.list = e.list /\ q.seen = e.seen /\ q.loads = Tail(e.loads)
      /\ q.thread = db.msgs
  BY <1>a, AfterThreadIs DEF Rest
<1>2. NoPuts(q.loads)
  BY <1>1, PutsGone
<1>3. PutsFirst(q) /\ WillShow(q) = q.seen
  BY <1>1, <1>2, NoPutsShow
<1>4. WillShow(e) = e.seen
  <2>1. ~Putting(e)
    BY MountedIs, QueueHead DEF Putting
  <2> QED BY <2>1 DEF WillShow
<1>5. HasRow(e) => HasRow(q)
  BY <1>1, RowWaits
<1>6. UpToDate(e, db) => UpToDate(q, db)
  BY <1>1, <1>3, <1>4, <1>5 DEF UpToDate
<1> QED BY <1>3, <1>6, <1>a

LEMMA PutUpToDate ==
    ASSUME NEW e \in Mounted, e.loads # <<>>, db \in Bases, PutsFirst(e), Head(e.loads).what = "put"
    PROVE  PutsFirst(AfterPut(e)) /\ (UpToDate(e, db) => UpToDate(AfterPut(e), db))
<1>a. PICK q : q = AfterPut(e)
  OBVIOUS
<1>1. /\ q \in Mounted /\ q.kind = e.kind /\ q.list = e.list /\ q.loads = Tail(e.loads)
  BY <1>a, AfterPutIs DEF Rest
<1>2. NoPuts(q.loads)
  BY <1>1, PutsGone
<1>3. PutsFirst(q) /\ WillShow(q) = q.seen
  BY <1>1, <1>2, NoPutsShow
<1>4. WillShow(e) = q.seen /\ e.kind = "contact"
  <2>1. 1 \in DOMAIN e.loads /\ e.loads[1].what = "put"
    BY MountedIs, QueueHead
  <2>2. Putting(e)
    BY <2>1 DEF Putting
  <2> QED BY <1>a, <2>1, <2>2 DEF WillShow, PutsFirst
<1>5. HasRow(e) => HasRow(q)
  BY <1>1, RowWaits
<1>6. UpToDate(e, db) => UpToDate(q, db)
  BY <1>1, <1>3, <1>4, <1>5 DEF UpToDate
<1> QED BY <1>3, <1>6, <1>a

\* One screen changes; when it is visible, it stays up to date.
LEMMA ChangesFollowing ==
    ASSUME Types, Following(stack, db, phone), NEW i, NEW q, Changes(i, q), PutsFirst(q),
           i = Top => (UpToDate(stack[i], db) /\ ~phone.locked => UpToDate(q, db')), i # Top => db' = db, phone'.locked = phone.locked
    PROVE  Following(stack', db', phone')
<1>1. /\ stack' \in Stacks /\ stack'[i] = q /\ DOMAIN stack' = DOMAIN stack /\ Len(stack') = Top
      /\ \A j \in DOMAIN stack : j # i => stack'[j] = stack[j]
  BY TopIs, Changed DEF Shape
<1>2. \A j \in DOMAIN stack' : PutsFirst(stack'[j])
  BY <1>1 DEF Following
<1>3. ASSUME ~phone.locked PROVE UpToDate(stack'[Top], db')
  <2>1. UpToDate(stack[Top], db)
    BY <1>3, TopIs DEF Following
  <2>2. CASE i = Top
    BY <1>1, <1>3, <2>1, <2>2
  <2>3. CASE i # Top
    BY <1>1, <2>1, <2>3, TopIs
  <2> QED BY <2>2, <2>3
<1> QED BY <1>1, <1>2, <1>3 DEF Following

LEMMA LoadFollowing ==
    ASSUME Types, Following(stack, db, phone), NEW i \in DOMAIN stack, Load(i)
    PROVE  Following(stack', db', phone')
<1>a. PICK e : e = stack[i]
  OBVIOUS
<1>1. e \in Mounted /\ e.loads # <<>> /\ db \in Bases /\ UNCHANGED <<db, phone>> /\ PutsFirst(e)
  BY <1>a, LoadIs, TopIs DEF Following
<1>2. \E q : Changes(i, q) /\ PutsFirst(q) /\ (UpToDate(e, db) => UpToDate(q, db))
  <2>1. CASE Head(e.loads).what = "row" /\ Changes(i, AfterRow(e))
    BY <1>1, <2>1, RowUpToDate
  <2>2. CASE Head(e.loads).what = "thread" /\ Changes(i, AfterThread(e))
    BY <1>1, <2>2, ThreadUpToDate
  <2>3. CASE Head(e.loads).what = "put" /\ Changes(i, AfterPut(e))
    BY <1>1, <2>3, PutUpToDate
  <2> QED BY <1>a, <2>1, <2>2, <2>3, LoadIs
<1> QED BY <1>1, <1>2, <1>a, ChangesFollowing

\* The same screen with another list.
LEMMA ListUpToDate ==
    ASSUME NEW e \in Mounted, NEW l \in Lists, l.loading \/ l.read = <<>>, NEW d, UpToDate(e, d), PutsFirst(e),
           e.kind = "tabs" => IF l.loading THEN l.dirty \/ l.read = <<>> \/ l.read = <<RowOf(d)>> ELSE l.row = RowOf(d)
    PROVE  LET q == [e EXCEPT !.list = l] IN PutsFirst(q) /\ UpToDate(q, d)
<1>a. PICK q : q = [e EXCEPT !.list = l]
  OBVIOUS
<1>1. q \in Mounted /\ q.kind = e.kind /\ q.seen = e.seen /\ q.thread = e.thread /\ q.loads = e.loads /\ q.list = l
  BY <1>a, ListIs
<1>2. PutsFirst(q)
  BY <1>1 DEF PutsFirst
<1>3. WillShow(q) = WillShow(e)
  <2>1. CASE e.loads = <<>>
    BY <1>1, <2>1 DEF WillShow, Putting
  <2>2. CASE e.loads # <<>>
    <3>1. AfterPut(q).seen = AfterPut(e).seen
      BY <1>1, <2>2 DEF AfterPut, Mounted, Entries
    <3> QED BY <1>1, <3>1 DEF WillShow, Putting
  <2> QED BY <2>1, <2>2
<1>4. (HasRow(e) <=> HasRow(q)) /\ (HasRead(e) <=> HasRead(q))
  BY <1>1 DEF HasRow, HasRead
<1>5. UpToDate(q, d)
  BY <1>1, <1>3, <1>4 DEF UpToDate
<1> QED BY <1>2, <1>5, <1>a

LEMMA RelistedFollowing ==
    ASSUME Types, Following(stack, db, phone), NEW i, NEW l, Relisted(i, l),
           UpToDate(stack[i], db) /\ stack[i].kind = "tabs" =>
             IF l.loading THEN l.dirty \/ l.read = <<>> \/ l.read = <<RowOf(db)>> ELSE l.row = RowOf(db)
    PROVE  Following(stack', db', phone')
<1>a. PICK q : q = [stack[i] EXCEPT !.list = l]
  OBVIOUS
<1>1. i \in DOMAIN stack /\ stack[i] \in Mounted /\ l \in Lists /\ (l.loading \/ l.read = <<>>) /\ PutsFirst(stack[i])
  BY TopIs DEF Relisted, Changes, Following
<1>2. Changes(i, q) /\ UNCHANGED <<db, phone>>
  BY <1>a DEF Relisted
<1>3. UpToDate(stack[i], db) => UpToDate(q, db)
  BY <1>1, <1>a, ListUpToDate
<1>4. PutsFirst(q)
  <2>1. q.loads = stack[i].loads /\ q.kind = stack[i].kind
    BY <1>1, <1>a, ListIs
  <2> QED BY <1>1, <2>1 DEF PutsFirst
<1> QED BY <1>2, <1>3, <1>4, ChangesFollowing

LEMMA ListReadsFollowing ==
    ASSUME Types, Following(stack, db, phone), NEW i \in DOMAIN stack, ListReads(i)
    PROVE  Following(stack', db', phone')
<1>a. PICK l : l = ReadList(stack[i].list)
  OBVIOUS
<1>1. Relisted(i, l) /\ stack[i].list.loading /\ stack[i].list \in Lists
  BY <1>a, ListReadsIs, TopIs, MountedIs
<1>2. l.loading /\ l.read = <<RowOf(db)>>
  BY <1>1, <1>a DEF ReadList, Lists
<1> QED BY <1>1, <1>2, RelistedFollowing

LEMMA ListShowsFollowing ==
    ASSUME Types, Following(stack, db, phone), NEW i \in DOMAIN stack, ListShows(i)
    PROVE  Following(stack', db', phone')
<1>a. PICK o : o = stack[i].list
  OBVIOUS
<1>b. PICK l : l = ShownList(o)
  OBVIOUS
<1>1. Relisted(i, l) /\ o.read # <<>> /\ o \in Lists /\ (o.loading \/ o.read = <<>>) /\ db \in Bases
  BY <1>a, <1>b, ListShowsIs, TopIs, MountedIs
<1>2. l.read = <<>> /\ l.loading = o.dirty
      /\ l.row = IF o.read[1].shown /\ db.there THEN [o.read[1] EXCEPT !.locked = db.lock] ELSE NoRow
  BY <1>b DEF ShownList
<1>3. ASSUME UpToDate(stack[i], db), stack[i].kind = "tabs", ~l.loading PROVE l.row = RowOf(db)
  <2>1. o.read = <<RowOf(db)>>
    BY <1>1, <1>2, <1>3, <1>a DEF UpToDate
  <2>2. o.read[1] = RowOf(db)
    BY <2>1
  <2>3. CASE db.there /\ db.msgs # NoMessages
    <3>1. RowOf(db) = [shown |-> TRUE, unread |-> \E m \in Msgs : db.msgs[m] = "unread", locked |-> db.lock]
      BY <2>3 DEF RowOf
    <3>2. RowOf(db).shown = TRUE /\ [RowOf(db) EXCEPT !.locked = db.lock] = RowOf(db)
      BY <3>1
    <3> QED BY <1>2, <2>2, <2>3, <3>2
  <2>4. CASE ~(db.there /\ db.msgs # NoMessages)
    BY <1>2, <2>2, <2>4 DEF RowOf, NoRow
  <2> QED BY <2>3, <2>4
<1> QED BY <1>1, <1>2, <1>3, RelistedFollowing

LEMMA SameFollowing ==
    ASSUME Following(stack, db, phone), UNCHANGED <<stack, db, phone>>
    PROVE  Following(stack', db', phone')
OBVIOUS

\* One screen keeps what it has.
LEMMA ViewFollowing ==
    ASSUME Types, Following(stack, db, phone), NEW i, NEW q, Changes(i, q), SameView(stack[i], q), q.list = stack[i].list,
           db' = db, phone'.locked = phone.locked
    PROVE  Following(stack', db', phone')
<1>1. i \in DOMAIN stack /\ stack[i] \in Mounted /\ q \in Mounted
  BY TopIs DEF Changes
<1>2. PutsFirst(q)
  BY <1>1, PutsFirstKept DEF Following, SameView
<1>3. UpToDate(stack[i], db) => UpToDate(q, db')
  BY <1>1, FreshKept
<1> QED BY <1>1, <1>2, <1>3, ChangesFollowing

LEMMA UnlockEndsFollowing ==
    ASSUME Types, Following(stack, db, phone), NEW t \in tasks, NEW right \in BOOLEAN, UnlockEnds(t, right)
    PROVE  Following(stack', db', phone')
<1>1. /\ db' = db /\ phone' = [phone EXCEPT !.released = phone.released \/ right] /\ phone \in Phones
      /\ \/ stack' = stack
         \/ \E q : Changes(t.at, q) /\ AfterUnlock(stack[t.at], q, right)
  BY UnlockEndsIs, TopIs
<1>2. phone'.locked = phone.locked
  <2>1. (phone.released \/ right) \in BOOLEAN
    OBVIOUS
  <2> QED BY <1>1, <2>1 DEF Phones
<1>3. CASE stack' = stack
  BY <1>1, <1>2, <1>3 DEF Following
<1>4. ASSUME NEW q, Changes(t.at, q), AfterUnlock(stack[t.at], q, right) PROVE Following(stack', db', phone')
  BY <1>1, <1>2, <1>4, ViewFollowing DEF AfterUnlock
<1> QED BY <1>1, <1>3, <1>4

LEMMA ToldFollowing ==
    ASSUME Types, Following(stack, db, phone), Told, phone'.locked = phone.locked
    PROVE  Following(stack', db', phone')
<1>1. stack \in Stacks /\ stack' \in Stacks /\ SameViews(stack, stack') /\ UpToDate(stack'[Top], db') /\ Len(stack') = Top
  BY TopIs, SteadyViews DEF Told, Types, SteadyStack
<1> QED BY <1>1, FollowingKept

LEMMA AnswerWritesFollowing ==
    ASSUME Types, Following(stack, db, phone), NEW t \in tasks, AnswerWrites(t)
    PROVE  Following(stack', db', phone')
<1>a. PICK s : s = IF t.at = 0 THEN stack ELSE Set(stack, t.at, Answered(stack[t.at]))
  OBVIOUS
<1>1. /\ (t.at # 0 => t.at \in DOMAIN stack /\ Len(stack[t.at].loads) < MaxLoads)
      /\ s \in Stacks /\ SameViews(stack, s) /\ Roomy(s) /\ Types' /\ UNCHANGED phone
      /\ \/ stack' = s /\ db' = db
         \/ HaveHeard(s, stack')
  BY <1>a, AnswerWritesIs
<1>2. stack \in Stacks /\ stack' \in Stacks /\ Top \in DOMAIN stack /\ Len(stack) = Top /\ Len(s) = Top
      /\ \A i \in DOMAIN stack : stack[i] \in Mounted
  BY <1>1, TopIs DEF Types, SameViews
<1>3. CASE stack' = s /\ db' = db
  <2>1. s[Top].list = stack[Top].list
    <3>1. CASE t.at = 0
      BY <1>a, <3>1
    <3>2. CASE t.at # 0
      <4>a. PICK q : q = Answered(stack[t.at])
        OBVIOUS
      <4>b. PICK j : j = t.at
        OBVIOUS
      <4>1. j \in DOMAIN stack /\ q \in Mounted /\ s = Set(stack, j, q) /\ q.list = stack[j].list
        BY <1>1, <1>2, <1>a, <3>2, <4>a, <4>b, AnsweredIs
      <4>c. stack \in Stacks /\ j \in DOMAIN stack /\ q \in Mounted /\ s = Set(stack, j, q)
        BY <1>2, <4>1
      <4>2. s[j] = q /\ \A i \in DOMAIN stack : i # j => s[i] = stack[i]
        BY <4>c, SetAt
      <4>3. CASE j = Top
        BY <4>1, <4>2, <4>3
      <4>4. CASE j # Top
        BY <1>2, <4>2, <4>4
      <4> QED BY <4>3, <4>4
    <3> QED BY <3>1, <3>2
  <2> QED BY <1>1, <1>2, <1>3, <2>1, FollowingKept
<1>4. CASE HaveHeard(s, stack')
  <2>1. UpToDate(stack'[Top], db')
    BY <1>1, <1>2, <1>4, HeardFresh
  <2>2. SameViews(stack, stack') /\ Len(stack') = Top
    <3>1. SteadyStack(s, stack')
      BY <1>1, <1>4, HeardSteady
    <3>2. DOMAIN stack = DOMAIN s /\ Len(stack') = Top
      BY <1>1, <1>2, <3>1, StackIs DEF SteadyStack
    <3> QED BY <1>1, <1>2, <3>1, <3>2 DEF SteadyStack, SameViews, Steady, SameView, Grown
  <2> QED BY <1>1, <1>2, <2>1, <2>2, FollowingKept
<1> QED BY <1>1, <1>3, <1>4

LEMMA ToggleFollowing ==
    ASSUME Types, Following(stack, db, phone), "toggle" \notin Windows, NEW f \in {"muted", "blocked"}, Toggle(f)
    PROVE  Following(stack', db', phone')
<1>a. PICK x : x = PutOf(f)
  OBVIOUS
<1>b. PICK q : q = Queue(Screen, x)
  OBVIOUS
<1>c. PICK v : v = [Screen.seen EXCEPT ![f] = ~Screen.seen[f]]
  OBVIOUS
<1>1. /\ Screen.kind = "contact" /\ Screen.loads = <<>> /\ x \in Items /\ Changes(Top, q)
      /\ q.loads = Queued(Screen.loads, x) /\ Alike(Screen, q) /\ phone' = phone
      /\ db' = [db EXCEPT ![f] = ~Screen.seen[f]]
  BY <1>a, <1>b, ToggleIs
<1>2. x.what = "put" /\ x.put = v
  BY <1>a, <1>c DEF PutOf
<1>3. Screen \in Mounted /\ Screen = stack[Top] /\ Screen.seen \in AllFacts /\ db \in Bases /\ q \in Mounted /\ Top = Len(stack)
  BY <1>1, TopIs, MountedIs DEF Changes
<1>4. q.loads = <<x>> /\ q.seen = Screen.seen /\ q.kind = "contact"
  <2>1. Queued(<<>>, x) = <<x>>
    BY DEF Queued
  <2> QED BY <1>1, <2>1 DEF Alike
<1>5. PutsFirst(q)
  BY <1>4 DEF PutsFirst
<1>6. ASSUME UpToDate(Screen, db) PROVE UpToDate(q, db')
  <2>1. Screen.seen = Facts(db)
    <3>1. ~HasRow(Screen) /\ WillShow(Screen) = Screen.seen
      BY <1>1 DEF HasRow, WillShow, Putting
    <3> QED BY <1>1, <1>6, <3>1 DEF UpToDate
  <2>2. WillShow(q) = AfterPut(q).seen
    <3>1. q.loads # <<>> /\ q.loads[1] = x
      BY <1>4
    <3> QED BY <1>2, <3>1 DEF WillShow, Putting
  <2>3. Head(q.loads) = x /\ q.loads # <<>>
    BY <1>4
  <2>4. AfterPut(q).seen = [there |-> v.there, lock |-> Screen.seen.lock, pend |-> Screen.seen.pend, local |-> v.local,
                            peer |-> v.peer, blocked |-> v.blocked, muted |-> v.muted]
    <3>1. AfterPut(q).seen = [there |-> Head(q.loads).put.there, lock |-> q.seen.lock, pend |-> q.seen.pend,
                              local |-> Head(q.loads).put.local, peer |-> Head(q.loads).put.peer,
                              blocked |-> Head(q.loads).put.blocked, muted |-> Head(q.loads).put.muted]
      BY <1>3, <2>3, AfterPutIs
    <3>2. Head(q.loads).put = v /\ q.seen.lock = Screen.seen.lock /\ q.seen.pend = Screen.seen.pend
      BY <1>2, <1>4, <2>3
    <3> QED BY <3>1, <3>2
  <2>5. Screen.seen = [there |-> db.there, lock |-> db.lock, pend |-> db.pend, local |-> db.local,
                       peer |-> db.peer, blocked |-> db.blocked, muted |-> db.muted]
    BY <1>3, <2>1, FactsIs
  <2>6. db' \in Bases
    <3>1. Screen.seen[f] \in BOOLEAN
      BY <1>3 DEF AllFacts
    <3> QED BY <1>1, <1>3, <3>1 DEF Bases
  <2>7. Facts(db') = [there |-> db'.there, lock |-> db'.lock, pend |-> db'.pend, local |-> db'.local,
                      peer |-> db'.peer, blocked |-> db'.blocked, muted |-> db'.muted]
    BY <2>6, FactsIs
  <2>8. AfterPut(q).seen = Facts(db')
    <3>1. CASE f = "muted"
      <4>1. v.there = db.there /\ v.local = db.local /\ v.peer = db.peer /\ v.blocked = db.blocked /\ v.muted = ~Screen.seen.muted
        BY <1>3, <1>c, <2>5, <3>1 DEF AllFacts
      <4>2. db'.there = db.there /\ db'.lock = db.lock /\ db'.pend = db.pend /\ db'.local = db.local /\ db'.peer = db.peer
            /\ db'.blocked = db.blocked /\ db'.muted = ~Screen.seen.muted
        BY <1>1, <1>3, <3>1 DEF Bases
      <4>3. Screen.seen.lock = db.lock /\ Screen.seen.pend = db.pend
        BY <2>5
      <4> QED BY <2>4, <2>7, <4>1, <4>2, <4>3
    <3>2. CASE f = "blocked"
      <4>1. v.there = db.there /\ v.local = db.local /\ v.peer = db.peer /\ v.blocked = ~Screen.seen.blocked /\ v.muted = db.muted
        BY <1>3, <1>c, <2>5, <3>2 DEF AllFacts
      <4>2. db'.there = db.there /\ db'.lock = db.lock /\ db'.pend = db.pend /\ db'.local = db.local /\ db'.peer = db.peer
            /\ db'.blocked = ~Screen.seen.blocked /\ db'.muted = db.muted
        BY <1>1, <1>3, <3>2 DEF Bases
      <4>3. Screen.seen.lock = db.lock /\ Screen.seen.pend = db.pend
        BY <2>5
      <4> QED BY <2>4, <2>7, <4>1, <4>2, <4>3
    <3> QED BY <3>1, <3>2
  <2> QED BY <1>4, <2>2, <2>8 DEF UpToDate
<1> QED BY <1>1, <1>3, <1>5, <1>6, ChangesFollowing

LEMMA EntryFresh ==
    ASSUME NEW kind \in Kinds, NEW scanned \in BOOLEAN, phone \in Phones, NEW d
    PROVE  UpToDate(Hears(Entry(kind, scanned)), d) /\ PutsFirst(Hears(Entry(kind, scanned)))
<1>1. Entry(kind, scanned) \in Mounted /\ Len(Entry(kind, scanned).loads) < MaxLoads /\ Entry(kind, scanned).loads = <<>>
  BY EntryRoom, EntryIs
<1>2. \A n : n \notin DOMAIN Entry(kind, scanned).loads
  BY <1>1
<1>3. \A n \in DOMAIN Hears(Entry(kind, scanned)).loads : Hears(Entry(kind, scanned)).loads[n].what # "put"
  BY <1>1, <1>2, HearsUnasked
<1> QED BY <1>1, <1>3, HearsFresh DEF PutsFirst

LEMMA OpenedFollowing ==
    ASSUME Types, Following(stack, db, phone), NEW kind \in Kinds, Opened(kind)
    PROVE  Following(stack', db', phone')
<1>1. /\ stack' \in Stacks /\ Len(stack') = Top + 1 /\ stack'[Top + 1] = Hears(Entry(kind, FALSE))
      /\ \A i \in DOMAIN stack : stack'[i] = stack[i]
  BY DEF Opened
<1>2. \A i \in DOMAIN stack' : i = Top + 1 \/ i \in DOMAIN stack
  BY <1>1, TopIs, StackIs
<1>3. UpToDate(stack'[Top + 1], db') /\ PutsFirst(stack'[Top + 1])
  BY <1>1, TopIs, EntryFresh
<1> QED BY <1>1, <1>2, <1>3 DEF Following

LEMMA SwappedFollowing ==
    ASSUME Types, Following(stack, db, phone), NEW kind \in Kinds, NEW scanned \in BOOLEAN, NEW ts, Swapped(kind, scanned, ts)
    PROVE  Following(stack', db', phone')
<1>1. /\ stack' \in Stacks /\ Len(stack') = Top /\ stack'[Top] = Hears(Entry(kind, scanned))
      /\ \A i \in DOMAIN stack : i # Top => stack'[i] = stack[i]
  BY DEF Swapped
<1>2. DOMAIN stack' = DOMAIN stack
  BY <1>1, TopIs, StackIs
<1>3. UpToDate(stack'[Top], db') /\ PutsFirst(stack'[Top])
  BY <1>1, TopIs, EntryFresh
<1> QED BY <1>1, <1>2, <1>3 DEF Following

LEMMA EmptyFirst == ASSUME NEW e, e.loads = <<>> PROVE PutsFirst(e)
BY DEF PutsFirst

LEMMA LeavesFollowing ==
    ASSUME Types, Following(stack, db, phone), Leaves
    PROVE  Following(stack', db', phone')
<1>1. /\ Len(stack') = Top - 1 /\ (\A i \in 1..(Top - 2) : stack'[i] = stack[i])
      /\ Top > 1 /\ stack' \in Stacks /\ Top - 1 \in DOMAIN stack /\ phone'.locked = phone.locked
  BY LeavesIs
<1>2. /\ Top \in Nat /\ DOMAIN stack = 1..Top /\ DOMAIN stack' = 1..(Top - 1) /\ phone \in Phones
      /\ stack[Top - 1] \in Mounted
  BY <1>1, TopIs, StackIs
<1>3. PutsFirst(stack'[Top - 1]) /\ (~phone.locked => UpToDate(stack'[Top - 1], db'))
  <2>0. PutsFirst(stack[Top - 1])
    BY <1>1 DEF Following
  <2>1. CASE phone.locked
    <3>1. PutsFirst(Entry("lock", FALSE))
      BY EmptyFirst DEF Entry
    <3> QED BY <2>0, <2>1, <3>1, LeavesIs
  <2>2. CASE ~phone.locked
    <3>1. stack'[Top - 1] = Hears(stack[Top - 1]) /\ Len(stack[Top - 1].loads) < MaxLoads
      BY <1>1, <2>2, LeavesIs DEF Roomy
    <3>2. Steady(stack[Top - 1], stack'[Top - 1])
      BY <1>2, <3>1, HearsSteady
    <3> QED BY <1>2, <2>0, <3>1, <3>2, HearsFresh, PutsFirstKept DEF Steady, SameView
  <2> QED BY <2>1, <2>2
<1>4. \A i \in DOMAIN stack' : i \in DOMAIN stack /\ (i = Top - 1 \/ i \in 1..(Top - 2))
  BY <1>1, <1>2
<1> QED BY <1>1, <1>3, <1>4 DEF Following

LEMMA DeleteContactFollowing ==
    ASSUME Types, Following(stack, db, phone), DeleteContact
    PROVE  Following(stack', db', phone')
<1>1. /\ stack' \in Stacks /\ Len(stack') = Top /\ stack'[Top] = Hears(Entry("tabs", FALSE))
      /\ \A i \in DOMAIN stack : i # Top => Steady(stack[i], stack'[i])
  BY DeleteContactIs
<1>2. DOMAIN stack' = DOMAIN stack
  BY <1>1, TopIs, StackIs
<1>3. UpToDate(stack'[Top], db') /\ PutsFirst(stack'[Top])
  BY <1>1, TopIs, EntryFresh DEF Kinds
<1>4. \A i \in DOMAIN stack : i # Top => PutsFirst(stack'[i])
  BY <1>1, PutsFirstKept DEF Following, Steady, SameView
<1> QED BY <1>1, <1>2, <1>3, <1>4 DEF Following

LEMMA AppLockFollowing ==
    ASSUME Types, Following(stack, db, phone), AppLock
    PROVE  Following(stack', db', phone')
<1>1. /\ stack' \in Stacks /\ Len(stack') = Top /\ phone'.locked
      /\ (\A i \in DOMAIN stack : i # Top => stack'[i] = Cleared(stack[i]))
      /\ (stack'[Top] = IF Screen.kind \in {"tabs", "scan"} THEN Entry("lock", FALSE) ELSE Cleared(Screen))
  BY AppLockIs
<1>2. DOMAIN stack' = DOMAIN stack
  BY <1>1, TopIs, StackIs
<1>3. \A i \in DOMAIN stack' : stack'[i].loads = <<>>
  <2>1. \A i \in DOMAIN stack : Cleared(stack[i]).loads = <<>>
    BY TopIs, ClearedIs
  <2>2. Entry("lock", FALSE).loads = <<>> /\ Cleared(Screen).loads = <<>>
    BY TopIs, ClearedIs DEF Entry
  <2>3. stack'[Top].loads = <<>>
    BY <1>1, <2>2
  <2> QED BY <1>1, <1>2, <2>1, <2>3
<1> QED BY <1>1, <1>3, EmptyFirst DEF Following

LEMMA StepFollowing ==
    ASSUME Types, Next, Following(stack, db, phone), "toggle" \notin Windows
    PROVE  Following(stack', db', phone')
<1>1. CASE Calm
  BY <1>1, CalmFollowing
<1>2. ASSUME NEW i \in DOMAIN stack, Load(i) \/ ListReads(i) \/ ListShows(i) PROVE Following(stack', db', phone')
  BY <1>2, LoadFollowing, ListReadsFollowing, ListShowsFollowing
<1>3. ASSUME NEW t \in tasks, MarkReads(t) \/ AnswerReads(t) \/ AnswerWrites(t) \/ ScanAdds(t)
                             \/ \E right \in BOOLEAN : UnlockEnds(t, right)
      PROVE Following(stack', db', phone')
  <2>1. CASE ScanAdds(t)
    BY <2>1, ScanAddsIs, SwappedFollowing DEF Kinds
  <2>2. CASE MarkReads(t) \/ AnswerReads(t)
    BY <2>2, MarkReadsIs, AnswerReadsIs, SameFollowing
  <2> QED BY <1>3, <2>1, <2>2, AnswerWritesFollowing, UnlockEndsFollowing
<1>4. CASE EnableLock \/ Removes \/ ForgotCode \/ DeleteChat \/ DeleteContactFromTabs
  BY <1>4, RewrittenIs, ToldFollowing DEF Rewritten
<1>5. ASSUME NEW k \in Asks, AsksFor(k) \/ PeerAsks(k) PROVE Following(stack', db', phone')
  BY <1>5, AsksIs, ToldFollowing
<1>6. ASSUME NEW k \in Asks, NEW yes \in BOOLEAN, TapInChat(k, yes) PROVE Following(stack', db', phone')
  <2>a. PICK q : q = [Screen EXCEPT !.busy = @ \cup {"answer"}]
    OBVIOUS
  <2>1. UNCHANGED <<db, phone>> /\ Changes(Top, q) /\ SameView(Screen, q) /\ q.list = Screen.list
    BY <1>6, <2>a, TapInChatIs
  <2>2. Screen = stack[Top]
    BY TopIs
  <2> QED BY <2>1, <2>2, ViewFollowing
<1>7. ASSUME NEW k \in Asks, NEW yes \in BOOLEAN, TapInContact(k, yes) PROVE Following(stack', db', phone')
  BY <1>7, TapInContactIs, SameFollowing
<1>8. ASSUME NEW f \in {"muted", "blocked"}, Toggle(f) PROVE Following(stack', db', phone')
  BY <1>8, ToggleFollowing
<1>9. CASE OpensChat \/ OpensOther
  BY <1>9, OpensChatIs, OpensOtherIs, OpenedFollowing DEF Kinds
<1>10. CASE Done
  BY <1>10, DoneIs, LeavesFollowing, SwappedFollowing DEF Kinds
<1>11. CASE StartUnlock
  <2>1. UNCHANGED <<db, phone>> /\ \E q : Changes(Top, q) /\ SameView(stack[Top], q) /\ q.list = stack[Top].list
    BY <1>11, StartUnlockIs, TopIs DEF Steady
  <2> QED BY <2>1, ViewFollowing
<1>12. CASE AppUnlock
  BY <1>12, AppUnlockIs, SwappedFollowing DEF Kinds
<1>13. CASE DeleteContact \/ Leaves \/ AppLock
  BY <1>13, DeleteContactFollowing, LeavesFollowing, AppLockFollowing
<1> QED BY <1>1, <1>2, <1>3, <1>4, <1>5, <1>6, <1>7, <1>8, <1>9, <1>10, <1>11, <1>12, <1>13, Steps DEF Special

-----------------------------------------------------------------------------
(* The gate.                                                               *)

\* No handlers start but those that ask for nothing the gate guards.
MildTasks(ts, us) ==
    \A t \in us : t \in ts \/ t.op \in {"send", "answer"} \/ (t.op = "mark" /\ t.was = "?") \/ t.op = "add"

\* The chat may show and hold something else, and the lock may go.
LEMMA GatesFrom ==
    ASSUME NEW s \in Stacks, NEW q \in Stacks, NEW d, NEW c, NEW ph, NEW pj, NEW ts, NEW us,
           Gates(s, d, ph, ts), Len(q) = Len(s), Placed(us, q), MildTasks(ts, us),
           \A i \in DOMAIN s : q[i].kind = s[i].kind /\ q[i].scanned = s[i].scanned,
           \A i \in DOMAIN s : s[i].kind = "chat" => ChatGate(q[i], i = Len(s), c, pj),
           \A t \in us : t.op = "unlock" /\ t.at \in DOMAIN s /\ s[t.at].kind = "chat" => Gated(q[t.at]),
           c.lock => d.lock, pj.locked = ph.locked, pj.locked => ~pj.released
    PROVE  Gates(q, c, pj, us)
<1>1. DOMAIN q = DOMAIN s /\ OneChat(q) /\ Covers(q, c)
  BY StackIs DEF Gates, OneChat, Covers
<1>2. ChatGates(q, c, pj)
  BY <1>1 DEF ChatGates
<1>3. ASSUME NEW t \in us PROVE /\ t.op = "unlock" => ~pj.locked /\ Unlocking(t, q)
                                /\ t.op = "mark" /\ t.at # 0 /\ t.was = "open" => ~c.lock
  <2>1. t.at \in 0..Len(q) /\ DOMAIN q = 1..Len(q)
    BY StackIs DEF Placed
  <2>2. CASE t \in ts
    <3>1. t.op = "mark" /\ t.at # 0 /\ t.was = "open" => ~c.lock
      BY <2>2 DEF Gates, HandlersOK
    <3>2. ASSUME t.op = "unlock" PROVE ~pj.locked /\ Unlocking(t, q)
      <4>1. ~ph.locked /\ Unlocking(t, s)
        BY <2>2, <3>2 DEF Gates, HandlersOK
      <4>2. t.at \in DOMAIN s
        BY <1>1, <2>1, <4>1, StackIs, Somewhere DEF Unlocking
      <4>3. s[t.at].kind = "chat" => Gated(q[t.at])
        BY <3>2, <4>2
      <4> QED BY <1>1, <4>1, <4>2, <4>3 DEF Unlocking
    <3> QED BY <3>1, <3>2
  <2>3. CASE t \notin ts
    BY <2>3 DEF MildTasks
  <2> QED BY <2>2, <2>3
<1> QED BY <1>1, <1>2, <1>3 DEF Gates, HandlersOK

\* What the gate needs of a step that is not about it.
LEMMA GatesSame ==
    ASSUME Types, Types', Gates(stack, db, phone, tasks), NEW s \in Stacks, stack' = s, Len(s) = Len(stack),
           \A i \in DOMAIN stack : /\ s[i].kind = stack[i].kind /\ s[i].scanned = stack[i].scanned
                                   /\ (stack[i].kind = "chat" => s[i].open = stack[i].open /\ s[i].seen = stack[i].seen),
           MildTasks(tasks, tasks'), db'.lock = db.lock, db'.there = db.there,
           phone'.locked = phone.locked, phone'.released = phone.released
    PROVE  Gates(stack', db', phone', tasks')
<1>1. stack \in Stacks /\ Placed(tasks', s)
  BY TopIs DEF Types
<1>2. \A t \in tasks' : t \in tasks \/ t.op \in {"send", "answer"} \/ (t.op = "mark" /\ t.was = "?") \/ t.op = "add"
  BY DEF MildTasks
<1>3. Gates(s, db', phone', tasks')
  BY <1>1, <1>2, GatesKept
<1> QED BY <1>3

LEMMA ChangesGates ==
    ASSUME Types, Types', Gates(stack, db, phone, tasks), NEW i, NEW q, Changes(i, q), q.scanned = stack[i].scanned,
           stack[i].kind = "chat" => q.open = stack[i].open /\ q.seen = stack[i].seen,
           MildTasks(tasks, tasks'), db'.lock = db.lock, db'.there = db.there, phone' = phone
    PROVE  Gates(stack', db', phone', tasks')
<1>1. /\ stack' \in Stacks /\ Len(stack') = Len(stack) /\ stack'[i] = q /\ q.kind = stack[i].kind
      /\ \A j \in DOMAIN stack : j # i => stack'[j] = stack[j]
  BY Changed DEF Shape, Changes
<1>2. \A j \in DOMAIN stack : /\ stack'[j].kind = stack[j].kind /\ stack'[j].scanned = stack[j].scanned
                              /\ (stack[j].kind = "chat" => stack'[j].open = stack[j].open /\ stack'[j].seen = stack[j].seen)
  BY <1>1
<1> QED BY <1>1, <1>2, GatesSame

LEMMA StillGates ==
    ASSUME Types, Types', Gates(stack, db, phone, tasks), stack' = stack, MildTasks(tasks, tasks'),
           db' = db, phone' = phone
    PROVE  Gates(stack', db', phone', tasks')
<1>1. stack \in Stacks
  BY TopIs
<1> QED BY <1>1, GatesSame

LEMMA RelistedGates ==
    ASSUME Types, Gates(stack, db, phone, tasks), NEW i \in DOMAIN stack, ListReads(i) \/ ListShows(i)
    PROVE  Gates(stack', db', phone', tasks')
<1>1. PICK l : Relisted(i, l)
  BY ListReadsIs, ListShowsIs
<1>2. Types' /\ stack[i] \in Mounted /\ MildTasks(tasks, tasks')
  BY <1>1, RelistedTypes, TopIs DEF Relisted, MildTasks
<1>3. l \in Lists /\ (l.loading \/ l.read = <<>>) /\ Changes(i, [stack[i] EXCEPT !.list = l]) /\ db' = db /\ phone' = phone
  BY <1>1 DEF Relisted
<1>a. PICK e : e = stack[i]
  OBVIOUS
<1>b. PICK q : q = [e EXCEPT !.list = l]
  OBVIOUS
<1>4. q.scanned = e.scanned /\ q.open = e.open /\ q.seen = e.seen
  BY <1>a, <1>b, <1>2, <1>3, ListIs
<1>5. Changes(i, q)
  BY <1>a, <1>b, <1>3
<1> QED BY <1>a, <1>2, <1>3, <1>4, <1>5, ChangesGates

LEMMA TapsGates ==
    ASSUME Types, Gates(stack, db, phone, tasks), NEW k \in Asks, NEW yes \in BOOLEAN,
           TapInChat(k, yes) \/ TapInContact(k, yes)
    PROVE  Gates(stack', db', phone', tasks')
<1>1. CASE TapInChat(k, yes)
  <2>1. \E q : /\ Changes(Top, q) /\ SameView(Screen, q) /\ q.open = Screen.open /\ Types'
               /\ \A t \in tasks' : t \in tasks \/ t.op = "answer"
               /\ UNCHANGED <<scene, left, db, log, phone>>
    BY <1>1, TapInChatIs, ZenonT(30)
  <2>2. PICK q : /\ Changes(Top, q) /\ SameView(Screen, q) /\ q.open = Screen.open /\ Types'
                 /\ \A t \in tasks' : t \in tasks \/ t.op = "answer"
                 /\ UNCHANGED <<scene, left, db, log, phone>>
    BY <2>1
  <2>3. q.scanned = stack[Top].scanned /\ q.seen = stack[Top].seen /\ q.open = stack[Top].open /\ MildTasks(tasks, tasks')
    BY <2>2, TopIs DEF SameView, MildTasks
  <2> QED BY <2>2, <2>3, ChangesGates
<1>2. CASE TapInContact(k, yes)
  <2>1. Types' /\ stack' = stack /\ db' = db /\ phone' = phone /\ \A t \in tasks' : t \in tasks \/ t.op = "answer"
    BY <1>2, TapInContactIs
  <2>2. MildTasks(tasks, tasks')
    BY <2>1 DEF MildTasks
  <2> QED BY <2>1, <2>2, StillGates
<1> QED BY <1>1, <1>2

LEMMA AnswerReadsGates ==
    ASSUME Types, Gates(stack, db, phone, tasks), NEW t \in tasks, AnswerReads(t)
    PROVE  Gates(stack', db', phone', tasks')
<1>1. PICK u \in Tasks : /\ u.op = "answer" /\ tasks' = (tasks \ {t}) \cup {u} /\ Types'
                         /\ UNCHANGED <<scene, left, db, log, phone, stack>>
  BY AnswerReadsIs
<1>2. MildTasks(tasks, tasks')
  BY <1>1 DEF MildTasks
<1> QED BY <1>1, <1>2, StillGates

\* A mark that found the lock off may write whatever the registry says.
LEMMA MarkReadsGates ==
    ASSUME Types, Gates(stack, db, phone, tasks), NEW t \in tasks, MarkReads(t)
    PROVE  Gates(stack', db', phone', tasks')
<1>1. PICK u \in Tasks : /\ u.op = "mark" /\ u.was = (IF db.lock THEN "locked" ELSE "open")
                         /\ tasks' = (tasks \ {t}) \cup {u} /\ Types'
                         /\ UNCHANGED <<scene, left, db, log, phone, stack>>
  BY MarkReadsIs
<1>2. OneChat(stack) /\ Covers(stack, db) /\ ChatGates(stack, db, phone) /\ (phone.locked => ~phone.released)
      /\ HandlersOK(stack, db, phone, tasks)
  BY DEF Gates
<1>3. HandlersOK(stack, db, phone, tasks')
  <2> SUFFICES ASSUME NEW v \in tasks'
               PROVE  /\ v.op = "unlock" => ~phone.locked /\ Unlocking(v, stack)
                      /\ v.op = "mark" /\ v.at # 0 /\ v.was = "open" => ~db.lock
    BY DEF HandlersOK
  <2>1. CASE v \in tasks
    BY <1>2, <2>1 DEF HandlersOK
  <2>2. CASE v = u
    BY <1>1, <2>2
  <2> QED BY <1>1, <2>1, <2>2
<1> QED BY <1>1, <1>2, <1>3 DEF Gates

LEMMA AnswerWritesGates ==
    ASSUME Types, Gates(stack, db, phone, tasks), NEW t \in tasks, AnswerWrites(t)
    PROVE  Gates(stack', db', phone', tasks')
<1>a. PICK s : s = IF t.at = 0 THEN stack ELSE Set(stack, t.at, Answered(stack[t.at]))
  OBVIOUS
<1>1. /\ s \in Stacks /\ SameViews(stack, s) /\ phone' = phone /\ Types' /\ t.at \in 0..Top
      /\ (t.at # 0 => t.at \in DOMAIN stack /\ Len(stack[t.at].loads) < MaxLoads)
      /\ \/ stack' = s /\ tasks' = tasks \ {t} /\ db' = db
         \/ /\ HaveHeard(s, stack') /\ tasks' = (tasks \ {t}) \cup Marks(s, phone.fg)
            /\ db' = [db EXCEPT !.pend[t.k] = "none"]
  BY <1>a, AnswerWritesIs
<1>2. stack \in Stacks /\ db \in Bases /\ phone \in Phones /\ \A i \in DOMAIN stack : stack[i] \in Mounted
  BY TopIs
<1>3. \A i \in DOMAIN stack : /\ s[i].kind = stack[i].kind /\ s[i].scanned = stack[i].scanned
                              /\ s[i].open = stack[i].open /\ s[i].seen = stack[i].seen
  <2>1. \A i \in DOMAIN stack : s[i].kind = stack[i].kind /\ s[i].scanned = stack[i].scanned /\ s[i].seen = stack[i].seen
    BY <1>1 DEF SameViews, SameView
  <2>2. CASE t.at = 0
    BY <1>a, <2>1, <2>2
  <2>3. CASE t.at # 0
    <3>a. PICK q : q = Answered(stack[t.at])
      OBVIOUS
    <3>1. t.at \in DOMAIN stack /\ q \in Mounted /\ q.open = stack[t.at].open
      BY <1>1, <1>2, <2>3, <3>a, AnsweredIs
    <3>2. s = Set(stack, t.at, q)
      BY <1>a, <2>3, <3>a
    <3>3. s[t.at] = q /\ \A i \in DOMAIN stack : i # t.at => s[i] = stack[i]
      BY <1>2, <3>1, <3>2, SetAt
    <3> QED BY <2>1, <3>1, <3>3
  <2> QED BY <2>2, <2>3
<1>4. Len(s) = Len(stack) /\ DOMAIN s = DOMAIN stack
  BY <1>1, <1>2, StackIs DEF SameViews
<1>5. CASE stack' = s /\ tasks' = tasks \ {t} /\ db' = db
  <2>1. MildTasks(tasks, tasks')
    BY <1>5 DEF MildTasks
  <2> QED BY <1>1, <1>3, <1>4, <1>5, <2>1, GatesSame
<1>6. CASE /\ HaveHeard(s, stack') /\ tasks' = (tasks \ {t}) \cup Marks(s, phone.fg)
           /\ db' = [db EXCEPT !.pend[t.k] = "none"]
  <2>1. \A u \in Marks(s, phone.fg) : u.op = "mark" /\ u.was = "?"
    BY <1>1, <1>2, MarksIs DEF Phones
  <2>2. MildTasks(tasks, tasks')
    BY <1>6, <2>1 DEF MildTasks
  <2>3. stack' \in Stacks /\ Len(stack') = Len(stack)
        /\ \A i \in DOMAIN stack : Alike(s[i], stack'[i])
    BY <1>4, <1>6 DEF HaveHeard
  <2>4. \A i \in DOMAIN stack : /\ stack'[i].kind = stack[i].kind /\ stack'[i].scanned = stack[i].scanned
                                /\ stack'[i].open = stack[i].open /\ stack'[i].seen = stack[i].seen
    BY <1>3, <2>3 DEF Alike
  <2>5. db'.lock = db.lock /\ db'.there = db.there
    BY <1>2, <1>6 DEF Bases
  <2> QED BY <1>1, <2>2, <2>3, <2>4, <2>5, GatesSame
<1> QED BY <1>1, <1>5, <1>6

\* A write that is told, and neither about the lock nor about the contact.
LEMMA AsksGates ==
    ASSUME Types, Gates(stack, db, phone, tasks), NEW k \in Asks, AsksFor(k) \/ PeerAsks(k)
    PROVE  Gates(stack', db', phone', tasks')
<1>1. Told /\ phone' = phone /\ db'.lock = db.lock /\ db'.there = db.there
  BY AsksIs
<1>2. /\ Types' /\ stack' \in Stacks /\ Len(stack') = Len(stack) /\ MildTasks(tasks, tasks')
      /\ \A i \in DOMAIN stack : Steady(stack[i], stack'[i])
  BY <1>1 DEF Told, Types, SteadyStack, MildTasks
<1>3. \A i \in DOMAIN stack : /\ stack'[i].kind = stack[i].kind /\ stack'[i].scanned = stack[i].scanned
                              /\ (stack[i].kind = "chat" => stack'[i].open = stack[i].open /\ stack'[i].seen = stack[i].seen)
  BY <1>2 DEF Steady, SameView
<1> QED BY <1>1, <1>2, <1>3, GatesSame

LEMMA ToggleGates ==
    ASSUME Types, Gates(stack, db, phone, tasks), NEW f \in {"muted", "blocked"}, Toggle(f)
    PROVE  Gates(stack', db', phone', tasks')
<1>a. PICK q : q = Queue(Screen, PutOf(f))
  OBVIOUS
<1>1. /\ Screen.kind = "contact" /\ Changes(Top, q) /\ Alike(Screen, q) /\ db'.lock = db.lock /\ db'.there = db.there
      /\ UNCHANGED <<scene, left, log, phone, tasks>> /\ Types'
  BY <1>a, ToggleIs
<1>2. q.scanned = stack[Top].scanned /\ q.open = stack[Top].open /\ q.seen = stack[Top].seen /\ MildTasks(tasks, tasks')
  BY <1>1, TopIs DEF Alike, MildTasks
<1> QED BY <1>1, <1>2, ChangesGates

\* The code is asked for on the visible screen.
LEMMA StartUnlockGates ==
    ASSUME Types, Gates(stack, db, phone, tasks), StartUnlock
    PROVE  Gates(stack', db', phone', tasks')
<1>a. PICK q : q = [Screen EXCEPT !.busy = @ \cup {"gate"}]
  OBVIOUS
<1>b. PICK u : u = [op |-> "unlock", at |-> Top]
  OBVIOUS
<1>1. /\ Changes(Top, q) /\ Steady(Screen, q) /\ tasks' = tasks \cup {u} /\ u.at = Top /\ u.op = "unlock"
      /\ Ready /\ (Screen.kind = "chat" => Gated(Screen)) /\ db' = db /\ phone' = phone /\ Types'
  BY <1>a, <1>b, StartUnlockIs
<1>2. stack \in Stacks /\ stack' \in Stacks /\ DOMAIN stack' = DOMAIN stack /\ stack'[Top] = q /\ Top \in DOMAIN stack
      /\ \A j \in DOMAIN stack : j # Top => stack'[j] = stack[j]
  BY <1>1, Changed, TopIs
<1>3. Len(stack') = Len(stack) /\ Screen = stack[Top] /\ Len(stack) = Top
  BY <1>1, Changed, TopIs DEF Shape
<1>4. \A i \in DOMAIN stack : /\ stack'[i].kind = stack[i].kind /\ stack'[i].scanned = stack[i].scanned
                              /\ (stack[i].kind = "chat" => stack'[i].open = stack[i].open /\ stack'[i].seen = stack[i].seen)
  BY <1>1, <1>2, <1>3 DEF Steady, SameView
<1>5. Gates(stack', db', phone', tasks)
  <2>1. Placed(tasks, stack')
    BY <1>1, Changed DEF Types
  <2> QED BY <1>1, <1>2, <1>3, <1>4, <2>1, GatesKept
<1>6. ~phone.locked /\ Unlocking(u, stack')
  <2>1. u.at # 0 /\ \A i \in DOMAIN stack' : ~(i > u.at)
    BY <1>1, <1>2, <1>3, TopIs, StackIs
  <2>2. stack'[u.at].kind = "chat" => u.at = Len(stack') /\ Gated(stack'[u.at])
    BY <1>1, <1>2, <1>3, <1>4 DEF Gated
  <2> QED BY <1>1, <2>1, <2>2 DEF Ready, Unlocking
<1>7. HandlersOK(stack', db', phone', tasks')
  BY <1>1, <1>5, <1>6 DEF Gates, HandlersOK
<1> QED BY <1>1, <1>5, <1>7 DEF Gates

\* A chat that read its rows shows its gate when, and only when, its lock is not open here.
LEMMA RowGate ==
    ASSUME NEW e \in Mounted, e.loads # <<>>, e.kind = "chat", db \in Bases, NEW top, ChatGate(e, top, db, phone)
    PROVE  ChatGate(AfterRow(e), top, db, phone) /\ (Gated(e) => Gated(AfterRow(e)))
<1>a. PICK q : q = AfterRow(e)
  OBVIOUS
<1>1. q.open = e.open /\ q.seen = Facts(db)
  BY <1>a, AfterRowIs
<1>2. q.seen.there = db.there /\ q.seen.lock = db.lock
  BY <1>1, FactsIs
<1> QED BY <1>a, <1>1, <1>2 DEF ChatGate, Gated

LEMMA LoadGates ==
    ASSUME Types, Gates(stack, db, phone, tasks), Following(stack, db, phone), NEW i \in DOMAIN stack, Load(i)
    PROVE  Gates(stack', db', phone', tasks')
<1>a. PICK e : e = stack[i]
  OBVIOUS
<1>1. /\ e \in Mounted /\ e.loads # <<>> /\ db \in Bases /\ stack \in Stacks
      /\ UNCHANGED <<scene, left, db, log, phone>>
      /\ \/ Head(e.loads).what = "row" /\ Changes(i, AfterRow(e)) /\ tasks' = tasks
         \/ Head(e.loads).what = "thread" /\ Changes(i, AfterThread(e))
            /\ tasks' = IF Head(e.loads).then = "mark" THEN tasks \cup {Marking(i)} ELSE tasks
         \/ Head(e.loads).what = "put" /\ Changes(i, AfterPut(e)) /\ tasks' = tasks
  BY <1>a, LoadIs, TopIs
<1>2. Types'
  BY LoadTypes
<1>3. MildTasks(tasks, tasks')
  BY <1>1 DEF MildTasks, Marking
<1>4. CASE Head(e.loads).what = "row" /\ Changes(i, AfterRow(e)) /\ tasks' = tasks
  <2>a. PICK q : q = AfterRow(e)
    OBVIOUS
  <2>1. q.scanned = e.scanned /\ q.kind = e.kind /\ q \in Mounted
    BY <1>1, <2>a, AfterRowIs
  <2>2. CASE e.kind # "chat"
    BY <1>a, <1>1, <1>2, <1>3, <1>4, <2>a, <2>1, <2>2, ChangesGates
  <2>3. CASE e.kind = "chat"
    <3>1. /\ stack' \in Stacks /\ Len(stack') = Len(stack) /\ stack'[i] = q
          /\ \A j \in DOMAIN stack : j # i => stack'[j] = stack[j]
      BY <1>4, <2>a, Changed DEF Shape
    <3>2. ChatGates(stack, db, phone) /\ HandlersOK(stack, db, phone, tasks) /\ (phone.locked => ~phone.released)
      BY DEF Gates
    <3>3. ChatGate(q, i = Len(stack), db, phone) /\ (Gated(e) => Gated(q))
      BY <1>a, <1>1, <2>a, <2>3, <3>2, RowGate DEF ChatGates
    <3>4. \A j \in DOMAIN stack : stack'[j].kind = stack[j].kind /\ stack'[j].scanned = stack[j].scanned
      BY <1>a, <2>1, <3>1
    <3>5. \A j \in DOMAIN stack : stack[j].kind = "chat" => ChatGate(stack'[j], j = Len(stack), db', phone')
      BY <1>1, <3>1, <3>2, <3>3 DEF ChatGates
    <3>6. ASSUME NEW t \in tasks', t.op = "unlock", t.at \in DOMAIN stack, stack[t.at].kind = "chat" PROVE Gated(stack'[t.at])
      <4>1. Gated(stack[t.at])
        BY <1>4, <3>2, <3>6 DEF HandlersOK, Unlocking
      <4> QED BY <1>a, <3>1, <3>3, <3>6, <4>1
    <3>7. Placed(tasks', stack')
      BY <1>2 DEF Types
    <3> QED BY <1>1, <1>3, <3>1, <3>2, <3>4, <3>5, <3>6, <3>7, GatesFrom
  <2> QED BY <2>2, <2>3
<1>5. CASE Head(e.loads).what = "thread" /\ Changes(i, AfterThread(e))
  <2>a. PICK q : q = AfterThread(e)
    OBVIOUS
  <2>1. q.scanned = e.scanned /\ q.open = e.open /\ q.seen = e.seen
    BY <1>1, <2>a, AfterThreadIs
  <2> QED BY <1>a, <1>1, <1>2, <1>3, <1>5, <2>a, <2>1, ChangesGates
<1>6. CASE Head(e.loads).what = "put" /\ Changes(i, AfterPut(e)) /\ tasks' = tasks
  <2>a. PICK q : q = AfterPut(e)
    OBVIOUS
  <2>1. q.scanned = e.scanned
    BY <1>1, <2>a, AfterPutIs
  <2>2. e.kind = "contact"
    <3>1. PutsFirst(e)
      BY <1>a DEF Following
    <3>2. 1 \in DOMAIN e.loads /\ Head(e.loads) = e.loads[1]
      BY <1>1, MountedIs, QueueHead
    <3> QED BY <1>6, <3>1, <3>2 DEF PutsFirst
  <2> QED BY <1>a, <1>1, <1>2, <1>3, <1>6, <2>a, <2>1, <2>2, ChangesGates
<1> QED BY <1>1, <1>4, <1>5, <1>6

\* Only one code is asked for at a time.
LEMMA OneUnlock ==
    ASSUME Types, Gates(stack, db, phone, tasks), NEW t \in tasks, NEW u \in tasks, t.op = "unlock", u.op = "unlock"
    PROVE  t = u
<1>1. /\ t \in [op : {"unlock"}, at : Nat] /\ u \in [op : {"unlock"}, at : Nat]
      /\ t.at \in 0..Len(stack) /\ u.at \in 0..Len(stack) /\ Len(stack) \in Nat /\ DOMAIN stack = 1..Len(stack)
      /\ (t.at # 0 => stack[t.at].kind \in {"chat", "contact"}) /\ (u.at # 0 => stack[u.at].kind \in {"chat", "contact"})
  BY TaskIs, TopIs, StackIs DEF Types, Placed, From
<1>2. Unlocking(t, stack) /\ Unlocking(u, stack)
  BY DEF Gates, HandlersOK
<1>3. t.at \in DOMAIN stack /\ u.at \in DOMAIN stack
  BY <1>1, <1>2, Somewhere DEF Unlocking
<1>4. ~(t.at > u.at) /\ ~(u.at > t.at)
  BY <1>1, <1>2, <1>3 DEF Unlocking
<1>5. t.at = u.at
  BY <1>1, <1>4
<1> QED BY <1>1, <1>5

LEMMA Later == ASSUME NEW n \in Nat, NEW i \in 1..n, NEW j \in 1..n, i # j PROVE i > j \/ j > i
OBVIOUS

\* The right code opens the chat and releases its key; nobody else asks for the code.
LEMMA UnlockEndsGates ==
    ASSUME Types, Gates(stack, db, phone, tasks), NEW t \in tasks, NEW right \in BOOLEAN, UnlockEnds(t, right)
    PROVE  Gates(stack', db', phone', tasks')
<1>1. /\ t.op = "unlock" /\ (right => db.lock) /\ tasks' = tasks \ {t}
      /\ phone' = [phone EXCEPT !.released = phone.released \/ right]
      /\ t.at \in 0..Top /\ Top \in Nat /\ db' = db /\ Types'
      /\ \/ t.at = 0 /\ stack' = stack
         \/ \E q : Changes(t.at, q) /\ AfterUnlock(stack[t.at], q, right)
  BY UnlockEndsIs
<1>2. /\ OneChat(stack) /\ ChatGates(stack, db, phone) /\ HandlersOK(stack, db, phone, tasks)
      /\ (phone.locked => ~phone.released)
  BY DEF Gates
<1>3. ~phone.locked /\ Unlocking(t, stack)
  BY <1>1, <1>2 DEF HandlersOK
<1>4. PICK q : Changes(t.at, q) /\ AfterUnlock(stack[t.at], q, right)
  BY <1>1, <1>3 DEF Unlocking
<1>a. PICK n : n = t.at
  OBVIOUS
<1>b. PICK e : e = stack[n]
  OBVIOUS
<1>5. /\ stack \in Stacks /\ n \in DOMAIN stack /\ DOMAIN stack = 1..Len(stack) /\ Len(stack) \in Nat /\ e \in Mounted
      /\ phone \in Phones /\ stack' \in Stacks
  BY <1>1, <1>4, <1>a, <1>b, TopIs, StackIs DEF Changes, Types
<1>6. /\ Len(stack') = Len(stack) /\ stack'[n] = q /\ q.kind = e.kind
      /\ \A j \in DOMAIN stack : j # n => stack'[j] = stack[j]
  BY <1>4, <1>a, <1>b, Changed DEF Shape, Changes
<1>7. q.seen = e.seen /\ q.scanned = e.scanned /\ q.open = (right \/ e.open) /\ e.open \in BOOLEAN
  BY <1>4, <1>5, <1>a, <1>b, MountedIs DEF AfterUnlock, SameView, Entries
<1>8. phone'.locked = phone.locked /\ phone'.released = (phone.released \/ right) /\ phone.released \in BOOLEAN
  BY <1>1, <1>5 DEF Phones
<1>9. MildTasks(tasks, tasks') /\ \A u \in tasks' : u.op # "unlock"
  BY <1>1, OneUnlock DEF MildTasks
<1>10. \A j \in DOMAIN stack : stack'[j].kind = stack[j].kind /\ stack'[j].scanned = stack[j].scanned
  BY <1>6, <1>7, <1>b
<1>11. ASSUME NEW j \in DOMAIN stack, stack[j].kind = "chat"
       PROVE  ChatGate(stack'[j], j = Len(stack), db', phone')
  <2>1. ChatGate(stack[j], j = Len(stack), db, phone)
    BY <1>2, <1>11 DEF ChatGates
  <2>2. CASE ~right
    <3>1. stack'[j].open = stack[j].open /\ stack'[j].seen = stack[j].seen
      BY <1>6, <1>7, <1>b, <1>11, <2>2
    <3>2. phone'.released = phone.released
      BY <1>8, <2>2
    <3> QED BY <1>1, <1>8, <2>1, <3>1, <3>2 DEF ChatGate, Gated
  <2>3. CASE right
    <3>1. phone'.released = TRUE /\ db.lock
      BY <1>1, <1>8, <2>3
    <3>2. stack'[j].open = TRUE
      <4>1. CASE j = n
        BY <1>6, <1>7, <2>3, <4>1
      <4>2. CASE j # n
        <5>1. ~(j > n)
          BY <1>3, <1>11, <1>a DEF Unlocking
        <5>2. j # Len(stack)
          BY <1>5, <4>2, <5>1, Later
        <5>3. stack[j].open \/ ~db.lock
          BY <2>1, <5>2 DEF ChatGate
        <5>4. stack[j].open \in BOOLEAN
          BY <1>5, StackIs, MountedIs DEF Entries
        <5> QED BY <1>6, <3>1, <4>2, <5>3, <5>4
      <4> QED BY <4>1, <4>2
    <3>3. stack'[j].seen = stack[j].seen
      BY <1>6, <1>7, <1>b, <1>11
    <3> QED BY <1>1, <2>1, <3>1, <3>2, <3>3 DEF ChatGate, Gated
  <2> QED BY <2>2, <2>3
<1>12. Placed(tasks', stack')
  BY <1>1 DEF Types
<1>13. db'.lock => db.lock
  BY <1>1
<1> QED BY <1>3, <1>5, <1>6, <1>8, <1>9, <1>10, <1>11, <1>12, <1>13, GatesFrom

-----------------------------------------------------------------------------
(* The lock goes, with or without the chat.                                *)

LEMMA ToldGates ==
    ASSUME Types, Gates(stack, db, phone, tasks), Told, ~db'.lock, Screen.kind # "chat",
           phone'.locked = phone.locked, ~phone'.released
    PROVE  Gates(stack', db', phone', tasks')
<1>1. /\ stack \in Stacks /\ stack' \in Stacks /\ Len(stack') = Len(stack) /\ Screen = stack[Len(stack)]
      /\ DOMAIN stack = 1..Len(stack) /\ Len(stack) \in DOMAIN stack
      /\ \A i \in DOMAIN stack : Steady(stack[i], stack'[i])
      /\ MildTasks(tasks, tasks') /\ Placed(tasks', stack')
  BY TopIs, StackIs DEF Told, Types, SteadyStack, MildTasks
<1>2. \A i \in DOMAIN stack : /\ stack'[i].kind = stack[i].kind /\ stack'[i].scanned = stack[i].scanned
                              /\ (stack[i].kind = "chat" => stack'[i].open = stack[i].open /\ stack'[i].seen = stack[i].seen)
  BY <1>1 DEF Steady, SameView
<1>3. ChatGates(stack, db, phone) /\ HandlersOK(stack, db, phone, tasks)
  BY DEF Gates
<1>4. ASSUME NEW i \in DOMAIN stack, stack[i].kind = "chat"
      PROVE  ChatGate(stack'[i], i = Len(stack), db', phone')
  <2>1. i # Len(stack)
    BY <1>1, <1>4
  <2>2. ChatGate(stack[i], FALSE, db, phone)
    <3>1. (i = Len(stack)) = FALSE
      BY <2>1
    <3> QED BY <1>3, <1>4, <3>1 DEF ChatGates
  <2>3. ~Gated(stack[i])
    BY <2>2 DEF ChatGate, Gated
  <2> QED BY <1>2, <1>4, <2>1, <2>3 DEF ChatGate, Gated
<1>5. ASSUME NEW t \in tasks', t.op = "unlock", t.at \in DOMAIN stack, stack[t.at].kind = "chat" PROVE FALSE
  <2>1. t \in tasks
    BY <1>1, <1>5 DEF MildTasks
  <2>2. t.at = Len(stack)
    BY <1>3, <1>5, <2>1 DEF HandlersOK, Unlocking
  <2> QED BY <1>1, <1>5, <2>2
<1> QED BY <1>1, <1>2, <1>4, <1>5, GatesFrom

LEMMA WithoutLock ==
    ASSUME Types, Gates(stack, db, phone, tasks), Removes \/ ForgotCode \/ DeleteChat \/ DeleteContactFromTabs
    PROVE  Gates(stack', db', phone', tasks')
<1>1. /\ Told /\ phone'.locked = phone.locked /\ phone'.released = FALSE
      /\ db'.lock = FALSE
  <2>1. CASE Removes
    BY <2>1, RemovesIs, LocksIs, TopIs DEF Rewritten
  <2>2. CASE ForgotCode
    BY <2>2, ForgotCodeIs, LocksIs, TopIs DEF Rewritten
  <2>3. CASE DeleteChat
    BY <2>3, DeleteChatIs
  <2>4. CASE DeleteContactFromTabs
    BY <2>4, DeleteContactFromTabsIs, RemovedIs, TopIs
  <2> QED BY <2>1, <2>2, <2>3, <2>4
<1>2. Screen.kind # "chat"
  <2>1. CASE Removes \/ ForgotCode
    BY <2>1, RemovesIs, ForgotCodeIs
  <2>2. CASE DeleteChat
    BY <2>2 DEF DeleteChat, RowMenu, On
  <2>3. CASE DeleteContactFromTabs
    BY <2>3, DeleteContactFromTabsIs
  <2> QED BY <2>1, <2>2, <2>3
<1> QED BY <1>1, <1>2, ToldGates

\* The code is asked for on the visible screen, or on a contact page under a verification.
LEMMA AsksAt ==
    ASSUME Types, Gates(stack, db, phone, tasks), NEW t \in tasks, t.op = "unlock"
    PROVE  /\ t.at \in DOMAIN stack /\ ~phone.locked /\ stack[t.at].kind \in {"chat", "contact"}
           /\ t.at = Top \/ (stack[t.at].kind = "contact" /\ Screen.kind = "verify" /\ ~Screen.scanned /\ Top > t.at)
           /\ stack[t.at].kind = "chat" => t.at = Top /\ Gated(Screen)
<1>1. /\ t.at \in 0..Len(stack) /\ (t.at # 0 => stack[t.at].kind \in {"chat", "contact"})
      /\ Len(stack) = Top /\ Top \in Nat /\ DOMAIN stack = 1..Top /\ Top \in DOMAIN stack /\ Screen = stack[Top]
  BY TopIs DEF Types, Placed, From
<1>2. ~phone.locked /\ Unlocking(t, stack)
  BY DEF Gates, HandlersOK
<1>3. t.at \in DOMAIN stack
  BY <1>1, <1>2, Somewhere DEF Unlocking
<1>4. t.at = Top \/ Top > t.at
  BY <1>1, <1>3
<1> QED BY <1>1, <1>2, <1>3, <1>4 DEF Unlocking

LEMMA NobodyAsks ==
    ASSUME Types, Gates(stack, db, phone, tasks),
           Screen.kind \in Over \/ (Screen.kind = "chat" /\ ~Gated(Screen))
    PROVE  \A t \in tasks : t.op # "unlock"
<1> SUFFICES ASSUME NEW t \in tasks, t.op = "unlock" PROVE FALSE
  OBVIOUS
<1>1. Screen = stack[Top]
  BY TopIs
<1> QED BY <1>1, AsksAt DEF Over

\* A lock is enabled when no chat is mounted.
LEMMA EnableLockGates ==
    ASSUME Types, Gates(stack, db, phone, tasks), "enable" \notin Windows, EnableLock
    PROVE  Gates(stack', db', phone', tasks')
<1>1. Told /\ phone'.locked = phone.locked /\ ~phone.locked /\ ~Has(stack, "chat")
  BY EnableLockIs DEF Rewritten, Ready
<1>2. /\ stack \in Stacks /\ stack' \in Stacks /\ Len(stack') = Len(stack) /\ DOMAIN stack' = DOMAIN stack
      /\ DOMAIN stack = 1..Len(stack) /\ Len(stack) \in Nat
      /\ \A i \in DOMAIN stack : Steady(stack[i], stack'[i])
      /\ MildTasks(tasks, tasks') /\ Placed(tasks', stack')
  BY <1>1, TopIs, StackIs DEF Told, Types, SteadyStack, MildTasks
<1>3. \A i \in DOMAIN stack : /\ stack'[i].kind = stack[i].kind /\ stack'[i].scanned = stack[i].scanned
                              /\ stack'[i].kind # "chat"
  BY <1>1, <1>2 DEF Steady, SameView, Has
<1>4. OneChat(stack') /\ Covers(stack', db') /\ ChatGates(stack', db', phone')
  BY <1>2, <1>3 DEF OneChat, Covers, ChatGates
<1>5. ASSUME NEW t \in tasks' PROVE /\ t.op = "unlock" => ~phone'.locked /\ Unlocking(t, stack')
                                    /\ t.op = "mark" /\ t.at # 0 /\ t.was = "open" => ~db'.lock
  <2>1. t.at \in 0..Len(stack') /\ (t.at # 0 => stack'[t.at].kind \in From(t.op))
    BY <1>2 DEF Placed
  <2>2. ASSUME t.op = "unlock" PROVE Unlocking(t, stack')
    <3>1. t \in tasks
      BY <1>2, <2>2 DEF MildTasks
    <3>2. Unlocking(t, stack)
      BY <2>2, <3>1 DEF Gates, HandlersOK
    <3>3. t.at \in DOMAIN stack
      BY <1>2, <2>1, <3>2, Somewhere DEF Unlocking
    <3> QED BY <1>2, <1>3, <3>2, <3>3 DEF Unlocking
  <2>3. ASSUME t.op = "mark" PROVE t.at = 0
    <3>1. t.at # 0 => t.at \in DOMAIN stack /\ stack'[t.at].kind = "chat"
      BY <1>2, <2>1, <2>3, Somewhere DEF From
    <3> QED BY <1>3, <3>1
  <2> QED BY <1>1, <2>2, <2>3
<1> QED BY <1>1, <1>4, <1>5 DEF Gates, HandlersOK

-----------------------------------------------------------------------------
(* A screen on top.                                                        *)

LEMMA ChatOpened ==
    ASSUME Types, Gates(stack, db, phone, tasks), "twice" \notin Windows, "late" \notin Windows, OpensChat
    PROVE  Gates(stack', db', phone', tasks')
<1>a. PICK e : e = Hears(Entry("chat", FALSE))
  OBVIOUS
<1>b. PICK n : n = Top + 1
  OBVIOUS
<1>1. /\ ~Has(stack, "chat") /\ stack' \in Stacks /\ Len(stack') = n /\ stack'[n] = e
      /\ \A i \in DOMAIN stack : stack'[i] = stack[i]
      /\ Alike(Entry("chat", FALSE), e) /\ Types' /\ Ready /\ db' = db /\ phone' = phone
      /\ \A t \in tasks' : t \in tasks \/ (t.op = "mark" /\ t.was = "?")
  BY <1>a, <1>b, OpensChatIs DEF Opened
<1>2. \A t \in tasks : t.op # "unlock"
  BY OpensChatIs, NobodyAsks DEF Over
<1>3. e.kind = "chat" /\ e.seen = Blank /\ e.open = phone.released /\ phone \in Phones
  <2>1. phone \in Phones /\ "chat" \in Kinds
    BY TopIs DEF Kinds
  <2>2. e.kind = "chat" /\ e.seen = Blank /\ e.open = (("chat" = "chat") /\ phone.released)
    BY <1>1, <2>1, EntryIs DEF Alike
  <2> QED BY <2>1, <2>2 DEF Phones
<1>4. Top \in Nat /\ DOMAIN stack = 1..Top /\ DOMAIN stack' = 1..n
  BY <1>1, TopIs, StackIs
<1>5. \A i \in DOMAIN stack' : stack'[i].kind = "chat" => i = n
  <2> SUFFICES ASSUME NEW i \in DOMAIN stack', stack'[i].kind = "chat", i # n PROVE FALSE
    OBVIOUS
  <2>1. i \in DOMAIN stack
    BY <1>4, <1>b
  <2> QED BY <1>1, <2>1 DEF Has
<1>6. OneChat(stack') /\ Covers(stack', db')
  <2>1. ASSUME NEW j \in DOMAIN stack' PROVE ~(j > n)
    BY <1>4, <1>b
  <2> QED BY <1>5, <2>1 DEF OneChat, Covers
<1>7. ChatGate(e, TRUE, db, phone)
  BY <1>3 DEF ChatGate, Gated, Blank
<1>8. ChatGates(stack', db', phone')
  <2> SUFFICES ASSUME NEW i \in DOMAIN stack', stack'[i].kind = "chat" PROVE ChatGate(stack'[i], i = Len(stack'), db', phone')
    BY DEF ChatGates
  <2>1. i = n /\ stack'[i] = e /\ (i = Len(stack')) = TRUE
    BY <1>1, <1>5
  <2> QED BY <1>1, <1>7, <2>1
<1>9. HandlersOK(stack', db', phone', tasks')
  BY <1>1, <1>2 DEF Gates, HandlersOK
<1> QED BY <1>1, <1>6, <1>8, <1>9 DEF Gates

LEMMA OtherOpened ==
    ASSUME Types, Gates(stack, db, phone, tasks), NEW kind \in {"contact", "verify", "scan"}, Opened(kind),
           kind = "scan" => Screen.kind = "tabs",
           kind = "contact" => Screen.kind \in {"tabs", "chat"},
           Screen.kind = "chat" => Screen.seen.there /\ ~Gated(Screen)
    PROVE  Gates(stack', db', phone', tasks')
<1>a. PICK e : e = Hears(Entry(kind, FALSE))
  OBVIOUS
<1>b. PICK n : n = Top + 1
  OBVIOUS
<1>1. /\ stack' \in Stacks /\ Len(stack') = n /\ stack'[n] = e
      /\ \A i \in DOMAIN stack : stack'[i] = stack[i]
      /\ Alike(Entry(kind, FALSE), e) /\ Types' /\ Ready /\ db' = db /\ phone' = phone
      /\ \A t \in tasks' : t \in tasks \/ (t.op = "mark" /\ t.was = "?")
      /\ Screen.kind \in {"tabs", "chat", "contact"}
  BY <1>a, <1>b DEF Opened
<1>2. e.kind = kind /\ e.scanned = FALSE
  <2>1. phone \in Phones /\ kind \in Kinds /\ FALSE \in BOOLEAN
    BY TopIs DEF Kinds
  <2>2. Entry(kind, FALSE).kind = kind /\ Entry(kind, FALSE).scanned = FALSE
    BY <2>1, EntryIs
  <2> QED BY <1>1, <2>2 DEF Alike
<1>3. Top \in Nat /\ DOMAIN stack = 1..Top /\ DOMAIN stack' = 1..n /\ Top \in DOMAIN stack /\ Screen = stack[Top] /\ Len(stack) = Top
  BY <1>1, TopIs, StackIs
<1>4. ASSUME NEW i \in DOMAIN stack' PROVE i \in DOMAIN stack \/ (i = n /\ stack'[i].kind = kind /\ ~stack'[i].scanned)
  BY <1>1, <1>2, <1>3, <1>b
<1>5. OneChat(stack) /\ Covers(stack, db) /\ ChatGates(stack, db, phone) /\ HandlersOK(stack, db, phone, tasks)
      /\ (phone.locked => ~phone.released)
  BY DEF Gates
<1>6. OneChat(stack')
  BY <1>1, <1>4, <1>5 DEF OneChat
<1>7. Covers(stack', db')
  <2> SUFFICES ASSUME NEW i \in DOMAIN stack', NEW j \in DOMAIN stack', stack'[i].kind = "chat", j > i,
                      stack'[j].kind \in Over
               PROVE  ~db.lock
    BY <1>1 DEF Covers
  <2>1. i \in DOMAIN stack /\ stack[i].kind = "chat"
    BY <1>1, <1>4
  <2>2. CASE j \in DOMAIN stack
    BY <1>1, <1>5, <2>1, <2>2 DEF Covers
  <2>3. CASE j = n
    <3>1. kind = "scan" /\ stack[Top].kind = "tabs"
      BY <1>1, <1>2, <1>3, <2>3 DEF Over
    <3>2. Top > i
      BY <1>3, <2>1, <3>1
    <3> QED BY <1>3, <1>5, <2>1, <3>1, <3>2 DEF Covers, Over
  <2> QED BY <1>4, <2>2, <2>3
<1>8. ChatGates(stack', db', phone')
  <2> SUFFICES ASSUME NEW i \in DOMAIN stack', stack'[i].kind = "chat" PROVE ChatGate(stack'[i], i = Len(stack'), db', phone')
    BY DEF ChatGates
  <2>1. i \in DOMAIN stack /\ stack[i].kind = "chat" /\ stack'[i] = stack[i]
    BY <1>1, <1>4
  <2>2. (i = Len(stack')) = FALSE
    BY <1>1, <1>3, <1>b, <2>1
  <2>3. ChatGate(stack[i], i = Len(stack), db, phone)
    BY <1>5, <2>1 DEF ChatGates
  <2>4. stack[i].open \/ ~db.lock
    <3>1. CASE i = Len(stack)
      <4>1. stack[i] = Screen /\ Screen.kind = "chat"
        BY <1>3, <2>1, <3>1
      <4> QED BY <2>3, <4>1 DEF ChatGate, Gated
    <3>2. CASE i # Len(stack)
      BY <2>3, <3>2 DEF ChatGate
    <3> QED BY <3>1, <3>2
  <2>5. ChatGate(stack[i], FALSE, db, phone)
    BY <2>3, <2>4 DEF ChatGate
  <2> QED BY <1>1, <2>1, <2>2, <2>5
<1>9. HandlersOK(stack', db', phone', tasks')
  <2> SUFFICES ASSUME NEW t \in tasks'
               PROVE  /\ t.op = "unlock" => ~phone.locked /\ Unlocking(t, stack')
                      /\ t.op = "mark" /\ t.at # 0 /\ t.was = "open" => ~db.lock
    BY <1>1 DEF HandlersOK
  <2>1. t.op = "mark" /\ t.at # 0 /\ t.was = "open" => ~db.lock
    BY <1>1, <1>5 DEF HandlersOK
  <2>2. ASSUME t.op = "unlock" PROVE ~phone.locked /\ Unlocking(t, stack')
    <3>1. t \in tasks
      BY <1>1, <2>2
    <3>2. ~(Screen.kind \in Over \/ (Screen.kind = "chat" /\ ~Gated(Screen)))
      BY <2>2, <3>1, NobodyAsks
    <3>3. Screen.kind = "contact" /\ kind = "verify"
      BY <1>1, <3>2 DEF Over
    <3>4. t.at = Top /\ ~phone.locked
      BY <2>2, <3>1, <3>3, AsksAt
    <3>5. \A i \in DOMAIN stack' : i > t.at => stack'[i].kind = "verify" /\ ~stack'[i].scanned
      BY <1>3, <1>4, <3>3, <3>4
    <3>6. t.at # 0 /\ stack'[t.at].kind = "contact"
      BY <1>1, <1>3, <3>3, <3>4
    <3> QED BY <3>4, <3>5, <3>6 DEF Unlocking
  <2> QED BY <2>1, <2>2
<1> QED BY <1>1, <1>5, <1>6, <1>7, <1>8, <1>9 DEF Gates

LEMMA OpensOtherGates ==
    ASSUME Types, Gates(stack, db, phone, tasks), OpensOther
    PROVE  Gates(stack', db', phone', tasks')
BY OpensOtherIs, OtherOpened

\* The visible screen goes, or gives way.
LEMMA GatesQuiet ==
    ASSUME NEW s \in Stacks, NEW q \in Stacks, NEW d, NEW c, NEW ph, NEW pj, NEW ts, NEW us,
           Gates(s, d, ph, ts), DOMAIN q \subseteq DOMAIN s,
           \A i \in DOMAIN q : q[i].kind = "chat" => s[i].kind = "chat" /\ ChatGate(q[i], i = Len(q), c, pj),
           ~c.lock \/ \A i \in DOMAIN q : q[i].kind \in Over => s[i].kind \in Over,
           c.lock => d.lock, pj.locked => ~pj.released, HandlersOK(q, c, pj, us)
    PROVE  Gates(q, c, pj, us)
<1>1. OneChat(s) /\ Covers(s, d)
  BY DEF Gates
<1>2. OneChat(q)
  BY <1>1 DEF OneChat
<1>3. Covers(q, c)
  <2> SUFFICES ASSUME NEW i \in DOMAIN q, NEW j \in DOMAIN q, q[i].kind = "chat", j > i, q[j].kind \in Over, c.lock
               PROVE  FALSE
    BY DEF Covers
  <2>1. i \in DOMAIN s /\ j \in DOMAIN s /\ s[i].kind = "chat" /\ s[j].kind \in Over /\ d.lock
    OBVIOUS
  <2> QED BY <1>1, <2>1 DEF Covers
<1> QED BY <1>2, <1>3 DEF Gates, ChatGates

LEMMA NobodyOK ==
    ASSUME NEW q, NEW c, NEW pj, NEW us,
           \A t \in us : t.op # "unlock" /\ (t.op = "mark" /\ t.at # 0 /\ t.was = "open" => ~c.lock)
    PROVE  HandlersOK(q, c, pj, us)
BY DEF HandlersOK

LEMMA Uncovered ==
    ASSUME NEW e, NEW top, NEW x, NEW d, NEW ph, ChatGate(e, top, d, ph), ~top
    PROVE  ChatGate(e, x, d, ph)
BY DEF ChatGate

\* The handlers that go on detached.
LEMMA DetachedOK ==
    ASSUME Types, Gates(stack, db, phone, tasks), NEW u \in Detach(Top),
           "late" \notin Windows => ~\E t \in tasks : t.op = "unlock" /\ t.at = Top
    PROVE  /\ u.op = "unlock" /\ "late" \notin Windows =>
                u \in tasks /\ ~phone.locked /\ u.at \in DOMAIN stack /\ Top > u.at
                /\ stack[u.at].kind = "contact" /\ Screen.kind = "verify" /\ ~Screen.scanned
           /\ u.op = "mark" /\ u.at # 0 /\ u.was = "open" => ~db.lock
<1>1. u \in Tasks /\ u.at # Top /\ (u.at # 0 => u \in tasks)
  BY DetachedIs
<1>2. u.op = "mark" /\ u.at # 0 /\ u.was = "open" => ~db.lock
  BY <1>1 DEF Gates, HandlersOK
<1>3. ASSUME u.op = "unlock", "late" \notin Windows PROVE u.at # 0
  <2>1. PICK t \in tasks : u.op = t.op /\ u.at = IF t.at = Top THEN 0 ELSE t.at
    BY DetachIs
  <2>2. t.at \in DOMAIN stack /\ t.at # Top
    BY <1>3, <2>1, AsksAt
  <2>3. t.at # 0
    BY <2>2, TopIs, StackIs
  <2> QED BY <2>1, <2>2, <2>3
<1>4. ASSUME u.op = "unlock", "late" \notin Windows
      PROVE  u \in tasks /\ ~phone.locked /\ u.at \in DOMAIN stack /\ Top > u.at
             /\ stack[u.at].kind = "contact" /\ Screen.kind = "verify" /\ ~Screen.scanned
  BY <1>1, <1>3, <1>4, AsksAt
<1> QED BY <1>2, <1>4

LEMMA LeavesGates ==
    ASSUME Types, Gates(stack, db, phone, tasks), "late" \notin Windows, Leaves
    PROVE  Gates(stack', db', phone', tasks')
<1>a. PICK m : m = Top - 1
  OBVIOUS
<1>1. /\ Top > 1 /\ ~\E t \in tasks : t.op = "unlock" /\ t.at = Top
      /\ phone' = Relocks(Screen) /\ phone'.locked = phone.locked
      /\ stack' \in Stacks /\ Len(stack') = m /\ \A i \in 1..(Top - 2) : stack'[i] = stack[i]
      /\ m \in DOMAIN stack
      /\ IF phone.locked
         THEN stack'[m] = IF stack[m].kind \in {"tabs", "scan"} THEN Entry("lock", FALSE) ELSE stack[m]
         ELSE Alike(stack[m], stack'[m])
      /\ \A t \in tasks' : t \in Detach(Top) \/ (t.op = "mark" /\ t.was = "?")
      /\ db' = db
  BY <1>a, LeavesIs
<1>2. stack \in Stacks /\ Top \in Nat /\ DOMAIN stack = 1..Top /\ Len(stack) = Top /\ DOMAIN stack' = 1..m /\ Screen = stack[Top]
      /\ Top \in DOMAIN stack /\ phone \in Phones
  BY <1>1, TopIs, StackIs
<1>3. DOMAIN stack' \subseteq DOMAIN stack /\ Top \notin DOMAIN stack' /\ \A i \in DOMAIN stack' : i \in 1..(Top - 2) \/ i = m
  BY <1>1, <1>2, <1>a
<1>4. ASSUME NEW i \in DOMAIN stack'
      PROVE  \/ /\ stack'[i].kind = stack[i].kind /\ stack'[i].scanned = stack[i].scanned
                /\ stack'[i].open = stack[i].open /\ stack'[i].seen = stack[i].seen
             \/ phone.locked /\ stack'[i].kind = "lock" /\ stack[i].kind \in {"tabs", "scan"}
  <2>1. CASE i \in 1..(Top - 2)
    BY <1>1, <2>1
  <2>2. CASE i = m /\ ~phone.locked
    BY <1>1, <2>2 DEF Alike
  <2>3. CASE i = m /\ phone.locked
    BY <1>1, <2>3 DEF Entry
  <2> QED BY <1>3, <2>1, <2>2, <2>3
<1>5. OneChat(stack) /\ ChatGates(stack, db, phone) /\ (phone.locked => ~phone.released) /\ HandlersOK(stack, db, phone, tasks)
  BY DEF Gates
<1>6. \A i \in DOMAIN stack' : stack'[i].kind = "chat" =>
         stack[i].kind = "chat" /\ stack'[i].open = stack[i].open /\ stack'[i].seen = stack[i].seen
  BY <1>4
<1>7. ASSUME NEW i \in DOMAIN stack', stack'[i].kind = "chat"
      PROVE  stack[i].kind = "chat" /\ ChatGate(stack'[i], i = Len(stack'), db', phone')
  <2>1. i \in DOMAIN stack /\ stack[i].kind = "chat" /\ i # Top
    BY <1>3, <1>6, <1>7
  <2>2. Screen.kind # "chat"
    BY <1>2, <1>5, <2>1 DEF OneChat
  <2>3. phone' = phone
    BY <1>1, <2>2 DEF Relocks
  <2>4. ChatGate(stack[i], i = Len(stack), db, phone) /\ ~(i = Len(stack))
    BY <1>2, <1>5, <2>1 DEF ChatGates
  <2>5. ChatGate(stack[i], i = Len(stack'), db, phone)
    BY <2>4, Uncovered
  <2> QED BY <1>1, <1>6, <1>7, <2>1, <2>3, <2>5 DEF ChatGate, Gated
<1>8. \A i \in DOMAIN stack' : stack'[i].kind \in Over => stack[i].kind \in Over
  BY <1>4 DEF Over
<1>9. phone'.locked => ~phone'.released
  <2>1. CASE Screen.kind = "chat"
    <3>1. phone' = [phone EXCEPT !.released = FALSE]
      BY <1>1, <2>1 DEF Relocks
    <3>2. phone'.released = FALSE
      BY <1>2, <3>1 DEF Phones
    <3> QED BY <3>2
  <2>2. CASE Screen.kind # "chat"
    BY <1>1, <1>5, <2>2 DEF Relocks
  <2> QED BY <2>1, <2>2
<1>10. HandlersOK(stack', db', phone', tasks')
  <2> SUFFICES ASSUME NEW t \in tasks'
               PROVE  /\ t.op = "unlock" => ~phone.locked /\ Unlocking(t, stack')
                      /\ t.op = "mark" /\ t.at # 0 /\ t.was = "open" => ~db.lock
    BY <1>1 DEF HandlersOK
  <2>1. t.op = "mark" /\ t.at # 0 /\ t.was = "open" => ~db.lock
    BY <1>1, DetachedOK
  <2>2. ASSUME t.op = "unlock" PROVE ~phone.locked /\ Unlocking(t, stack')
    <3>1. t \in tasks /\ ~phone.locked /\ t.at \in DOMAIN stack /\ Top > t.at /\ stack[t.at].kind = "contact"
      BY <1>1, <2>2, DetachedOK
    <3>2. Unlocking(t, stack)
      BY <1>5, <2>2, <3>1 DEF HandlersOK
    <3>3. t.at \in DOMAIN stack' /\ stack'[t.at].kind = "contact" /\ t.at # 0
      <4>1. t.at \in DOMAIN stack' /\ t.at # 0
        BY <1>2, <1>a, <3>1
      <4>2. stack'[t.at].kind = stack[t.at].kind
        BY <1>4, <3>1, <4>1
      <4> QED BY <3>1, <4>1, <4>2
    <3>4. \A i \in DOMAIN stack' : i > t.at => stack'[i].kind = "verify" /\ ~stack'[i].scanned
      BY <1>3, <1>4, <3>1, <3>2 DEF Unlocking
    <3> QED BY <3>1, <3>3, <3>4 DEF Unlocking
  <2> QED BY <2>1, <2>2
<1>11. ~db'.lock \/ \A i \in DOMAIN stack' : stack'[i].kind \in Over => stack[i].kind \in Over
  BY <1>8
<1> QED BY <1>1, <1>2, <1>3, <1>7, <1>9, <1>10, <1>11, GatesQuiet

\* The visible screen gives way to one that is no chat, and nobody asks for a code.
LEMMA SwapGates ==
    ASSUME Types, Types', Gates(stack, db, phone, tasks), Len(stack') = Top,
           stack'[Top].kind # "chat", Screen.kind # "chat",
           db'.lock => (stack'[Top].kind \in Over => Screen.kind \in Over),
           \A i \in DOMAIN stack : i # Top => /\ stack'[i].kind = stack[i].kind
                                              /\ stack'[i].open = stack[i].open /\ stack'[i].seen = stack[i].seen,
           \A i \in DOMAIN stack : i # Top /\ stack[i].kind = "chat" /\ ChatGate(stack[i], FALSE, db, phone)
                                      => ChatGate(stack[i], FALSE, db', phone'),
           db'.lock => db.lock, phone'.locked => ~phone'.released,
           \A t \in tasks' : t.op # "unlock" /\ (t.op = "mark" /\ t.at # 0 /\ t.was = "open" => ~db'.lock)
    PROVE  Gates(stack', db', phone', tasks')
<1>1. stack \in Stacks /\ stack' \in Stacks /\ DOMAIN stack' = DOMAIN stack /\ Screen = stack[Top] /\ Len(stack) = Top
  BY TopIs, StackIs DEF Types
<1>2. ASSUME NEW i \in DOMAIN stack', stack'[i].kind = "chat"
      PROVE  stack[i].kind = "chat" /\ ChatGate(stack'[i], i = Len(stack'), db', phone')
  <2>1. i # Top
    BY <1>2
  <2>2. i \in DOMAIN stack /\ stack[i].kind = "chat"
    BY <1>1, <1>2, <2>1
  <2>3. ChatGate(stack[i], i = Len(stack), db, phone) /\ (i = Len(stack)) = FALSE /\ (i = Len(stack')) = FALSE
    BY <1>1, <2>1, <2>2 DEF Gates, ChatGates
  <2>4. ChatGate(stack[i], FALSE, db', phone')
    BY <2>1, <2>2, <2>3
  <2>5. stack'[i].open = stack[i].open /\ stack'[i].seen = stack[i].seen
    BY <2>1, <2>2
  <2> QED BY <2>2, <2>3, <2>4, <2>5 DEF ChatGate, Gated
<1>3. ~db'.lock \/ \A i \in DOMAIN stack' : stack'[i].kind \in Over => stack[i].kind \in Over
  BY <1>1
<1>4. HandlersOK(stack', db', phone', tasks')
  BY NobodyOK
<1> QED BY <1>1, <1>2, <1>3, <1>4, GatesQuiet

\* Where nobody asks for a code, nobody does so detached.
LEMMA NobodyDetached ==
    ASSUME Types, Gates(stack, db, phone, tasks), \A t \in tasks : t.op # "unlock", NEW u \in Detach(Top)
    PROVE  u.op # "unlock" /\ (u.op = "mark" /\ u.at # 0 /\ u.was = "open" => ~db.lock)
<1>1. u.op = "mark" /\ u.at # 0 /\ u.was = "open" => ~db.lock
  BY DetachedOK
<1>2. PICK t \in tasks : u.op = t.op
  BY DetachIs
<1> QED BY <1>1, <1>2

\* The scan leads on to the contact.
LEMMA DoneGates ==
    ASSUME Types, Gates(stack, db, phone, tasks), "late" \notin Windows, Done
    PROVE  Gates(stack', db', phone', tasks')
<1>1. Screen.kind = "verify"
      /\ (Leaves \/ (Screen.scanned /\ Swapped("contact", FALSE, Detach(Top)) /\ UNCHANGED <<scene, left, db, log, phone>>))
  BY DoneIs
<1>2. ASSUME Screen.scanned, Swapped("contact", FALSE, Detach(Top)), UNCHANGED <<scene, left, db, log, phone>>
      PROVE  Gates(stack', db', phone', tasks')
  <2>1. \A t \in tasks : t.op # "unlock"
    <3> SUFFICES ASSUME NEW t \in tasks, t.op = "unlock" PROVE FALSE
      OBVIOUS
    <3>1. Screen = stack[Top]
      BY TopIs
    <3> QED BY <1>1, <1>2, <3>1, AsksAt
  <2>2. stack'[Top].kind = "contact"
    <3>1. phone \in Phones /\ "contact" \in Kinds /\ FALSE \in BOOLEAN
      BY TopIs DEF Kinds
    <3>2. Entry("contact", FALSE).kind = "contact"
      BY <3>1, EntryIs
    <3> QED BY <1>2, <3>2 DEF Swapped, Alike
  <2>3. /\ Types' /\ Len(stack') = Top /\ \A i \in DOMAIN stack : i # Top => stack'[i] = stack[i]
        /\ \A t \in tasks' : t \in Detach(Top) \/ (t.op = "mark" /\ t.was = "?")
    BY <1>2 DEF Swapped
  <2>4. \A t \in tasks' : t.op # "unlock" /\ (t.op = "mark" /\ t.at # 0 /\ t.was = "open" => ~db'.lock)
    BY <1>2, <2>1, <2>3, NobodyDetached
  <2>5. phone.locked => ~phone.released
    BY DEF Gates
  <2> QED BY <1>1, <1>2, <2>2, <2>3, <2>4, <2>5, SwapGates DEF Over
<1> QED BY <1>1, <1>2, LeavesGates

\* The scanner that handled a code is visible, so no chat waits for its code.
LEMMA ScanAddsGates ==
    ASSUME Types, Gates(stack, db, phone, tasks), Bottom(stack, tasks), NEW t \in tasks, ScanAdds(t)
    PROVE  Gates(stack', db', phone', tasks')
<1>1. Swapped("verify", TRUE, Detach(Top)) /\ t.op = "add" /\ db' = [db EXCEPT !.there = TRUE] /\ phone' = phone
  BY ScanAddsIs
<1>2. Screen.kind = "scan" /\ db \in Bases
  BY <1>1, TopIs DEF Bottom
<1>3. \A u \in tasks : u.op # "unlock"
  BY <1>2, NobodyAsks DEF Over
<1>4. stack'[Top].kind = "verify"
  <2>1. phone \in Phones /\ "verify" \in Kinds /\ TRUE \in BOOLEAN
    BY TopIs DEF Kinds
  <2>2. Entry("verify", TRUE).kind = "verify"
    BY <2>1, EntryIs
  <2> QED BY <1>1, <2>2 DEF Swapped, Alike
<1>5. /\ Types' /\ Len(stack') = Top /\ \A i \in DOMAIN stack : i # Top => stack'[i] = stack[i]
      /\ \A u \in tasks' : u \in Detach(Top) \/ (u.op = "mark" /\ u.was = "?")
  BY <1>1 DEF Swapped
<1>6. db'.lock = db.lock /\ db'.there = TRUE
  BY <1>1, <1>2 DEF Bases
<1>7. \A u \in tasks' : u.op # "unlock" /\ (u.op = "mark" /\ u.at # 0 /\ u.was = "open" => ~db'.lock)
  BY <1>3, <1>5, <1>6, NobodyDetached
<1>8. \A i \in DOMAIN stack : ChatGate(stack[i], FALSE, db, phone) => ChatGate(stack[i], FALSE, db', phone')
  BY <1>1, <1>6 DEF ChatGate
<1>9. phone.locked => ~phone.released
  BY DEF Gates
<1> QED BY <1>1, <1>2, <1>4, <1>5, <1>6, <1>7, <1>8, <1>9, SwapGates DEF Over

\* The app lock is shown on no chat that has a lock of its own.
LEMMA AppUnlockGates ==
    ASSUME Types, Gates(stack, db, phone, tasks), AppUnlock
    PROVE  Gates(stack', db', phone', tasks')
<1>1. Swapped("tabs", FALSE, tasks) /\ Screen.kind = "lock" /\ phone.locked /\ ~phone'.locked /\ db' = db
      /\ phone'.released = phone.released
  BY AppUnlockIs
<1>2. \A u \in tasks : u.op # "unlock"
  BY <1>1, NobodyAsks DEF Over
<1>3. stack'[Top].kind = "tabs"
  <2>1. phone \in Phones /\ "tabs" \in Kinds /\ FALSE \in BOOLEAN
    BY TopIs DEF Kinds
  <2>2. Entry("tabs", FALSE).kind = "tabs"
    BY <2>1, EntryIs
  <2> QED BY <1>1, <2>2 DEF Swapped, Alike
<1>4. /\ Types' /\ Len(stack') = Top /\ \A i \in DOMAIN stack : i # Top => stack'[i] = stack[i]
      /\ \A u \in tasks' : u \in tasks \/ (u.op = "mark" /\ u.was = "?")
  BY <1>1 DEF Swapped
<1>5. \A u \in tasks' : u.op # "unlock" /\ (u.op = "mark" /\ u.at # 0 /\ u.was = "open" => ~db'.lock)
  BY <1>1, <1>2, <1>4 DEF Gates, HandlersOK
<1>6. ASSUME NEW i \in DOMAIN stack, i # Top, stack[i].kind = "chat", ChatGate(stack[i], FALSE, db, phone)
      PROVE  ChatGate(stack[i], FALSE, db', phone')
  <2>1. Top > i /\ Top \in DOMAIN stack /\ Screen = stack[Top]
    BY <1>6, TopIs
  <2>2. ~db.lock
    BY <1>1, <1>6, <2>1 DEF Gates, Covers, Over
  <2> QED BY <1>1, <1>6, <2>2 DEF ChatGate
<1> QED BY <1>1, <1>3, <1>4, <1>5, <1>6, SwapGates DEF Over

\* No code is being asked for when the app locks.
LEMMA AppLockGates ==
    ASSUME Types, Gates(stack, db, phone, tasks), "late" \notin Windows, AppLock
    PROVE  Gates(stack', db', phone', tasks')
<1>1. /\ phone'.locked /\ ~phone'.released /\ db' = db /\ tasks' = {}
      /\ stack' \in Stacks /\ Len(stack') = Top
      /\ \A i \in DOMAIN stack : i # Top => stack'[i] = Cleared(stack[i])
      /\ stack'[Top] = IF Screen.kind \in {"tabs", "scan"} THEN Entry("lock", FALSE) ELSE Cleared(Screen)
  BY AppLockIs
<1>2. /\ stack \in Stacks /\ DOMAIN stack' = DOMAIN stack /\ Screen = stack[Top] /\ Len(stack) = Top
      /\ \A i \in DOMAIN stack : stack[i] \in Mounted
  BY <1>1, TopIs, StackIs
<1>3. ASSUME NEW i \in DOMAIN stack
      PROVE  \/ stack'[i].kind = stack[i].kind /\ stack'[i].open = stack[i].open /\ stack'[i].seen = stack[i].seen
             \/ stack'[i].kind = "lock" /\ stack[i].kind \in {"tabs", "scan"}
  <2>1. stack'[i] = Cleared(stack[i]) \/ (i = Top /\ Screen.kind \in {"tabs", "scan"} /\ stack'[i] = Entry("lock", FALSE))
    BY <1>1, <1>2
  <2>2. CASE stack'[i] = Cleared(stack[i])
    BY <1>2, <2>2, ClearedIs
  <2>3. CASE i = Top /\ Screen.kind \in {"tabs", "scan"} /\ stack'[i] = Entry("lock", FALSE)
    BY <1>2, <2>3 DEF Entry
  <2> QED BY <2>1, <2>2, <2>3
<1>4. ASSUME NEW i \in DOMAIN stack', stack'[i].kind = "chat"
      PROVE  stack[i].kind = "chat" /\ ChatGate(stack'[i], i = Len(stack'), db', phone')
  <2>1. i \in DOMAIN stack /\ stack[i].kind = "chat" /\ stack'[i].open = stack[i].open /\ stack'[i].seen = stack[i].seen
    BY <1>2, <1>3, <1>4
  <2>2. ChatGate(stack[i], i = Len(stack), db, phone)
    BY <2>1 DEF Gates, ChatGates
  <2> QED BY <1>1, <1>2, <2>1, <2>2 DEF ChatGate, Gated
<1>5. ~db'.lock \/ \A i \in DOMAIN stack' : stack'[i].kind \in Over => stack[i].kind \in Over
  BY <1>2, <1>3 DEF Over
<1>6. HandlersOK(stack', db', phone', tasks')
  BY <1>1, NobodyOK
<1> QED BY <1>1, <1>2, <1>4, <1>5, <1>6, GatesQuiet

LEMMA DeleteContactGates ==
    ASSUME Types, Gates(stack, db, phone, tasks), "late" \notin Windows, DeleteContact
    PROVE  Gates(stack', db', phone', tasks')
<1>1. /\ Screen.kind = "contact" /\ ~\E t \in tasks : t.op = "unlock" /\ t.at = Top
      /\ db' = Removed /\ phone'.locked = phone.locked /\ ~phone'.released
      /\ tasks' = Detach(Top) /\ Types' /\ Len(stack') = Top
      /\ Alike(Entry("tabs", FALSE), stack'[Top])
      /\ \A i \in DOMAIN stack : i # Top => Steady(stack[i], stack'[i]) /\ Alike(stack[i], stack'[i])
  <2>1. stack \in Stacks /\ \A i \in DOMAIN stack : stack[i] \in Mounted
    BY TopIs
  <2>2. \A i \in DOMAIN stack : i # Top => Alike(stack[i], stack'[i])
    BY <2>1, DeleteContactIs, HearsIs DEF Roomy
  <2> QED BY <2>2, DeleteContactIs
<1>2. ~db'.lock
  BY <1>1, TopIs, RemovedIs
<1>3. \A t \in tasks : t.op # "unlock"
  BY <1>1, AsksAt
<1>4. stack'[Top].kind = "tabs"
  <2>1. phone \in Phones /\ "tabs" \in Kinds /\ FALSE \in BOOLEAN
    BY TopIs DEF Kinds
  <2>2. Entry("tabs", FALSE).kind = "tabs"
    BY <2>1, EntryIs
  <2> QED BY <1>1, <2>2 DEF Alike
<1>5. \A i \in DOMAIN stack : i # Top => /\ stack'[i].kind = stack[i].kind
                                         /\ stack'[i].open = stack[i].open /\ stack'[i].seen = stack[i].seen
  BY <1>1 DEF Alike
<1>6. \A i \in DOMAIN stack : ChatGate(stack[i], FALSE, db, phone) => ChatGate(stack[i], FALSE, db', phone')
  BY <1>1, <1>2 DEF ChatGate, Gated
<1>7. \A t \in tasks' : t.op # "unlock" /\ (t.op = "mark" /\ t.at # 0 /\ t.was = "open" => ~db'.lock)
  BY <1>1, <1>2, <1>3, NobodyDetached
<1> QED BY <1>1, <1>2, <1>4, <1>5, <1>6, <1>7, SwapGates

LEMMA StepGates ==
    ASSUME Types, Next, Bottom(stack, tasks), Following(stack, db, phone), Gates(stack, db, phone, tasks),
           "twice" \notin Windows, "enable" \notin Windows, "late" \notin Windows
    PROVE  Gates(stack', db', phone', tasks')
<1>1. CASE Calm
  BY <1>1, CalmGates
<1>2. CASE \E i \in DOMAIN stack : Load(i) \/ ListReads(i) \/ ListShows(i)
  BY <1>2, LoadGates, RelistedGates
<1>3. CASE \E t \in tasks : \/ MarkReads(t) \/ AnswerReads(t) \/ AnswerWrites(t) \/ ScanAdds(t)
                            \/ \E right \in BOOLEAN : UnlockEnds(t, right)
  BY <1>3, MarkReadsGates, AnswerReadsGates, AnswerWritesGates, ScanAddsGates, UnlockEndsGates
<1>4. CASE StartUnlock \/ EnableLock \/ Removes \/ ForgotCode \/ DeleteChat \/ DeleteContactFromTabs \/ DeleteContact
  BY <1>4, StartUnlockGates, EnableLockGates, WithoutLock, DeleteContactGates
<1>5. CASE \E k \in Asks : AsksFor(k) \/ PeerAsks(k)
  BY <1>5, AsksGates
<1>6. CASE \E k \in Asks, yes \in BOOLEAN : TapInChat(k, yes) \/ TapInContact(k, yes)
  BY <1>6, TapsGates
<1>7. CASE \E f \in {"muted", "blocked"} : Toggle(f)
  BY <1>7, ToggleGates
<1>8. CASE OpensChat \/ OpensOther
  BY <1>8, ChatOpened, OpensOtherGates
<1>9. CASE Leaves \/ Done \/ AppLock \/ AppUnlock
  BY <1>9, LeavesGates, DoneGates, AppLockGates, AppUnlockGates
<1> QED BY <1>1, <1>2, <1>3, <1>4, <1>5, <1>6, <1>7, <1>8, <1>9, Steps DEF Special

-----------------------------------------------------------------------------
(* Who marks a message read.                                               *)

KeepsUnread(d) == \A m \in Msgs : db.msgs[m] = "unread" => d.msgs[m] # "read"

LEMMA SameKeeps == ASSUME NEW d, d.msgs = db.msgs PROVE KeepsUnread(d)
BY DEF KeepsUnread

LEMMA NoneKeeps == ASSUME NEW d, d.msgs = NoMessages PROVE KeepsUnread(d)
BY DEF KeepsUnread, NoMessages

LEMMA OneKeeps ==
    ASSUME db \in Bases, NEW m \in Msgs, NEW x \in States, x = "read" => db.msgs[m] # "unread", NEW d,
           d = [db EXCEPT !.msgs[m] = x]
    PROVE  KeepsUnread(d)
<1>1. db.msgs \in [Msgs -> States]
  BY DEF Bases
<1>2. d.msgs = [db.msgs EXCEPT ![m] = x]
  BY OneMsg
<1> QED BY <1>1, <1>2 DEF KeepsUnread

LEMMA TalkingKeeps == ASSUME Types, Talking PROVE KeepsUnread(db')
<1>0. db \in Bases /\ db.msgs \in [Msgs -> States]
  BY TopIs DEF Bases
<1>1. ASSUME NEW m \in Msgs, SendText(m) \/ SendPhoto(m) PROVE KeepsUnread(db')
  <2>1. db' = [db EXCEPT !.msgs[m] = "sending"]
    BY <1>1 DEF SendText, SendPhoto, Writes
  <2> QED BY <1>0, <2>1, OneKeeps DEF States, Mine
<1>2. ASSUME NEW m \in Msgs, PeerSends(m) \/ Vanishes(m) PROVE KeepsUnread(db')
  <2>1. db' = [db EXCEPT !.msgs[m] = "unread"] \/ db' = [db EXCEPT !.msgs[m] = "none"]
    BY <1>2 DEF PeerSends, Vanishes, Writes
  <2> QED BY <1>0, <2>1, OneKeeps DEF States
<1>3. ASSUME NEW m \in Msgs, OpenMenu(m) PROVE KeepsUnread(db')
  BY <1>3, SameKeeps DEF OpenMenu
<1>4. ASSUME NEW t \in tasks, SendEnds(t) PROVE KeepsUnread(db')
  <2>a. PICK x : x = IF db.msgs[t.m] = "sending" THEN "sent" ELSE db.msgs[t.m]
    OBVIOUS
  <2>1. db' = [db EXCEPT !.msgs[t.m] = x] /\ t.op = "send"
    BY <1>4, <2>a DEF SendEnds, Writes
  <2>2. t.m \in Msgs
    BY <2>1, TaskIs DEF Types, Placed
  <2>3. x \in States /\ (x = "read" => db.msgs[t.m] # "unread")
    BY <1>0, <2>a, <2>2 DEF States, Mine
  <2> QED BY <1>0, <2>1, <2>2, <2>3, OneKeeps
<1>5. ASSUME DeleteForMe \/ DeleteForEveryone PROVE KeepsUnread(db')
  <2>1. Screen.sheet \in Msgs
    BY <1>5 DEF DeleteForMe, DeleteForEveryone, InMenu, MenuRetracts
  <2>2. db' = db \/ db' = [db EXCEPT !.msgs[Screen.sheet] = "none"]
    BY <1>5 DEF DeleteForMe, DeleteForEveryone, Deletes, Writes
  <2>3. CASE db' = db
    BY <2>3, SameKeeps
  <2>4. CASE db' = [db EXCEPT !.msgs[Screen.sheet] = "none"]
    BY <1>0, <2>1, <2>4, OneKeeps DEF States
  <2> QED BY <2>2, <2>3, <2>4
<1>6. ASSUME ClearChat \/ DeleteChat PROVE KeepsUnread(db')
  <2>1. db' = [db EXCEPT !.msgs = NoMessages]
        \/ db' = [db EXCEPT !.msgs = NoMessages, !.lock = FALSE, !.pend = [k \in Asks |-> "none"]]
    BY <1>6 DEF ClearChat, DeleteChat, Writes
  <2>2. db'.msgs = NoMessages
    BY <1>0, <2>1 DEF Bases
  <2> QED BY <2>2, NoneKeeps
<1> QED BY <1>1, <1>2, <1>3, <1>4, <1>5, <1>6 DEF Talking

LEMMA LockingKeeps == ASSUME Types, Locking PROVE KeepsUnread(db')
<1>0. db \in Bases
  BY TopIs
<1>1. CASE db' = db
  BY <1>1, SameKeeps
<1>2. CASE db' # db
  <2>1. db' = EnablesLock \/ db' = RemovesLock \/ db' = Forgets
    BY <1>2 DEF Locking, StartUnlock, OpenLockSheet, CloseSheet, EnableLock, ChangeCode, RemoveLock, ForgotCode, UnlockEnds,
                LockChanges, FallsBack, EnablesLock, RemovesLock, Forgets
  <2>2. db'.msgs = db.msgs \/ db'.msgs = NoMessages
    BY <1>0, <2>1, LocksIs
  <2> QED BY <2>2, SameKeeps, NoneKeeps
<1> QED BY <1>1, <1>2

LEMMA AskingKeeps == ASSUME Types, Asking PROVE KeepsUnread(db')
<1>1. db \in Bases
  BY TopIs
<1>2. db' = db \/ \E k, x : db' = [db EXCEPT !.pend[k] = x]
  <2>1. ASSUME NEW t \in tasks, AnswerReads(t) \/ AnswerWrites(t) PROVE db' = db \/ \E k, x : db' = [db EXCEPT !.pend[k] = x]
    BY <2>1 DEF AnswerReads, AnswerWrites, Writes
  <2>2. ASSUME NEW k \in Asks, AsksFor(k) \/ PeerAsks(k) \/ PeerEnds(k) PROVE \E j, x : db' = [db EXCEPT !.pend[j] = x]
    BY <2>2 DEF AsksFor, PeerAsks, PeerEnds, Writes
  <2>3. ASSUME NEW k \in Asks, NEW yes \in BOOLEAN, TapInChat(k, yes) \/ TapInContact(k, yes) PROVE db' = db
    BY <2>3 DEF TapInChat, TapInContact
  <2> QED BY <2>1, <2>2, <2>3 DEF Asking
<1>3. db'.msgs = db.msgs
  BY <1>1, <1>2 DEF Bases
<1> QED BY <1>3, SameKeeps

LEMMA PersonKeeps == ASSUME Types, Person PROVE KeepsUnread(db')
<1>1. db \in Bases
  BY TopIs
<1>2. ASSUME NEW f \in {"muted", "blocked"}, Toggle(f) PROVE db'.msgs = db.msgs
  BY <1>1, <1>2 DEF Toggle, Bases
<1>3. ASSUME ReportBlocks \/ Confirm \/ PeerConfirms \/ ScanCode \/ ScanAgain \/ AddAnyway PROVE db'.msgs = db.msgs
  BY <1>1, <1>3 DEF ReportBlocks, Confirm, PeerConfirms, ScanCode, ScanAgain, AddAnyway, Writes, Bases
<1>4. ASSUME DeleteContact \/ DeleteContactFromTabs PROVE db'.msgs = NoMessages
  BY <1>1, <1>4, RemovedIs DEF DeleteContact, DeleteContactFromTabs, Writes
<1>5. ASSUME NEW t \in tasks, ScanAdds(t) \/ ScanFails(t) PROVE db'.msgs = db.msgs
  BY <1>1, <1>5 DEF ScanAdds, ScanFails, Bases
<1>6. db'.msgs = db.msgs \/ db'.msgs = NoMessages
  BY <1>2, <1>3, <1>4, <1>5 DEF Person
<1> QED BY <1>6, SameKeeps, NoneKeeps

LEMMA MovesKeep == ASSUME Types, Moves PROVE KeepsUnread(db')
<1>1. ASSUME Leaves PROVE db' = db
  BY <1>1 DEF Leaves
<1>2. ASSUME NEW kind, Opens(kind) PROVE db' = db
  BY <1>2 DEF Opens
<1>3. db' = db
  BY <1>1, <1>2 DEF Moves, OpenChatFromList, PickContact, OpenContactFromTabs, OpenContactFromChat, OpenChatFromContact,
                    OpenVerify, OpenScanner, Back, Done, AppLock, AppUnlock, Background, Foreground
<1> QED BY <1>3, SameKeeps

LEMMA ReadsKeep == ASSUME Types, Reads, ~\E t \in tasks : MarkWrites(t) PROVE KeepsUnread(db')
<1>1. db' = db
  BY DEF Reads, Load, Poll, ListReads, ListShows, MarkReads
<1> QED BY <1>1, SameKeeps

\* Only a mark of the chat whose gate is open, or of one that was left.
LEMMA StepMarks ==
    ASSUME Types, Next, Gates(stack, db, phone, tasks), MarksRead
    PROVE  \E t \in tasks \ tasks' : t.op = "mark" /\ (t.at = 0 \/ ~Gated(stack[t.at]))
<1>1. ~KeepsUnread(db')
  BY DEF MarksRead, KeepsUnread
<1>2. PICK t \in tasks : MarkWrites(t)
  BY <1>1, TalkingKeeps, LockingKeeps, AskingKeeps, PersonKeeps, MovesKeep, ReadsKeep DEF Next
<1>3. db' # db
  BY <1>1, SameKeeps
<1>4. Viewable(t) /\ Tell(stack, tasks \ {t}) /\ t.op = "mark" /\ t.was # "?"
  BY <1>2, <1>3 DEF MarkWrites
<1>5. t \notin tasks'
  BY <1>4 DEF Tell, Marking
<1>6. ASSUME t.at # 0 PROVE ~Gated(stack[t.at])
  <2>1. t.at \in 0..Len(stack) /\ stack[t.at].kind = "chat"
    BY <1>4, <1>6 DEF Types, Placed, From
  <2>2. t.at \in DOMAIN stack /\ phone \in Phones
    BY <1>6, <2>1, TopIs, Somewhere
  <2>3. ChatGate(stack[t.at], t.at = Len(stack), db, phone)
    BY <2>1, <2>2 DEF Gates, ChatGates
  <2>4. CASE t.was = "open"
    <3>1. ~db.lock
      BY <1>4, <1>6, <2>4 DEF Gates, HandlersOK
    <3> QED BY <2>3, <3>1 DEF ChatGate
  <2>5. CASE phone.released
    BY <2>3, <2>5 DEF ChatGate, Gated
  <2> QED BY <1>4, <2>4, <2>5 DEF Viewable
<1> QED BY <1>4, <1>5, <1>6

-----------------------------------------------------------------------------
(* The initial states.                                                     *)

LEMMA InitIs ==
    ASSUME Init
    PROVE  /\ scene \in Scenes /\ left = MaxWrites /\ phone = [locked |-> FALSE, fg |-> TRUE, released |-> FALSE]
           /\ db \in Bases /\ db.msgs = NoMessages /\ log = [k \in Asks |-> 0] /\ tasks = {}
           /\ \E e \in Mounted : stack = <<e>> /\ e.kind = "tabs" /\ e.loads = <<>> /\ e.list.loading /\ e.list.read = <<>>
<1>1. PICK lock \in BOOLEAN, there \in BOOLEAN :
         db = [there |-> there, lock |-> lock, pend |-> [k \in Asks |-> "none"],
               local |-> ~Plays("person"), peer |-> ~Plays("person"),
               blocked |-> FALSE, muted |-> FALSE, msgs |-> NoMessages]
  BY DEF Init
<1>2. NoMessages \in [Msgs -> States] /\ [k \in Asks |-> "none"] \in [Asks -> Requests] /\ Plays("person") \in BOOLEAN
  BY DEF NoMessages, States, Requests, Plays
<1>3. db \in Bases /\ db.msgs = NoMessages
  BY <1>1, <1>2 DEF Bases
<1>4. phone = [locked |-> FALSE, fg |-> TRUE, released |-> FALSE] /\ phone \in Phones
  BY DEF Init, Phones
<1>a. PICK o : o = Entry("tabs", FALSE)
  OBVIOUS
<1>5. o \in Mounted /\ o.kind = "tabs" /\ o.loads = <<>> /\ o.list = NoList
  <2>1. "tabs" \in Kinds /\ FALSE \in BOOLEAN
    BY DEF Kinds
  <2> QED BY <1>4, <1>a, <2>1, EntryIs
<1>b. PICK l : l = [NoList EXCEPT !.loading = TRUE]
  OBVIOUS
<1>6. l \in Lists /\ l.loading /\ l.read = <<>>
  <2>1. l = [row |-> NoRow, loading |-> TRUE, dirty |-> FALSE, read |-> <<>>]
    BY <1>b DEF NoList
  <2>2. NoRow \in Rows /\ <<>> \in Seq(Rows)
    BY DEF NoRow, Rows
  <2> QED BY <2>1, <2>2 DEF Lists
<1>c. PICK e : e = [o EXCEPT !.list = l]
  OBVIOUS
<1>7. e \in Mounted /\ e.kind = "tabs" /\ e.loads = <<>> /\ e.list = l
  BY <1>5, <1>6, <1>c, ListIs
<1>8. stack = <<e>>
  <2>1. [o EXCEPT !.list.loading = TRUE] = e
    BY <1>5, <1>b, <1>c, MountedIs DEF Entries
  <2> QED BY <1>a, <2>1 DEF Init
<1> QED BY <1>3, <1>4, <1>6, <1>7, <1>8 DEF Init

LEMMA OneScreen ==
    ASSUME NEW e \in Mounted, NEW s, s = <<e>>
    PROVE  s \in Stacks /\ Len(s) = 1 /\ DOMAIN s = {1} /\ s[1] = e
BY Bounds DEF Stacks

LEMMA InitTypes ==
    ASSUME Init
    PROVE  /\ Types /\ Bottom(stack, tasks) /\ Answering(stack, db, log, tasks)
           /\ Following(stack, db, phone) /\ Gates(stack, db, phone, tasks)
<1>1. PICK e \in Mounted : stack = <<e>> /\ e.kind = "tabs" /\ e.loads = <<>> /\ e.list.loading /\ e.list.read = <<>>
  BY InitIs
<1>2. stack \in Stacks /\ Len(stack) = 1 /\ DOMAIN stack = {1} /\ stack[1] = e
  BY <1>1, OneScreen
<1>3. /\ scene \in Scenes /\ left = MaxWrites /\ phone = [locked |-> FALSE, fg |-> TRUE, released |-> FALSE]
      /\ db \in Bases /\ log = [k \in Asks |-> 0] /\ tasks = {}
  BY InitIs
<1>4. Types
  BY <1>2, <1>3, Bounds DEF Types, Phones, Placed
<1>5. Bottom(stack, tasks)
  BY <1>1, <1>2, <1>3 DEF Bottom
<1>6. Answering(stack, db, log, tasks)
  <2>1. log \in [Asks -> 0..1] /\ \A k \in Asks : log[k] # 1
    BY <1>3
  <2> QED BY <1>1, <1>2, <1>3, <2>1 DEF Answering, LoggedOnce, OnePerKind
<1>7. Following(stack, db, phone)
  BY <1>1, <1>2 DEF Following, PutsFirst, UpToDate
<1>8. Gates(stack, db, phone, tasks)
  BY <1>1, <1>2, <1>3 DEF Gates, OneChat, Covers, ChatGates, HandlersOK
<1> QED BY <1>4, <1>5, <1>6, <1>7, <1>8

-----------------------------------------------------------------------------
(* Steps that change nothing.                                              *)

LEMMA TypesKept == Types /\ [Next]_vars => Types'
<1> SUFFICES ASSUME Types, [Next]_vars PROVE Types'
  OBVIOUS
<1>1. CASE Next
  BY <1>1, StepTypes
<1>2. CASE UNCHANGED vars
  BY <1>2 DEF vars, Types, Placed
<1> QED BY <1>1, <1>2

LEMMA BottomKeeps ==
    "gone" \notin Windows => (Types /\ Bottom(stack, tasks) /\ [Next]_vars => Bottom(stack', tasks'))
<1> SUFFICES ASSUME "gone" \notin Windows, Types, Bottom(stack, tasks), [Next]_vars PROVE Bottom(stack', tasks')
  OBVIOUS
<1>1. CASE Next
  BY <1>1, StepBottom
<1>2. CASE UNCHANGED vars
  BY <1>2 DEF vars
<1> QED BY <1>1, <1>2

LEMMA AnsweringKeeps ==
    "double" \notin Windows =>
       (Types /\ Answering(stack, db, log, tasks) /\ [Next]_vars => Answering(stack', db', log', tasks'))
<1> SUFFICES ASSUME "double" \notin Windows, Types, Answering(stack, db, log, tasks), [Next]_vars
             PROVE  Answering(stack', db', log', tasks')
  OBVIOUS
<1>1. CASE Next
  BY <1>1, StepAnswering
<1>2. CASE UNCHANGED vars
  BY <1>2 DEF vars
<1> QED BY <1>1, <1>2

LEMMA FollowingKeeps ==
    "toggle" \notin Windows =>
       (Types /\ Following(stack, db, phone) /\ [Next]_vars => Following(stack', db', phone'))
<1> SUFFICES ASSUME "toggle" \notin Windows, Types, Following(stack, db, phone), [Next]_vars
             PROVE  Following(stack', db', phone')
  OBVIOUS
<1>1. CASE Next
  BY <1>1, StepFollowing
<1>2. CASE UNCHANGED vars
  BY <1>2 DEF vars
<1> QED BY <1>1, <1>2

\* The interleavings that open a gate, and those under which the tabs or the rows are not
\* what the argument takes them for.
GateWindows == {"twice", "enable", "late", "gone", "toggle"}

LEMMA GatesKeep ==
    Windows \cap GateWindows = {} =>
       (Types /\ Bottom(stack, tasks) /\ Following(stack, db, phone) /\ Gates(stack, db, phone, tasks) /\ [Next]_vars
           => Gates(stack', db', phone', tasks'))
<1> SUFFICES ASSUME Windows \cap GateWindows = {}, Types, Bottom(stack, tasks), Following(stack, db, phone),
                    Gates(stack, db, phone, tasks), [Next]_vars
             PROVE  Gates(stack', db', phone', tasks')
  OBVIOUS
<1>1. CASE Next
  BY <1>1, StepGates DEF GateWindows
<1>2. CASE UNCHANGED vars
  BY <1>2 DEF vars
<1> QED BY <1>1, <1>2

LEMMA EntriesOK == ASSUME NEW e \in Mounted PROVE EntryOK(e)
<1>1. e \in Entries /\ Len(e.loads) <= MaxLoads
  BY MountedIs
<1>2. e.seen \in AllFacts
  BY <1>1 DEF Entries
<1>3. DOMAIN e.seen = {"there", "lock", "pend", "local", "peer", "blocked", "muted"}
  BY <1>2 DEF AllFacts
<1>4. DOMAIN Blank = {"there", "lock", "pend", "local", "peer", "blocked", "muted"}
  BY DEF Blank
<1> QED BY <1>1, <1>3, <1>4 DEF EntryOK, Entries, Kinds, States

LEMMA TypesOK == Types /\ Bottom(stack, tasks) /\ Answering(stack, db, log, tasks) => TypeOK
<1> SUFFICES ASSUME Types, Bottom(stack, tasks), Answering(stack, db, log, tasks) PROVE TypeOK
  OBVIOUS
<1>1. \A i \in DOMAIN stack : EntryOK(stack[i])
  BY TopIs, EntriesOK
<1>2. Top \in 1..MaxDepth /\ \A t \in tasks : t.at \in 0..Top
  BY TopIs, Bounds DEF Types, Placed
<1>3. db.msgs \in [Msgs -> {"none", "unread", "read"} \cup Mine] /\ db.pend \in [Asks -> {"none", "theirs", "mine"}]
  BY DEF Types, Bases, States, Requests
<1>4. scene \in Scenes /\ left \in 0..MaxWrites /\ phone \in [locked : BOOLEAN, fg : BOOLEAN, released : BOOLEAN]
  BY DEF Types, Phones
<1>5. stack[1].kind \in {"tabs", "lock"} /\ log \in [Asks -> 0..1]
  BY DEF Bottom, Answering
<1> QED BY <1>1, <1>2, <1>3, <1>4, <1>5 DEF TypeOK

\* The screens keep their types, the tabs stay at the bottom of the stack, and a request is
\* logged at most once, when no second screen answers while an answer is under way and no
\* scanner is left with a code in hand (app/chat/[id].tsx, app/contact/[id].tsx, app/add-contact.tsx).
THEOREM ScreenTypes == ("double" \notin Windows /\ "gone" \notin Windows) => (Spec => []TypeOK)
<1> SUFFICES ASSUME "double" \notin Windows, "gone" \notin Windows PROVE Spec => []TypeOK
  OBVIOUS
<1> DEFINE Inv == Types /\ Bottom(stack, tasks) /\ Answering(stack, db, log, tasks)
<1>1. Init => Inv
  BY InitTypes
<1>2. Inv /\ [Next]_vars => Inv'
  BY TypesKept, BottomKeeps, AnsweringKeeps
<1>3. Inv => TypeOK
  BY TypesOK
<1> QED BY <1>1, <1>2, <1>3, PTL DEF Spec

\* What has been read since the last change, and is not going to be read again, is what the
\* database holds.
LEMMA FollowsWhenQuiet == Types /\ Following(stack, db, phone) => ScreensFollow
<1> SUFFICES ASSUME Types, Following(stack, db, phone), Quiet PROVE ScreensFollow
  BY DEF ScreensFollow
<1>1. ~phone.locked /\ UpToDate(Screen, db) /\ Screen.loads = <<>>
  BY TopIs DEF Quiet, Ready, Following
<1>2. ~HasRow(Screen) /\ ~HasRead(Screen) /\ WillShow(Screen) = Screen.seen
  BY <1>1 DEF HasRow, HasRead, WillShow, Putting
<1> QED BY <1>1, <1>2 DEF ScreensFollow, UpToDate

\* Once nothing is under way the visible screen shows what the database holds, whatever was
\* covered, left, locked or backgrounded meanwhile, when a switch is not pressed again before
\* it has settled (services/data-events.ts, app/(tabs)/chats.tsx, app/contact/[id].tsx).
THEOREM ScreensShowTheDatabase == "toggle" \notin Windows => (Spec => []ScreensFollow)
<1> SUFFICES ASSUME "toggle" \notin Windows PROVE Spec => []ScreensFollow
  OBVIOUS
<1> DEFINE Inv == Types /\ Following(stack, db, phone)
<1>1. Init => Inv
  BY InitTypes
<1>2. Inv /\ [Next]_vars => Inv'
  BY TypesKept, FollowingKeeps
<1>3. Inv => ScreensFollow
  BY FollowsWhenQuiet
<1> QED BY <1>1, <1>2, <1>3, PTL DEF Spec

GateInv == Types /\ Bottom(stack, tasks) /\ Following(stack, db, phone) /\ Gates(stack, db, phone, tasks)

LEMMA GateInvStep == Windows \cap GateWindows = {} => (GateInv /\ [Next]_vars => GateInv')
<1>1. Windows \cap GateWindows = {} => "gone" \notin Windows /\ "toggle" \notin Windows
  BY DEF GateWindows
<1> QED BY <1>1, TypesKept, BottomKeeps, FollowingKeeps, GatesKeep DEF GateInv

\* A chat that shows its thread can open it.
LEMMA ShownIsReleased == GateInv => (InChat /\ Screen.seen.lock /\ db.lock => phone.released)
<1> SUFFICES ASSUME GateInv, InChat, Screen.seen.lock, db.lock PROVE phone.released
  OBVIOUS
<1>1. ~phone.locked /\ Screen.kind = "chat" /\ Screen.open
  BY DEF InChat, Shows, On, Ready, Gated
<1>2. ChatGate(Screen, Top = Len(stack), db, phone)
  BY <1>1, TopIs DEF GateInv, Gates, ChatGates
<1> QED BY <1>1, <1>2 DEF ChatGate

\* The gate of a chat: no message is marked read by a chat whose gate is shown, a chat that
\* shows its thread can open it, and no key stays released behind the app lock, whatever is
\* tapped, locked, left and read again in between (app/chat/[id].tsx, lock/chat-locks.ts).
THEOREM TheGateGuards == Windows \cap GateWindows = {} => (Spec => GateGuards)
<1> SUFFICES ASSUME Windows \cap GateWindows = {} PROVE Spec => GateGuards
  OBVIOUS
<1>1. Init => GateInv
  BY InitTypes DEF GateInv
<1>2. GateInv /\ [Next]_vars => GateInv'
  BY GateInvStep
<1>3. GateInv /\ [Next]_vars =>
        [MarksRead => \E t \in tasks \ tasks' : t.op = "mark" /\ (t.at = 0 \/ ~Gated(stack[t.at]))]_vars
  BY StepMarks DEF GateInv
<1>4. GateInv => (phone.locked => ~phone.released)
  BY DEF GateInv, Gates
<1>5. GateInv => (InChat /\ Screen.seen.lock /\ db.lock => phone.released)
  BY ShownIsReleased
<1> QED BY <1>1, <1>2, <1>3, <1>4, <1>5, PTL DEF Spec, GateGuards
=============================================================================
