------------------------ MODULE VerificationProofs -------------------------
(***************************************************************************)
(* Verification proved for any number of disruptions, any length of the    *)
(* queues and any order of the keys.                                       *)
(***************************************************************************)
EXTENDS Verification, FiniteSetTheorems, SequenceTheorems, TLAPS

Session == [by : Phone, n : Nat, from : Gen, to : Gen]
SessionState == [cur : SUBSET Session, old : SUBSET Session, open : BOOLEAN]
Mail == [kind : {"confirm", "text"}, card : Gen \cup {None}, session : Session,
         type : {"prekey", "whisper"}, done : BOOLEAN]
UiTask == {Idle} \cup [step : {"press", "pressed"}, row : Contact]
                 \cup [step : {"add"}, row : Contact, card : Gen] \cup [step : {"remove"}]
RecvTask == {Idle} \cup [step : {"read", "confirm", "other", "reset"}, row : Contact,
                         m : Mail, live : BOOLEAN]

Types ==
    /\ gen \in [Phone -> Gen] /\ contact \in [Phone -> Contact]
    /\ session \in [Phone -> SessionState] /\ pin \in [Phone -> Gen \cup {None}]
    /\ sentThisRun \in [Phone -> BOOLEAN]
    /\ ui \in [Phone -> UiTask] /\ recv \in [Phone -> RecvTask]
    /\ mail \in [Phone -> Seq(Mail)] /\ pos \in [Phone -> Nat]
    /\ rows \in [Phone -> Nat] /\ stored \in [Phone -> BOOLEAN] /\ heard \in [Phone -> BOOLEAN]
    /\ pressed \in [Phone -> SUBSET (Gen \X (Gen \cup {None}))]
    /\ starts \in Nat /\ spent \in 0..MaxDisruptions /\ scene \in Scenes

\* One current session, and it is not archived.
OneSession(r) == (r.cur = {} \/ \E s \in Session : r.cur = {s}) /\ r.cur \cap r.old = {}

\* The receive chain is at an envelope that is there.
Position(d) ==
    /\ Len(mail[d]) <= scene.mail
    /\ pos[d] \in 1..(Len(mail[d]) + 1)
    /\ recv[d].step # "idle" => pos[d] <= Len(mail[d])

Shape ==
    /\ Types
    /\ \A d \in Phone : OneSession(session[d]) /\ Position(d) /\ gen[d] <= spent

-----------------------------------------------------------------------------
(* Who pressed what.  Every row a task still holds is as good as the one   *)
(* in the database.                                                        *)

PeerPressed(d, g) == \E h \in Gen : <<h, g>> \in pressed[Peer(d)]

GoodRow(d, c) ==
    /\ c.local => Known(c) /\ <<gen[d], c.key>> \in pressed[d]
    /\ c.peer => Known(c) /\ PeerPressed(d, gen[d])
    /\ c.card \in {None, c.key}

GoodMail(d, m) == m.kind = "confirm" => PeerPressed(d, m.card)

HoldsRow(d) == ui[d].step \in {"press", "pressed", "add"}

PressedRows(d) ==
    /\ GoodRow(d, contact[d])
    /\ HoldsRow(d) => GoodRow(d, ui[d].row)
    /\ ui[d].step = "press" => Known(ui[d].row) /\ ui[d].row.key = contact[d].key
    /\ ui[d].step = "pressed" => Known(ui[d].row) /\ <<gen[d], ui[d].row.key>> \in pressed[d]
    /\ recv[d].step # "idle" =>
          /\ GoodRow(d, recv[d].row) /\ GoodMail(d, recv[d].m)
          /\ recv[d].step = "confirm" => recv[d].m.kind = "confirm"
          /\ recv[d].live => Known(contact[d])

PressInv ==
    \A d \in Phone : PressedRows(d) /\ \A i \in 1..Len(mail[d]) : GoodMail(d, mail[d][i])

-----------------------------------------------------------------------------
(* The row an envelope is judged by, against the row as it is by then: the *)
(* identities a contact shows only go up, and a scan keeps what it read.   *)

GateRow(d) ==
    /\ contact[d].key <= gen[Peer(d)] /\ (contact[d].peer => heard[d])
    /\ ui[d].step = "add" =>
          /\ ui[d].row.key = contact[d].key /\ contact[d].key <= ui[d].card /\ ui[d].card <= gen[Peer(d)]
          /\ contact[d].local => ui[d].row.local
          /\ ui[d].row.peer => heard[d]
    /\ recv[d].step # "idle" /\ recv[d].live =>
          /\ recv[d].row.key <= contact[d].key
          /\ recv[d].row.peer => heard[d]
          /\ recv[d].step # "reset" /\ recv[d].row.local /\ recv[d].row.key = contact[d].key => contact[d].local

GateInv == \A d \in Phone : GateRow(d)

-----------------------------------------------------------------------------
(* Sessions.  Only the phone with the smaller key of the two identities    *)
(* begins, so two handshakes never cross under the same pair of identities.*)

Opens(s) == KeyRank[s.by][s.from + 1] < KeyRank[Peer(s.by)][s.to + 1]
OwnEnd(d, s) == IF s.by = d THEN s.from ELSE s.to
FarEnd(d, s) == IF s.by = d THEN s.to ELSE s.from

\* A prekey message comes from the phone that began its session.
Began(d, m) == Opens(m.session) /\ (m.type = "prekey" => m.session.by = Peer(d))

SessionRows(d) ==
    /\ \A s \in Records(d) : Opens(s) /\ OwnEnd(d, s) = gen[d] /\ FarEnd(d, s) = pin[d]
    /\ session[d].open => \E s \in session[d].cur : s.by = d

SessionInv ==
    \A d \in Phone :
        /\ SessionRows(d)
        /\ \A i \in 1..Len(mail[d]) : Began(d, mail[d][i])
        /\ recv[d].step # "idle" => Began(d, recv[d].m)

-----------------------------------------------------------------------------
(* Rows and sessions while no identity changes.                            *)

Removing(d) == ui[d].step = "remove"

KeptRow(d) ==
    /\ gen[d] = 0 /\ pin[d] \in {None, 0} /\ contact[d].key \in {None, 0}
    /\ contact[d].peer => HasSession(d) \/ Removing(d)
    /\ ui[d].step = "add" => ui[d].card = 0 /\ (ui[d].row.peer => HasSession(d))
    /\ recv[d].step # "reset"
    /\ \A s \in Records(d) : s.from = 0
    /\ recv[d].step # "idle" => recv[d].m.session.from = 0
    /\ recv[d].step = "confirm" /\ recv[d].live => HasSession(d) \/ Removing(d)
    /\ Removing(d) => "remove" \in scene.kinds

KeptInv ==
    Undisturbed =>
        \A d \in Phone : /\ KeptRow(d)
                        /\ \A i \in 1..Len(mail[d]) : mail[d][i].session.from = 0

-----------------------------------------------------------------------------
(* Phones, tasks, queues.                                                  *)

\* Two phones, each the peer of the other.
LEMMA Peers ==
    /\ \A d \in Phone : Peer(d) \in Phone /\ Peer(d) # d /\ Peer(Peer(d)) = d
    /\ \A d, e \in Phone : e = d \/ e = Peer(d)
<1>1. PICK a, b \in Phone : a # b /\ Phone = {a, b}
  BY VerificationAssumption
<1>2. Peer(a) = b /\ Peer(b) = a
  BY <1>1 DEF Peer
<1> QED BY <1>1, <1>2

LEMMA Bounds ==
    /\ MaxDisruptions \in Nat /\ 0 \in Gen /\ None \notin Gen /\ Gen \subseteq Nat
    /\ \A s \in Scenes : s.mail \in Nat
    /\ \A d \in Phone : \A g \in Gen : KeyRank[d][g + 1] \in Nat
BY VerificationAssumption DEF Gen, None

\* A task under way has its fields.
LEMMA Tasks ==
    ASSUME Types, NEW d \in Phone
    PROVE  /\ recv[d].step # "idle" =>
                 recv[d] \in [step : {"read", "confirm", "other", "reset"}, row : Contact,
                             m : Mail, live : BOOLEAN]
           /\ recv[d].step = "idle" => recv[d] = Idle
           /\ recv[d] # Idle => recv[d].step # "idle"
           /\ ui[d].step \in {"press", "pressed"} => ui[d] \in [step : {"press", "pressed"}, row : Contact]
           /\ ui[d].step = "add" => ui[d] \in [step : {"add"}, row : Contact, card : Gen]
           /\ Idle.step = "idle"
BY DEF Types, RecvTask, UiTask, Idle

\* Taking one element out of a sequence.
LEMMA Removal ==
    ASSUME NEW S, NEW s \in Seq(S), NEW i \in 1..Len(s)
    PROVE  /\ RemoveAt(s, i) \in Seq(S) /\ Len(RemoveAt(s, i)) = Len(s) - 1
           /\ \A j \in 1..Len(RemoveAt(s, i)) : \E k \in 1..Len(s) : RemoveAt(s, i)[j] = s[k]
<1> DEFINE l == SubSeq(s, 1, i - 1)
           r == SubSeq(s, i + 1, Len(s))
<1>1. /\ l \in Seq(S) /\ Len(l) = i - 1 /\ \A j \in 1..(i - 1) : l[j] = s[j]
      /\ r \in Seq(S) /\ Len(r) = Len(s) - i /\ \A j \in 1..(Len(s) - i) : r[j] = s[i + j]
      /\ Len(s) \in Nat /\ i \in Nat
  BY SubSeqProperties
<1> HIDE DEF l, r
<1>2. /\ l \o r \in Seq(S) /\ Len(l \o r) = Len(l) + Len(r)
      /\ \A j \in 1..(Len(l) + Len(r)) : (l \o r)[j] = IF j <= Len(l) THEN l[j] ELSE r[j - Len(l)]
  BY <1>1, ConcatProperties
<1>4. Len(l) + Len(r) = Len(s) - 1
  BY <1>1
<1>3. ASSUME NEW j \in 1..(Len(s) - 1) PROVE \E k \in 1..Len(s) : (l \o r)[j] = s[k]
  <2>1. CASE j <= i - 1
    BY <1>1, <1>2, <1>4, <2>1
  <2>2. CASE j > i - 1
    <3>1. j - (i - 1) \in 1..(Len(s) - i)
      BY <1>1, <2>2
    <3>2. (l \o r)[j] = r[j - (i - 1)]
      BY <1>1, <1>2, <1>4, <2>2
    <3>3. r[j - (i - 1)] = s[i + (j - (i - 1))] /\ i + (j - (i - 1)) = j + 1
      BY <1>1, <3>1
    <3>4. j + 1 \in 1..Len(s)
      BY <1>1
    <3> QED BY <3>2, <3>3, <3>4
  <2> QED BY <1>1, <2>1, <2>2
<1> QED BY <1>2, <1>3, <1>4 DEF RemoveAt, l, r

\* A message is the same but for its mark of having been decrypted.
Same(m, n) == m.kind = n.kind /\ m.card = n.card /\ m.session = n.session /\ m.type = n.type

\* A confirm phone d makes on row c.
Made(d, c, m) ==
    /\ m \in Mail /\ m.kind = "confirm" /\ m.card = c.card /\ c.card # None
    /\ m.session \in session[d].cur /\ (m.type = "prekey" => session[d].open)

\* The queues of a step that keeps, takes or marks, seen as sets of messages.
Kept(d, s) ==
    /\ s \in Seq(Mail) /\ Len(s) <= Len(mail[d])
    /\ \A j \in 1..Len(s) : \E k \in 1..Len(mail[d]) : Same(s[j], mail[d][k])

\* An envelope that is made is a message.
LEMMA Makes ==
    ASSUME Shape, NEW d \in Phone, HasSession(d), NEW kind \in {"confirm", "text"},
           NEW card \in Gen \cup {None}
    PROVE  /\ Envelope(d, kind, card) \in Mail
           /\ Envelope(d, kind, card).session \in session[d].cur
           /\ Envelope(d, kind, card).type = "prekey" => session[d].open
           /\ Envelope(d, kind, card).kind = kind /\ Envelope(d, kind, card).card = card
<1>1. (CHOOSE s \in session[d].cur : TRUE) \in session[d].cur /\ session[d].cur \subseteq Session
  BY DEF HasSession, Shape, Types, SessionState
<1> QED BY <1>1 DEF Envelope, Mail

\* sendConfirm adds at most one confirm to the peer's queue.
LEMMA Sending ==
    ASSUME Shape, NEW d \in Phone, NEW c \in Contact, NEW guard \in BOOLEAN,
           NEW box \in [Phone -> Seq(Mail)], SendConfirm(d, c, guard, box)
    PROVE  /\ sentThisRun' \in [Phone -> BOOLEAN] /\ mail' \in [Phone -> Seq(Mail)]
           /\ mail'[d] = box[d]
           /\ \/ mail'[Peer(d)] = box[Peer(d)]
              \/ /\ Len(box[Peer(d)]) < scene.mail
                 /\ \E m : Made(d, c, m) /\ mail'[Peer(d)] = Append(box[Peer(d)], m)
<1>1. CASE guard \/ c.card = None \/ session[d].cur = {}
  BY <1>1 DEF SendConfirm, Shape, Types
<1>2. CASE ~(guard \/ c.card = None \/ session[d].cur = {})
  <2> DEFINE m == Envelope(d, "confirm", c.card)
  <2>1. Made(d, c, m)
    BY <1>2, Makes DEF Made, HasSession, Contact
  <2>2. sentThisRun' \in [Phone -> BOOLEAN]
    BY <1>2 DEF SendConfirm, Shape, Types
  <2>3. CASE Len(box[Peer(d)]) >= scene.mail
    <3>1. mail' = box
      BY <1>2, <2>3, Bounds DEF SendConfirm, Shape, Types
    <3> QED BY <2>2, <3>1
  <2>4. CASE /\ Len(box[Peer(d)]) < scene.mail
             /\ mail' = [box EXCEPT ![Peer(d)] = Append(@, m)]
    <3> HIDE DEF m
    <3>1. m \in Mail /\ Append(box[Peer(d)], m) \in Seq(Mail)
      BY <2>1, Peers DEF Made
    <3>2. /\ mail' \in [Phone -> Seq(Mail)] /\ mail'[d] = box[d]
          /\ mail'[Peer(d)] = Append(box[Peer(d)], m)
      BY <2>4, <3>1, Peers
    <3> QED BY <2>1, <2>2, <2>4, <3>2
  <2> QED BY <1>2, <2>3, <2>4 DEF SendConfirm
<1> QED BY <1>1, <1>2

\* The queue without the envelope that was handled.
LEMMA Acking ==
    ASSUME Shape, NEW d \in Phone, recv[d].step # "idle",
           NEW box \in {mail, WithoutAcked(d)}
    PROVE  /\ box \in [Phone -> Seq(Mail)] /\ box[Peer(d)] = mail[Peer(d)] /\ Kept(d, box[d])
           /\ box = WithoutAcked(d) => Len(box[d]) = Len(mail[d]) - 1
<1>1. /\ mail \in [Phone -> Seq(Mail)] /\ mail[d] \in Seq(Mail) /\ Len(mail[d]) \in Nat
      /\ pos[d] \in 1..Len(mail[d])
  BY DEF Shape, Types, Position
<1>2. Kept(d, mail[d])
  BY <1>1 DEF Kept, Same
<1>3. /\ WithoutAcked(d) \in [Phone -> Seq(Mail)] /\ WithoutAcked(d)[d] = RemoveAt(mail[d], pos[d])
      /\ WithoutAcked(d)[Peer(d)] = mail[Peer(d)]
  BY <1>1, Removal, Peers DEF WithoutAcked
<1>4. Kept(d, RemoveAt(mail[d], pos[d])) /\ Len(RemoveAt(mail[d], pos[d])) = Len(mail[d]) - 1
  <2> DEFINE s == RemoveAt(mail[d], pos[d])
  <2>1. /\ s \in Seq(Mail) /\ Len(s) = Len(mail[d]) - 1
        /\ \A j \in 1..Len(s) : \E k \in 1..Len(mail[d]) : s[j] = mail[d][k]
    BY <1>1, Removal
  <2> HIDE DEF s
  <2>3. Len(s) <= Len(mail[d])
    BY <1>1, <2>1
  <2>4. ASSUME NEW j \in 1..Len(s) PROVE \E k \in 1..Len(mail[d]) : Same(s[j], mail[d][k])
    BY <2>1 DEF Same
  <2>2. Kept(d, s)
    BY <2>1, <2>3, <2>4 DEF Kept
  <2> QED BY <2>1, <2>2 DEF s
<1>5. CASE box = mail
  <2>1. mail # WithoutAcked(d)
    BY <1>1, <1>3, <1>4
  <2> QED BY <1>1, <1>2, <1>5, <2>1
<1>6. CASE box = WithoutAcked(d)
  BY <1>3, <1>4, <1>6
<1> QED BY <1>5, <1>6

-----------------------------------------------------------------------------
(* Types.                                                                  *)

LEMMA Spending ==
    ASSUME Shape, spent' = spent \/ (spent < MaxDisruptions /\ spent' = spent + 1)
    PROVE  spent' \in 0..MaxDisruptions /\ spent <= spent' /\ \A d \in Phone : gen[d] <= spent'
<1>1. spent \in 0..MaxDisruptions /\ \A d \in Phone : gen[d] \in Nat /\ gen[d] <= spent
  BY Bounds DEF Shape, Types
<1>2. MaxDisruptions \in Nat
  BY Bounds
<1> QED BY <1>1, <1>2

\* What the rows become.
LEMMA Rows ==
    /\ NoContact \in Contact
    /\ \A c \in Contact : ResetVerification(c) \in Contact
    /\ \A c \in Contact, g \in Gen : UpsertContact(c, g) \in Contact
BY DEF NoContact, Contact, ResetVerification, UpsertContact

LEMMA InitShape == Init => Shape
<1> SUFFICES ASSUME Init PROVE Shape OBVIOUS
<1>1. NoSession \in SessionState /\ Idle \in UiTask /\ Idle \in RecvTask /\ Idle.step = "idle"
  BY DEF NoSession, SessionState, UiTask, RecvTask, Idle
<1>2. Types
  BY <1>1, Bounds, Rows, EmptySeq DEF Init, Types
<1>3. \A d \in Phone : OneSession(session[d])
  BY DEF Init, OneSession, NoSession
<1>4. \A d \in Phone : Position(d) /\ gen[d] <= spent
  BY <1>1, Bounds DEF Init, Position
<1> QED BY <1>2, <1>3, <1>4 DEF Shape

\* A step that leaves the queues alone and starts no work of the receive chain.
LEMMA QueuesKept ==
    ASSUME Shape, UNCHANGED <<mail, pos, scene>>,
           \A d \in Phone : recv'[d].step # "idle" => recv[d].step # "idle"
    PROVE  \A d \in Phone : Position(d)'
BY DEF Shape, Position

\* A step that hands an envelope of d to its peer, the rest of d's queue being kept.
LEMMA QueuesGrow ==
    ASSUME Shape, NEW d \in Phone, scene' = scene,
           mail' \in [Phone -> Seq(Mail)],
           \/ mail'[Peer(d)] = mail[Peer(d)]
           \/ Len(mail[Peer(d)]) < scene.mail /\ \E m \in Mail : mail'[Peer(d)] = Append(mail[Peer(d)], m),
           pos'[Peer(d)] = pos[Peer(d)], recv'[Peer(d)] = recv[Peer(d)]
    PROVE  Position(Peer(d))'
<1> DEFINE p == Peer(d)
<1>1. p \in Phone /\ mail[p] \in Seq(Mail) /\ scene.mail \in Nat /\ pos[p] \in Nat /\ Len(mail[p]) \in Nat
  BY Peers, Bounds DEF Shape, Types
<1>2. Position(p)
  BY <1>1 DEF Shape
<1> HIDE DEF p
<1>3. CASE mail'[p] = mail[p]
  BY <1>2, <1>3 DEF Position, p
<1>4. ASSUME Len(mail[p]) < scene.mail, NEW m \in Mail, mail'[p] = Append(mail[p], m) PROVE Position(p)'
  <2>1. Len(mail'[p]) = Len(mail[p]) + 1
    BY <1>1, <1>4
  <2> QED BY <1>1, <1>2, <1>4, <2>1 DEF Position, p
<1> QED BY <1>3, <1>4 DEF p

LEMMA UserShape ==
    ASSUME Shape, NEW d \in Phone, User(d), scene' = scene
    PROVE  Shape'
<1> USE DEF device, tasks, history
<1>1. CASE AddContact(d)
  <2> DEFINE card == gen[Peer(d)]
             new == NewSession(d, card)
  <2>1. card \in Gen /\ gen[d] \in Gen /\ contact[d] \in Contact /\ starts \in Nat
    BY Peers DEF Shape, Types
  <2>2. new \in Session
    BY <2>1 DEF NewSession, Session
  <2> HIDE DEF new
  <2>3. spent' \in 0..MaxDisruptions /\ \A x \in Phone : gen[x] <= spent'
    BY <1>1, Spending DEF AddContact, Disrupt
  <2>4. ui' \in [Phone -> UiTask]
    BY <1>1, <2>1 DEF AddContact, UiTask, Shape, Types
  <2>5. /\ session' \in [Phone -> SessionState] /\ starts' \in Nat /\ pin' \in [Phone -> Gen \cup {None}]
        /\ \A x \in Phone : OneSession(session'[x])
    <3>1. CASE /\ session' = [session EXCEPT ![d] = [cur |-> {new}, old |-> {}, open |-> TRUE]]
               /\ pin' = [pin EXCEPT ![d] = card] /\ starts' = starts + 1
      <4>1. [cur |-> {new}, old |-> {}, open |-> TRUE] \in SessionState
        BY <2>2 DEF SessionState
      <4>2. OneSession([cur |-> {new}, old |-> {}, open |-> TRUE])
        BY <2>2 DEF OneSession
      <4>3. session' \in [Phone -> SessionState] /\ \A x \in Phone : OneSession(session'[x])
        BY <3>1, <4>1, <4>2 DEF Shape, Types
      <4>4. starts' \in Nat /\ pin' \in [Phone -> Gen \cup {None}]
        BY <2>1, <3>1 DEF Shape, Types
      <4> QED BY <4>3, <4>4
    <3>2. CASE /\ session' = [session EXCEPT ![d] = NoSession] \/ session' = session
               /\ pin' = [pin EXCEPT ![d] = None] \/ pin' = pin
               /\ starts' = starts
      <4>1. NoSession \in SessionState /\ OneSession(NoSession)
        BY DEF NoSession, SessionState, OneSession
      <4> QED BY <3>2, <4>1 DEF Shape, Types
    <3>3. session \in [Phone -> SessionState] /\ pin \in [Phone -> Gen \cup {None}]
      BY DEF Shape, Types
    <3> QED BY <1>1, <3>1, <3>2, <3>3 DEF AddContact, new
  <2>6. sentThisRun' \in [Phone -> BOOLEAN]
    BY <1>1 DEF AddContact, Shape, Types
  <2>7. \A x \in Phone : Position(x)'
    BY <1>1, QueuesKept DEF AddContact
  <2>8. UNCHANGED <<gen, contact, recv, mail, pos, rows, pressed, heard, stored, scene>>
    BY <1>1 DEF AddContact
  <2> HIDE DEF card
  <2> QED BY <2>3, <2>4, <2>5, <2>6, <2>7, <2>8 DEF Shape, Types
<1>2. CASE Press(d)
  <2>1. ui' \in [Phone -> UiTask]
    BY <1>2 DEF Press, UiTask, Shape, Types
  <2>2. \A x \in Phone : Position(x)'
    BY <1>2, QueuesKept DEF Press
  <2> QED BY <1>2, <2>1, <2>2 DEF Press, Shape, Types
<1>3. CASE RemoveContact(d)
  <2>1. ui' \in [Phone -> UiTask]
    BY <1>3 DEF RemoveContact, UiTask, Shape, Types
  <2>2. \A x \in Phone : Position(x)'
    BY <1>3, QueuesKept DEF RemoveContact
  <2>3. NoSession \in SessionState /\ OneSession(NoSession)
    BY DEF NoSession, SessionState, OneSession
  <2>4. /\ session' \in [Phone -> SessionState] /\ pin' \in [Phone -> Gen \cup {None}]
        /\ sentThisRun' \in [Phone -> BOOLEAN] /\ \A x \in Phone : OneSession(session'[x])
    BY <1>3, <2>3 DEF RemoveContact, ForgetPeer, Shape, Types
  <2>5. spent' \in 0..MaxDisruptions /\ \A x \in Phone : gen[x] <= spent'
    BY <1>3, Spending DEF RemoveContact, Disrupt
  <2>6. UNCHANGED <<gen, contact, recv, mail, pos, rows, pressed, heard, stored, starts, scene>>
    BY <1>3 DEF RemoveContact
  <2> QED BY <2>1, <2>2, <2>4, <2>5, <2>6 DEF Shape, Types
<1>4. CASE SendText(d)
  <2> DEFINE m == Envelope(d, "text", None)
  <2>1. m \in Mail
    BY <1>4, Makes DEF SendText
  <2>2. spent' \in 0..MaxDisruptions /\ \A x \in Phone : gen[x] <= spent'
    BY <1>4, Spending DEF SendText, Disrupt
  <2>3. mail' = [mail EXCEPT ![Peer(d)] = Append(mail[Peer(d)], m)] /\ Len(mail[Peer(d)]) < scene.mail
    BY <1>4 DEF SendText
  <2> HIDE DEF m
  <2>4. /\ mail' \in [Phone -> Seq(Mail)] /\ mail'[d] = mail[d]
        /\ mail'[Peer(d)] = Append(mail[Peer(d)], m)
    BY <2>1, <2>3, Peers DEF Shape, Types
  <2>5. UNCHANGED <<gen, contact, recv, ui, session, pin, sentThisRun, pos, rows, pressed, heard, stored, starts, scene>>
    BY <1>4 DEF SendText
  <2>6. Position(Peer(d))'
    BY <2>1, <2>3, <2>4, <2>5, QueuesGrow
  <2>7. Position(d)'
    BY <2>4, <2>5 DEF Shape, Position
  <2>8. \A x \in Phone : Position(x)'
    BY <2>6, <2>7, Peers
  <2> QED BY <2>2, <2>4, <2>5, <2>8 DEF Shape, Types
<1> QED BY <1>1, <1>2, <1>3, <1>4 DEF User

LEMMA ScreenShape ==
    ASSUME Shape, NEW d \in Phone, Screen(d), scene' = scene
    PROVE  Shape'
<1> USE DEF device, tasks, history
<1>0. Idle \in UiTask /\ ui \in [Phone -> UiTask] /\ contact \in [Phone -> Contact] /\ rows \in [Phone -> Nat]
  BY DEF Shape, Types, UiTask
<1>1. CASE ContactAdded(d)
  <2>1. ui[d].row \in Contact /\ ui[d].card \in Gen
    BY <1>1, Tasks DEF ContactAdded, Shape
  <2>2. contact' \in [Phone -> Contact] /\ ui' \in [Phone -> UiTask]
    BY <1>0, <1>1, <2>1, Rows DEF ContactAdded
  <2>3. rows' \in [Phone -> Nat] /\ pos' \in [Phone -> Nat]
    BY <1>0, <1>1 DEF ContactAdded, Shape, Types
  <2>4. UNCHANGED <<gen, session, pin, sentThisRun, recv, mail, pressed, heard, stored, starts, spent, scene>>
    BY <1>1 DEF ContactAdded
  <2>5. ASSUME NEW x \in Phone PROVE Position(x)'
    <3>1. pos'[x] = pos[x] \/ (recv[x].step = "idle" /\ pos'[x] = 1)
      BY <1>1 DEF ContactAdded, Shape, Types
    <3>2. Len(mail[x]) \in Nat
      BY DEF Shape, Types
    <3> QED BY <2>4, <3>1, <3>2 DEF Shape, Position
  <2> QED BY <2>2, <2>3, <2>4, <2>5 DEF Shape, Types
<1>2. CASE Pressed(d)
  <2>1. ui[d] \in [step : {"press", "pressed"}, row : Contact] /\ ui[d].row \in Contact
    BY <1>2, Tasks DEF Pressed, Shape
  <2>2. [ui[d] EXCEPT !.step = "pressed"] \in UiTask
    BY <2>1 DEF UiTask
  <2>3. ui' \in [Phone -> UiTask]
    BY <1>0, <1>2, <2>2 DEF Pressed
  <2>4. [contact[d] EXCEPT !.local = TRUE] \in Contact
    BY <1>0 DEF Contact
  <2>5. contact' \in [Phone -> Contact] /\ rows' \in [Phone -> Nat]
    BY <1>0, <1>2, <2>4 DEF Pressed
  <2>6. UNCHANGED <<gen, session, pin, sentThisRun, recv, mail, pos, heard, stored, starts, spent, scene>>
    BY <1>2 DEF Pressed
  <2>7. \A x \in Phone : Position(x)'
    BY <2>6, QueuesKept
  <2>8. pressed' \in [Phone -> SUBSET (Gen \X (Gen \cup {None}))]
    <3>1. <<gen[d], ui[d].row.key>> \in Gen \X (Gen \cup {None})
      BY <2>1 DEF Contact, Shape, Types
    <3> QED BY <1>2, <3>1 DEF Pressed, Shape, Types
  <2> QED BY <2>3, <2>5, <2>6, <2>7, <2>8 DEF Shape, Types
<1>3. CASE PressSends(d)
  <2>1. ui[d].row \in Contact /\ sentThisRun[d] \in BOOLEAN /\ mail \in [Phone -> Seq(Mail)]
    BY <1>3, Tasks DEF PressSends, Shape, Types
  <2>2. /\ sentThisRun' \in [Phone -> BOOLEAN] /\ mail' \in [Phone -> Seq(Mail)] /\ mail'[d] = mail[d]
        /\ \/ mail'[Peer(d)] = mail[Peer(d)]
           \/ /\ Len(mail[Peer(d)]) < scene.mail
              /\ \E m \in Mail : mail'[Peer(d)] = Append(mail[Peer(d)], m)
    <3>1. SendConfirm(d, ui[d].row, sentThisRun[d], mail)
      BY <1>3 DEF PressSends
    <3>2. \A m : Made(d, ui[d].row, m) => m \in Mail
      BY DEF Made
    <3> QED BY <2>1, <3>1, <3>2, Sending, ZenonT(30)
  <2>3. ui' \in [Phone -> UiTask]
    BY <1>0, <1>3 DEF PressSends
  <2>4. UNCHANGED <<gen, session, pin, contact, recv, pos, rows, pressed, heard, stored, starts, spent, scene>>
    BY <1>3 DEF PressSends
  <2>5. Position(Peer(d))'
    BY <2>2, <2>4, QueuesGrow
  <2>6. Position(d)'
    BY <2>2, <2>4 DEF Shape, Position
  <2>7. \A x \in Phone : Position(x)'
    BY <2>5, <2>6, Peers
  <2> QED BY <2>2, <2>3, <2>4, <2>7 DEF Shape, Types
<1>4. CASE ContactRemoved(d)
  <2>1. recv' \in [Phone -> RecvTask] /\ \A x \in Phone : recv'[x].step = recv[x].step
    <3>1. recv \in [Phone -> RecvTask] /\ recv[d] \in RecvTask
      BY DEF Shape, Types
    <3>2. CASE recv[d] = Idle
      BY <1>4, <3>1, <3>2 DEF ContactRemoved
    <3>3. CASE recv[d] # Idle
      <4>1. [recv[d] EXCEPT !.live = FALSE] \in RecvTask
        BY <3>1, <3>3 DEF RecvTask
      <4>2. [recv[d] EXCEPT !.live = FALSE].step = recv[d].step
        BY <3>1, <3>3 DEF RecvTask
      <4> QED BY <1>4, <3>1, <3>3, <4>1, <4>2 DEF ContactRemoved
    <3> QED BY <3>2, <3>3
  <2>2. contact' \in [Phone -> Contact] /\ rows' \in [Phone -> Nat] /\ ui' \in [Phone -> UiTask]
        /\ heard' \in [Phone -> BOOLEAN]
    BY <1>0, <1>4, Rows DEF ContactRemoved, Shape, Types
  <2>3. UNCHANGED <<gen, session, pin, sentThisRun, mail, pos, pressed, stored, starts, spent, scene>>
    BY <1>4 DEF ContactRemoved
  <2>4. \A x \in Phone : Position(x)'
    BY <2>1, <2>3, QueuesKept
  <2> QED BY <2>1, <2>2, <2>3, <2>4 DEF Shape, Types
<1> QED BY <1>1, <1>2, <1>3, <1>4 DEF Screen

\* The end of a handler: the envelope is acked, or the ack dies.
LEMMA AckShape ==
    ASSUME Shape, NEW d \in Phone, recv[d].step # "idle", scene' = scene,
           NEW box \in {mail, WithoutAcked(d)}, Acks(d, box)
    PROVE  /\ recv' \in [Phone -> RecvTask] /\ recv'[d] = Idle /\ recv'[Peer(d)] = recv[Peer(d)]
           /\ pos' \in [Phone -> Nat] /\ pos'[Peer(d)] = pos[Peer(d)]
           /\ spent' \in 0..MaxDisruptions /\ \A x \in Phone : gen[x] <= spent'
           /\ mail'[d] = box[d] => Position(d)'
<1>1. /\ recv' \in [Phone -> RecvTask] /\ recv'[d] = Idle /\ recv'[Peer(d)] = recv[Peer(d)]
  BY Peers DEF Acks, Shape, Types, RecvTask
<1>2. pos' \in [Phone -> Nat] /\ pos'[Peer(d)] = pos[Peer(d)]
  <2>1. pos \in [Phone -> Nat] /\ pos[d] + 1 \in Nat /\ Peer(d) \in Phone /\ Peer(d) # d
    BY Peers DEF Shape, Types
  <2>2. pos' = pos \/ pos' = [pos EXCEPT ![d] = pos[d] + 1]
    BY DEF Acks
  <2> QED BY <2>1, <2>2
<1>3. spent' \in 0..MaxDisruptions /\ \A x \in Phone : gen[x] <= spent'
  BY Spending DEF Acks, Disrupt
<1>4. ASSUME mail'[d] = box[d] PROVE Position(d)'
  <2>1. /\ mail[d] \in Seq(Mail) /\ Len(mail[d]) \in Nat /\ pos[d] \in 1..Len(mail[d])
        /\ Len(mail[d]) <= scene.mail /\ scene.mail \in Nat
    BY Bounds DEF Shape, Types, Position
  <2>2. Len(WithoutAcked(d)[d]) = Len(mail[d]) - 1
    BY Acking
  <2>3. recv'[d].step = "idle"
    BY <1>1, Tasks DEF Shape
  <2>4. CASE box = WithoutAcked(d) /\ pos' = pos
    BY <1>4, <2>1, <2>2, <2>3, <2>4 DEF Position
  <2>5. CASE box = mail /\ pos' = [pos EXCEPT ![d] = @ + 1]
    <3>1. pos'[d] = pos[d] + 1
      BY <2>5 DEF Shape, Types
    <3> QED BY <1>4, <2>1, <2>3, <2>5, <3>1 DEF Position
  <2> QED BY <2>4, <2>5 DEF Acks
<1> QED BY <1>1, <1>2, <1>3, <1>4

LEMMA ChainShape ==
    ASSUME Shape, NEW d \in Phone, Chain(d), scene' = scene
    PROVE  Shape'
<1> USE DEF device, tasks, history
<1> DEFINE p == Peer(d)
<1>0. /\ p \in Phone /\ p # d /\ \A x \in Phone : x = d \/ x = p
  BY Peers
<1> HIDE DEF p
<1>k. /\ recv \in [Phone -> RecvTask] /\ mail \in [Phone -> Seq(Mail)] /\ mail[d] \in Seq(Mail)
      /\ contact \in [Phone -> Contact] /\ session \in [Phone -> SessionState]
      /\ rows \in [Phone -> Nat] /\ stored \in [Phone -> BOOLEAN] /\ pos \in [Phone -> Nat]
      /\ sentThisRun \in [Phone -> BOOLEAN] /\ pin \in [Phone -> Gen \cup {None}]
      /\ Idle \in RecvTask /\ Idle.step = "idle" /\ Len(mail[d]) \in Nat
      /\ pos[d] \in 1..(Len(mail[d]) + 1) /\ Len(mail[d]) <= scene.mail /\ scene.mail \in Nat
      /\ recv[d].step # "idle" => pos[d] <= Len(mail[d])
  BY Bounds, Tasks DEF Shape, Types, RecvTask, Position
<1>a. ASSUME recv[d].step # "idle" \/ pos[d] <= Len(mail[d]), Ack(d), recv'[d].step = "idle"
      PROVE  /\ mail' \in [Phone -> Seq(Mail)] /\ pos' \in [Phone -> Nat]
             /\ mail'[p] = mail[p] /\ pos'[p] = pos[p] /\ Position(d)'
  <2>1. pos[d] \in 1..Len(mail[d])
    BY <1>k, <1>a
  <2>2. /\ RemoveAt(mail[d], pos[d]) \in Seq(Mail) /\ Len(RemoveAt(mail[d], pos[d])) = Len(mail[d]) - 1
    BY <1>k, <2>1, Removal
  <2>3. mail' = [mail EXCEPT ![d] = RemoveAt(mail[d], pos[d])] /\ pos' = pos
    BY <1>a DEF Ack, WithoutAcked
  <2>4. mail'[d] = RemoveAt(mail[d], pos[d]) /\ mail' \in [Phone -> Seq(Mail)] /\ mail'[p] = mail[p]
    BY <1>0, <1>k, <2>2, <2>3
  <2> QED BY <1>k, <1>a, <2>1, <2>2, <2>3, <2>4 DEF Position
<1>b. ASSUME recv[d].step # "idle" \/ pos[d] <= Len(mail[d]), Keep(d), recv'[d].step = "idle"
      PROVE  /\ mail' \in [Phone -> Seq(Mail)] /\ pos' \in [Phone -> Nat]
             /\ mail'[p] = mail[p] /\ pos'[p] = pos[p] /\ Position(d)'
  <2>1. pos[d] \in 1..Len(mail[d])
    BY <1>k, <1>b
  <2>2. pos' = [pos EXCEPT ![d] = pos[d] + 1] /\ mail' = mail
    BY <1>b DEF Keep
  <2>3. pos'[d] = pos[d] + 1 /\ pos' \in [Phone -> Nat] /\ pos'[p] = pos[p]
    BY <1>0, <1>k, <2>1, <2>2
  <2> QED BY <1>k, <1>b, <2>1, <2>2, <2>3 DEF Position
<1>c. ASSUME mail'[p] = mail[p], pos'[p] = pos[p], recv'[p] = recv[p], Position(d)'
      PROVE  \A x \in Phone : Position(x)'
  BY <1>0, <1>c DEF Shape, Position
<1>1. CASE Receive(d)
  <2>1. pos[d] \in 1..Len(mail[d]) /\ recv[d].step = "idle"
    BY <1>1, <1>k DEF Receive
  <2>2. stored' \in [Phone -> BOOLEAN]
    BY <1>1, <1>k DEF Receive
  <2>3. UNCHANGED <<gen, session, pin, contact, sentThisRun, ui, rows, pressed, heard, starts, spent, scene>>
    BY <1>1 DEF Receive
  <2>4. CASE Known(contact[d])
    <3> DEFINE r == [step |-> "read", row |-> contact[d], m |-> mail[d][pos[d]], live |-> TRUE]
    <3>1. r \in RecvTask
      BY <1>k, <2>1, ElementOfSeq DEF RecvTask
    <3>2. recv' = [recv EXCEPT ![d] = r] /\ UNCHANGED <<mail, pos>>
      BY <1>1, <2>4 DEF Receive
    <3> HIDE DEF r
    <3>3. recv' \in [Phone -> RecvTask] /\ recv'[p] = recv[p]
      BY <1>0, <1>k, <3>1, <3>2
    <3>4. Position(d)'
      BY <1>k, <2>1, <3>2 DEF Position
    <3>5. \A x \in Phone : Position(x)'
      BY <1>c, <3>2, <3>3, <3>4
    <3> QED BY <1>k, <2>2, <2>3, <3>2, <3>3, <3>5 DEF Shape, Types
  <2>5. CASE ~Known(contact[d])
    <3>1. recv' = recv /\ (Keep(d) \/ Ack(d))
      BY <1>1, <2>5 DEF Receive
    <3>2. /\ mail' \in [Phone -> Seq(Mail)] /\ pos' \in [Phone -> Nat]
          /\ mail'[p] = mail[p] /\ pos'[p] = pos[p] /\ Position(d)'
      BY <1>a, <1>b, <2>1, <3>1
    <3>3. \A x \in Phone : Position(x)'
      BY <1>c, <3>1, <3>2
    <3> QED BY <2>2, <2>3, <3>1, <3>2, <3>3 DEF Shape, Types
  <2> QED BY <2>4, <2>5
<1>2. CASE Decrypts(d)
  <2> DEFINE m == recv[d].m
  <2>0. m \in Mail /\ m.session \in Session /\ m.session.from \in Gen
    BY <1>2, Tasks DEF Decrypts, Shape, Mail, Session
  <2>1. Records(d) \subseteq Session /\ session[d].open \in BOOLEAN
    BY <1>k DEF Records, SessionState
  <2> HIDE DEF m
  <2> DEFINE r == [cur |-> {m.session}, old |-> Records(d) \ {m.session},
                   open |-> session[d].open /\ m.type = "prekey"]
  <2>2. r \in SessionState /\ OneSession(r)
    BY <2>0, <2>1 DEF SessionState, OneSession
  <2>3. session' = [session EXCEPT ![d] = r]
    BY <1>2 DEF Decrypts, m
  <2> HIDE DEF r
  <2>4. session' \in [Phone -> SessionState] /\ \A x \in Phone : OneSession(session'[x])
    BY <1>k, <2>2, <2>3 DEF Shape
  <2>5. pin' \in [Phone -> Gen \cup {None}]
    BY <1>2, <1>k, <2>0 DEF Decrypts, m
  <2>6. recv' \in [Phone -> RecvTask] /\ recv'[p] = recv[p] /\ recv[d].step # "idle"
    <3>1. recv[d] \in [step : {"read", "confirm", "other", "reset"}, row : Contact, m : Mail, live : BOOLEAN]
      BY <1>2, Tasks DEF Decrypts, Shape
    <3>2. \A st \in {"confirm", "other"} : [recv[d] EXCEPT !.step = st] \in RecvTask
      BY <3>1 DEF RecvTask
    <3> QED BY <1>0, <1>2, <1>k, <3>2 DEF Decrypts
  <2>7. /\ mail' \in [Phone -> Seq(Mail)] /\ mail'[p] = mail[p] /\ Len(mail'[d]) = Len(mail[d])
    <3> DEFINE s == mail[d]
               e == [s[pos[d]] EXCEPT !.done = TRUE]
    <3>1. mail' = [mail EXCEPT ![d] = [s EXCEPT ![pos[d]] = e]]
      BY <1>2 DEF Decrypts
    <3>2. s \in Seq(Mail) /\ pos[d] \in 1..Len(s)
      BY <1>k, <2>6
    <3>3. s[pos[d]] \in Mail
      BY <3>2, ElementOfSeq
    <3>4. e \in Mail
      BY <3>3 DEF Mail
    <3> HIDE DEF e, s
    <3>5. [s EXCEPT ![pos[d]] = e] \in Seq(Mail) /\ Len([s EXCEPT ![pos[d]] = e]) = Len(s)
      BY <3>2, <3>4, ExceptSeq
    <3> QED BY <1>0, <1>k, <3>1, <3>5 DEF s
  <2>8. UNCHANGED <<gen, contact, sentThisRun, ui, pos, rows, pressed, heard, stored, starts, spent, scene>>
    BY <1>2 DEF Decrypts
  <2>9. Position(d)'
    BY <1>k, <2>6, <2>7, <2>8 DEF Position
  <2>10. \A x \in Phone : Position(x)'
    BY <1>c, <2>6, <2>7, <2>8, <2>9
  <2> QED BY <2>4, <2>5, <2>6, <2>7, <2>8, <2>10 DEF Shape, Types
<1>3. CASE DropsDuplicate(d) \/ LeavesUndecryptable(d)
  <2>1. /\ recv[d].step # "idle" /\ recv' = [recv EXCEPT ![d] = Idle] /\ (Ack(d) \/ Keep(d))
        /\ UNCHANGED <<gen, session, pin, contact, sentThisRun, ui, rows, pressed, heard, stored, starts, spent, scene>>
    BY <1>3 DEF DropsDuplicate, LeavesUndecryptable
  <2>2. recv' \in [Phone -> RecvTask] /\ recv'[d].step = "idle" /\ recv'[p] = recv[p]
    BY <1>0, <1>k, <2>1
  <2>3. /\ mail' \in [Phone -> Seq(Mail)] /\ pos' \in [Phone -> Nat]
        /\ mail'[p] = mail[p] /\ pos'[p] = pos[p] /\ Position(d)'
    BY <1>a, <1>b, <2>1, <2>2
  <2>4. \A x \in Phone : Position(x)'
    BY <1>c, <2>2, <2>3
  <2> QED BY <2>1, <2>2, <2>3, <2>4 DEF Shape, Types
<1>4. CASE SeesIdentityChange(d)
  <2>1. recv[d] \in [step : {"read", "confirm", "other", "reset"}, row : Contact, m : Mail, live : BOOLEAN]
    BY <1>4, Tasks DEF SeesIdentityChange, Shape
  <2>2. [recv[d] EXCEPT !.step = "reset"] \in RecvTask
    BY <2>1 DEF RecvTask
  <2>3. recv' \in [Phone -> RecvTask] /\ recv[d].step # "idle"
    BY <1>4, <1>k, <2>2 DEF SeesIdentityChange
  <2>4. contact' \in [Phone -> Contact]
    BY <1>4, <1>k, Rows DEF SeesIdentityChange
  <2>5. sentThisRun' \in [Phone -> BOOLEAN] /\ rows' \in [Phone -> Nat]
    BY <1>4, <1>k DEF SeesIdentityChange
  <2>6. UNCHANGED <<gen, session, pin, ui, mail, pos, pressed, heard, stored, starts, spent, scene>>
    BY <1>4 DEF SeesIdentityChange
  <2>7. \A x \in Phone : recv'[x].step # "idle" => recv[x].step # "idle"
    BY <1>4, <1>k, <2>3 DEF SeesIdentityChange
  <2>8. \A x \in Phone : Position(x)'
    BY <2>6, <2>7, QueuesKept
  <2> QED BY <2>3, <2>4, <2>5, <2>6, <2>8 DEF Shape, Types
<1>5. CASE ForgetsIdentity(d)
  <2>0. recv[d].step # "idle"
    BY <1>5 DEF ForgetsIdentity
  <2>1. PICK box \in {mail, WithoutAcked(d)} : Acks(d, box) /\ mail' = box
    BY <1>5 DEF ForgetsIdentity
  <2>2. mail' \in [Phone -> Seq(Mail)] /\ mail'[p] = mail[p]
    BY <2>0, <2>1, Acking DEF p
  <2>3. /\ recv' \in [Phone -> RecvTask] /\ recv'[p] = recv[p]
        /\ pos' \in [Phone -> Nat] /\ pos'[p] = pos[p] /\ Position(d)'
        /\ spent' \in 0..MaxDisruptions /\ \A x \in Phone : gen[x] <= spent'
    BY <2>0, <2>1, AckShape DEF p
  <2>4. NoSession \in SessionState /\ OneSession(NoSession)
    BY DEF NoSession, SessionState, OneSession
  <2>5. /\ session' \in [Phone -> SessionState] /\ pin' \in [Phone -> Gen \cup {None}]
        /\ \A x \in Phone : OneSession(session'[x])
    BY <1>5, <1>k, <2>4 DEF ForgetsIdentity, Shape
  <2>6. UNCHANGED <<gen, contact, sentThisRun, ui, rows, pressed, heard, stored, starts, scene>>
    BY <1>5 DEF ForgetsIdentity
  <2>7. \A x \in Phone : Position(x)'
    BY <1>c, <2>2, <2>3
  <2> QED BY <2>2, <2>3, <2>5, <2>6, <2>7 DEF Shape, Types
<1>6. CASE HandlesConfirm(d) \/ HandlesOther(d)
  <2>0. recv[d].step # "idle" /\ recv[d].row \in Contact
    BY <1>6, Tasks DEF HandlesConfirm, HandlesOther, Shape
  <2>1. PICK box \in {mail, WithoutAcked(d)} :
           /\ Acks(d, box)
           /\ \/ mail' = box /\ sentThisRun' = sentThisRun
              \/ \E guard \in BOOLEAN : SendConfirm(d, recv[d].row, guard, box)
    BY <1>6, <1>k DEF HandlesConfirm, HandlesOther
  <2>2. box \in [Phone -> Seq(Mail)] /\ box[p] = mail[p]
    BY <2>0, Acking DEF p
  <2>3. /\ sentThisRun' \in [Phone -> BOOLEAN] /\ mail' \in [Phone -> Seq(Mail)] /\ mail'[d] = box[d]
        /\ \/ mail'[p] = mail[p]
           \/ Len(mail[p]) < scene.mail /\ \E m \in Mail : mail'[p] = Append(mail[p], m)
    <3>1. CASE mail' = box /\ sentThisRun' = sentThisRun
      BY <1>k, <2>2, <3>1
    <3>2. ASSUME NEW guard \in BOOLEAN, SendConfirm(d, recv[d].row, guard, box)
          PROVE  /\ sentThisRun' \in [Phone -> BOOLEAN] /\ mail' \in [Phone -> Seq(Mail)] /\ mail'[d] = box[d]
                 /\ \/ mail'[p] = mail[p]
                    \/ Len(mail[p]) < scene.mail /\ \E m \in Mail : mail'[p] = Append(mail[p], m)
      <4>1. \A m : Made(d, recv[d].row, m) => m \in Mail
        BY DEF Made
      <4>2. /\ sentThisRun' \in [Phone -> BOOLEAN] /\ mail' \in [Phone -> Seq(Mail)] /\ mail'[d] = box[d]
            /\ \/ mail'[p] = box[p]
               \/ /\ Len(box[p]) < scene.mail
                  /\ \E m : Made(d, recv[d].row, m) /\ mail'[p] = Append(box[p], m)
        BY <2>0, <2>2, <3>2, Sending DEF p
      <4> QED BY <2>2, <4>1, <4>2
    <3> QED BY <2>1, <3>1, <3>2
  <2>4. /\ recv' \in [Phone -> RecvTask] /\ recv'[p] = recv[p]
        /\ pos' \in [Phone -> Nat] /\ pos'[p] = pos[p] /\ Position(d)'
        /\ spent' \in 0..MaxDisruptions /\ \A x \in Phone : gen[x] <= spent'
    BY <2>0, <2>1, <2>3, AckShape DEF p
  <2>5. Position(p)'
    BY <2>3, <2>4, QueuesGrow DEF p
  <2>6. \A x \in Phone : Position(x)'
    BY <1>0, <2>4, <2>5
  <2>7. contact' \in [Phone -> Contact] /\ rows' \in [Phone -> Nat] /\ stored' \in [Phone -> BOOLEAN]
    <3>1. CASE HandlesConfirm(d)
      <4>1. \A v \in BOOLEAN : [contact[d] EXCEPT !.peer = v] \in Contact
        BY <1>k DEF Contact
      <4>2. \E v \in BOOLEAN : contact' = [contact EXCEPT ![d] = [contact[d] EXCEPT !.peer = v]]
        BY <3>1 DEF HandlesConfirm
      <4>3. rows' \in [Phone -> Nat] /\ stored' = stored
        BY <1>k, <3>1 DEF HandlesConfirm
      <4> QED BY <1>k, <4>1, <4>2, <4>3
    <3>2. CASE HandlesOther(d)
      BY <1>k, <3>2 DEF HandlesOther
    <3> QED BY <1>6, <3>1, <3>2
  <2>8. UNCHANGED <<gen, session, pin, ui, pressed, starts, scene>>
    BY <1>6 DEF HandlesConfirm, HandlesOther
  <2>10. heard' \in [Phone -> BOOLEAN]
    <3>1. heard \in [Phone -> BOOLEAN]
      BY DEF Shape, Types
    <3>2. \E v \in BOOLEAN : heard' = heard \/ heard' = [heard EXCEPT ![d] = v]
      BY <1>6 DEF HandlesConfirm, HandlesOther
    <3> QED BY <3>1, <3>2
  <2>9. \A x \in Phone : OneSession(session'[x])
    BY <2>8 DEF Shape
  <2> QED BY <2>3, <2>4, <2>6, <2>7, <2>8, <2>9, <2>10 DEF Shape, Types
<1> QED BY <1>1, <1>2, <1>3, <1>4, <1>5, <1>6 DEF Chain

LEMMA EnvironmentShape ==
    ASSUME Shape, NEW d \in Phone, Reconnect(d) \/ Environment(d), scene' = scene
    PROVE  Shape'
<1> USE DEF device, tasks, history
<1> DEFINE p == Peer(d)
<1>0. /\ p \in Phone /\ p # d /\ \A x \in Phone : x = d \/ x = p
  BY Peers
<1> HIDE DEF p
<1>k. /\ recv \in [Phone -> RecvTask] /\ ui \in [Phone -> UiTask]
      /\ mail \in [Phone -> Seq(Mail)] /\ mail[d] \in Seq(Mail) /\ Len(mail[d]) \in Nat
      /\ contact \in [Phone -> Contact] /\ session \in [Phone -> SessionState]
      /\ rows \in [Phone -> Nat] /\ pos \in [Phone -> Nat] /\ scene.mail \in Nat
      /\ sentThisRun \in [Phone -> BOOLEAN] /\ pin \in [Phone -> Gen \cup {None}]
      /\ gen \in [Phone -> Gen]
      /\ Idle \in RecvTask /\ Idle \in UiTask /\ Idle.step = "idle"
      /\ Len(mail[d]) <= scene.mail /\ pos[d] \in 1..(Len(mail[d]) + 1)
  BY Bounds, Tasks DEF Shape, Types, RecvTask, UiTask, Position
<1>1. CASE Reconnect(d)
  <2>1. pos' \in [Phone -> Nat] /\ pos'[d] = 1 /\ pos'[p] = pos[p]
    BY <1>0, <1>1, <1>k DEF Reconnect
  <2>2. /\ sentThisRun' \in [Phone -> BOOLEAN] /\ mail' \in [Phone -> Seq(Mail)] /\ mail'[d] = mail[d]
        /\ \/ mail'[p] = mail[p]
           \/ Len(mail[p]) < scene.mail /\ \E m \in Mail : mail'[p] = Append(mail[p], m)
    <3>1. CASE Resends(d)
      <4>1. SendConfirm(d, contact[d], FALSE, mail)
        BY <1>1, <3>1 DEF Reconnect
      <4>2. \A m : Made(d, contact[d], m) => m \in Mail
        BY DEF Made
      <4>3. /\ sentThisRun' \in [Phone -> BOOLEAN] /\ mail' \in [Phone -> Seq(Mail)] /\ mail'[d] = mail[d]
            /\ \/ mail'[p] = mail[p]
               \/ /\ Len(mail[p]) < scene.mail
                  /\ \E m : Made(d, contact[d], m) /\ mail'[p] = Append(mail[p], m)
        BY <1>k, <4>1, Sending DEF p
      <4> QED BY <4>2, <4>3
    <3>2. CASE ~Resends(d)
      BY <1>1, <1>k, <3>2 DEF Reconnect
    <3> QED BY <3>1, <3>2
  <2>3. UNCHANGED <<gen, session, pin, contact, ui, recv, rows, pressed, heard, stored, starts, spent, scene>> /\ recv[d].step = "idle"
    BY <1>1 DEF Reconnect
  <2>4. Position(p)'
    BY <2>1, <2>2, <2>3, QueuesGrow DEF p
  <2>5. Position(d)'
    BY <1>k, <2>1, <2>2, <2>3 DEF Position
  <2>6. \A x \in Phone : Position(x)'
    BY <1>0, <2>4, <2>5
  <2> QED BY <2>1, <2>2, <2>3, <2>6 DEF Shape, Types
<1>2. CASE Expire(d)
  <2>1. PICK i \in 1..Len(mail[d]) :
          /\ mail' = [mail EXCEPT ![d] = RemoveAt(mail[d], i)]
          /\ pos' = [pos EXCEPT ![d] = IF i < pos[d] THEN pos[d] - 1 ELSE pos[d]]
          /\ spent' = spent \/ (spent < MaxDisruptions /\ spent' = spent + 1)
    BY <1>2 DEF Expire, Disrupt
  <2>2. RemoveAt(mail[d], i) \in Seq(Mail) /\ Len(RemoveAt(mail[d], i)) = Len(mail[d]) - 1
    BY <1>k, Removal
  <2>3. mail' \in [Phone -> Seq(Mail)] /\ mail'[d] = RemoveAt(mail[d], i) /\ mail'[p] = mail[p]
    BY <1>0, <1>k, <2>1, <2>2
  <2>4. /\ pos' \in [Phone -> Nat] /\ pos'[p] = pos[p]
        /\ pos'[d] = IF i < pos[d] THEN pos[d] - 1 ELSE pos[d]
    BY <1>0, <1>k, <2>1
  <2>5. spent' \in 0..MaxDisruptions /\ \A x \in Phone : gen[x] <= spent'
    BY <2>1, Spending
  <2>6. UNCHANGED <<gen, session, pin, contact, sentThisRun, ui, recv, rows, pressed, heard, stored, starts, scene>> /\ recv[d].step = "idle"
    BY <1>2 DEF Expire
  <2>7. Position(d)'
    BY <1>k, <2>2, <2>3, <2>4, <2>6 DEF Position
  <2>8. \A x \in Phone : Position(x)'
    BY <1>0, <2>3, <2>4, <2>6, <2>7 DEF Shape, Position
  <2> QED BY <2>3, <2>4, <2>5, <2>6, <2>8 DEF Shape, Types
<1>r. ASSUME Restarted(d)
      PROVE  /\ ui' \in [Phone -> UiTask] /\ recv' \in [Phone -> RecvTask]
             /\ sentThisRun' \in [Phone -> BOOLEAN] /\ pos' \in [Phone -> Nat] /\ \A x \in Phone : Position(x)'
             /\ UNCHANGED <<mail, pressed, stored, starts>>
  <2>1. /\ ui' \in [Phone -> UiTask] /\ recv' \in [Phone -> RecvTask] /\ recv'[d].step = "idle" /\ recv'[p] = recv[p]
        /\ mail' = mail
    BY <1>0, <1>k, <1>r DEF Restarted
  <2>2. sentThisRun' \in [Phone -> BOOLEAN] /\ pos' \in [Phone -> Nat] /\ pos'[d] = 1 /\ pos'[p] = pos[p]
    BY <1>0, <1>k, <1>r DEF Restarted
  <2>4. scene' = scene
    OBVIOUS
  <2>5. Position(d)'
    BY <1>k, <2>1, <2>2, <2>4 DEF Position
  <2>6. Position(p)'
    BY <1>0, <2>1, <2>2, <2>4 DEF Shape, Position
  <2>3. \A x \in Phone : Position(x)'
    BY <1>0, <2>5, <2>6
  <2> QED BY <1>r, <2>1, <2>2, <2>3 DEF Restarted
<1>3. CASE Restart(d)
  <2>1. spent' \in 0..MaxDisruptions /\ \A x \in Phone : gen[x] <= spent'
    BY <1>3, Spending DEF Restart, Disrupt
  <2>2. UNCHANGED <<gen, session, pin, contact, rows, heard>>
    BY <1>3 DEF Restart
  <2>3. /\ ui' \in [Phone -> UiTask] /\ recv' \in [Phone -> RecvTask]
        /\ sentThisRun' \in [Phone -> BOOLEAN] /\ pos' \in [Phone -> Nat] /\ \A x \in Phone : Position(x)'
        /\ UNCHANGED <<mail, pressed, stored, starts>>
    BY <1>3, <1>r DEF Restart
  <2> QED BY <2>1, <2>2, <2>3 DEF Shape, Types
<1>4. CASE Migrate(d)
  <2>1. /\ spent' \in 0..MaxDisruptions /\ spent' = spent + 1 /\ MaxDisruptions \in Nat /\ spent \in Nat
        /\ \A x \in Phone : gen[x] \in Nat /\ gen[x] <= spent
    <3>1. spent' \in 0..MaxDisruptions /\ spent' = spent + 1
      BY <1>4, Spending DEF Migrate, Disrupt
    <3>2. MaxDisruptions \in Nat /\ spent \in Nat
      BY Bounds DEF Shape, Types
    <3>3. \A x \in Phone : gen[x] \in Nat /\ gen[x] <= spent
      BY Bounds DEF Shape, Types
    <3> QED BY <3>1, <3>2, <3>3
  <2>2. gen' = [gen EXCEPT ![d] = gen[d] + 1] /\ gen[d] + 1 \in Gen
    BY <1>4, <2>1 DEF Migrate, Gen
  <2>3. gen' \in [Phone -> Gen] /\ \A x \in Phone : gen'[x] <= spent'
    BY <1>k, <2>1, <2>2
  <2>4. NoSession \in SessionState /\ OneSession(NoSession)
    BY DEF NoSession, SessionState, OneSession
  <2>5. /\ session' \in [Phone -> SessionState] /\ pin' \in [Phone -> Gen \cup {None}]
        /\ \A x \in Phone : OneSession(session'[x])
    BY <1>4, <1>k, <2>4 DEF Migrate, Shape
  <2>6. contact' \in [Phone -> Contact] /\ rows' \in [Phone -> Nat] /\ heard' \in [Phone -> BOOLEAN]
    BY <1>4, <1>k, Rows DEF Migrate, Shape, Types
  <2>7. /\ ui' \in [Phone -> UiTask] /\ recv' \in [Phone -> RecvTask]
        /\ sentThisRun' \in [Phone -> BOOLEAN] /\ pos' \in [Phone -> Nat] /\ \A x \in Phone : Position(x)'
        /\ UNCHANGED <<mail, pressed, stored, starts>>
    BY <1>4, <1>r DEF Migrate
  <2> QED BY <2>1, <2>3, <2>5, <2>6, <2>7 DEF Shape, Types
<1> QED BY <1>1, <1>2, <1>3, <1>4 DEF Environment

LEMMA ShapeStep == Shape /\ [Next]_vars => Shape'
<1>1. Shape /\ UNCHANGED vars => Shape'
  BY DEF Shape, Types, Position, OneSession, vars, device, tasks, history
<1>2. Shape /\ Next => Shape'
  BY UserShape, ScreenShape, ChainShape, EnvironmentShape DEF Next
<1> QED BY <1>1, <1>2

\* The state is well typed in every reachable state: one current session, queues within
\* their bound, and the receive chain at an envelope that is there.
THEOREM TypeCorrect == Spec => []TypeOK
<1>1. Shape => TypeOK
  <2> SUFFICES ASSUME Shape PROVE TypeOK OBVIOUS
  <2>1. ASSUME NEW d \in Phone
        PROVE  Cardinality(session[d].cur) <= 1 /\ session[d].cur \cap session[d].old = {}
    <3>1. OneSession(session[d])
      BY DEF Shape
    <3>2. CASE session[d].cur = {}
      BY <3>1, <3>2, FS_EmptySet DEF OneSession
    <3>3. ASSUME NEW s, session[d].cur = {s} PROVE Cardinality(session[d].cur) <= 1
      BY <3>3, FS_Singleton
    <3> QED BY <3>1, <3>2, <3>3 DEF OneSession
  <2>2. \A d \in Phone : /\ ui[d].step \in {"idle", "press", "pressed", "add", "remove"}
                        /\ recv[d].step \in {"idle", "read", "confirm", "other", "reset"}
    BY DEF Shape, Types, UiTask, RecvTask, Idle
  <2>3. \A d \in Phone : Len(mail[d]) <= scene.mail /\ pos[d] \in 1..(Len(mail[d]) + 1)
    BY DEF Shape, Position
  <2> QED BY <2>1, <2>2, <2>3 DEF Shape, Types, TypeOK
<1> QED BY <1>1, InitShape, ShapeStep, PTL DEF Spec

-----------------------------------------------------------------------------
(* Where the messages of a queue come from.                                *)

\* The row on which phone d may send a confirm.
Speaks(d, c) ==
    \/ c = contact[d] /\ c.local
    \/ c = ui[d].row /\ ui[d].step = "pressed"
    \/ c = recv[d].row /\ c.local /\ recv[d].step # "idle"

Fresh(d, m) ==
    /\ m.session \in session[d].cur /\ (m.type = "prekey" => session[d].open)
    /\ m.kind = "confirm" => m.card # None /\ \E c : Speaks(d, c) /\ m.card = c.card

\* After a step of d, x holds what it held, or what d has just made for it.
From(d, x) ==
    \A j \in 1..Len(mail'[x]) :
        \/ \E k \in 1..Len(mail[x]) : Same(mail'[x][j], mail[x][k])
        \/ x = Peer(d) /\ Fresh(d, mail'[x][j])

LEMMA FromKept ==
    ASSUME NEW d, NEW x, mail'[x] = mail[x] \/ Kept(x, mail'[x])
    PROVE  From(d, x)
BY DEF From, Kept, Same

LEMMA FromAppend ==
    ASSUME Shape, NEW d \in Phone, NEW m \in Mail, Fresh(d, m),
           mail'[Peer(d)] = Append(mail[Peer(d)], m)
    PROVE  From(d, Peer(d))
<1> DEFINE p == Peer(d)
           s == mail[p]
           u == Append(s, m)
<1>1. s \in Seq(Mail)
  BY Peers DEF Shape, Types
<1> HIDE DEF s
<1>2. \A j \in 1..Len(u) : u[j] = m \/ \E k \in 1..Len(s) : u[j] = s[k]
  <2>1. /\ Len(s) \in Nat /\ Len(u) = Len(s) + 1 /\ u[Len(u)] = m
        /\ \A j \in 1..Len(s) : u[j] = s[j]
    BY <1>1
  <2> HIDE DEF u
  <2> QED BY <2>1
<1> HIDE DEF u
<1>3. mail'[p] = u
  BY DEF u, s
<1> QED BY <1>2, <1>3 DEF From, Same, s, p

LEMMA FromSending ==
    ASSUME Shape, NEW d \in Phone, NEW c \in Contact, NEW guard \in BOOLEAN, Speaks(d, c),
           NEW box \in [Phone -> Seq(Mail)], SendConfirm(d, c, guard, box),
           box[Peer(d)] = mail[Peer(d)]
    PROVE  From(d, Peer(d)) /\ mail'[d] = box[d]
<1> DEFINE p == Peer(d)
<1>1. /\ mail'[d] = box[d]
      /\ \/ mail'[p] = mail[p]
         \/ \E m : Made(d, c, m) /\ mail'[p] = Append(mail[p], m)
  <2>1. /\ mail'[d] = box[d]
        /\ \/ mail'[p] = box[p]
           \/ /\ Len(box[p]) < scene.mail
              /\ \E m : Made(d, c, m) /\ mail'[p] = Append(box[p], m)
    BY Sending, Zenon
  <2> QED BY <2>1
<1>2. CASE mail'[p] = mail[p]
  BY <1>1, <1>2, FromKept
<1>3. ASSUME NEW m, Made(d, c, m), mail'[p] = Append(mail[p], m) PROVE From(d, p)
  <2>1. m \in Mail /\ Fresh(d, m)
    BY <1>3 DEF Made, Fresh
  <2> QED BY <1>3, <2>1, FromAppend
<1> QED BY <1>1, <1>2, <1>3

LEMMA MailSources ==
    ASSUME Shape, NEW d \in Phone,
           User(d) \/ Screen(d) \/ Chain(d) \/ Reconnect(d) \/ Environment(d)
    PROVE  \A x \in Phone : From(d, x)
<1> DEFINE p == Peer(d)
<1>0. /\ p \in Phone /\ p # d /\ \A x \in Phone : x = d \/ x = p
  BY Peers
<1>k. /\ mail \in [Phone -> Seq(Mail)] /\ mail[d] \in Seq(Mail) /\ Len(mail[d]) \in Nat
      /\ pos[d] \in 1..(Len(mail[d]) + 1) /\ contact[d] \in Contact
      /\ recv[d].step # "idle" => pos[d] \in 1..Len(mail[d])
      /\ \A x \in Phone : sentThisRun[x] \in BOOLEAN
  BY DEF Shape, Types, Position
<1>1. ASSUME mail' = mail PROVE \A x \in Phone : From(d, x)
  BY <1>1, FromKept
<1>2. ASSUME NEW i \in 1..Len(mail[d]), mail' = [mail EXCEPT ![d] = RemoveAt(mail[d], i)]
      PROVE  \A x \in Phone : From(d, x)
  <2> DEFINE s == RemoveAt(mail[d], i)
  <2>1. /\ s \in Seq(Mail) /\ Len(s) = Len(mail[d]) - 1
        /\ \A j \in 1..Len(s) : \E k \in 1..Len(mail[d]) : s[j] = mail[d][k]
    BY <1>k, Removal
  <2>2. mail'[d] = s /\ mail'[p] = mail[p]
    BY <1>0, <1>2, <1>k
  <2> HIDE DEF s
  <2>3. From(d, d)
    BY <2>1, <2>2 DEF From, Same
  <2>4. From(d, p)
    BY <2>2, FromKept
  <2> QED BY <1>0, <2>3, <2>4
<1>3. ASSUME NEW c \in Contact, NEW guard \in BOOLEAN, Speaks(d, c), SendConfirm(d, c, guard, mail)
      PROVE  \A x \in Phone : From(d, x)
  <2>1. From(d, p) /\ mail'[d] = mail[d]
    BY <1>3, <1>k, FromSending
  <2> QED BY <1>0, <2>1, FromKept
<1>4. ASSUME AddContact(d) \/ Press(d) \/ RemoveContact(d) \/ ContactAdded(d) \/ Pressed(d)
             \/ ContactRemoved(d) \/ SeesIdentityChange(d) \/ Restart(d) \/ Migrate(d)
      PROVE  mail' = mail
  BY <1>4 DEF AddContact, Press, RemoveContact, ContactAdded, Pressed, ContactRemoved,
              SeesIdentityChange, Restart, Migrate, Restarted
<1>5. CASE SendText(d)
  <2> DEFINE m == Envelope(d, "text", None)
  <2>1. m \in Mail /\ Fresh(d, m)
    BY <1>5, Makes DEF SendText, Fresh
  <2>2. mail' = [mail EXCEPT ![p] = Append(mail[p], m)]
    BY <1>5 DEF SendText
  <2> HIDE DEF m
  <2>3. mail'[p] = Append(mail[p], m) /\ mail'[d] = mail[d]
    BY <1>0, <1>k, <2>2
  <2>4. From(d, p) /\ From(d, d)
    BY <2>1, <2>3, FromAppend, FromKept
  <2> QED BY <1>0, <2>4
<1>6. CASE PressSends(d)
  <2>1. ui[d].row \in Contact
    BY <1>6, Tasks DEF PressSends, Shape
  <2>2. SendConfirm(d, ui[d].row, sentThisRun[d], mail) /\ Speaks(d, ui[d].row)
    BY <1>6 DEF PressSends, Speaks
  <2> QED BY <1>3, <1>k, <2>1, <2>2
<1>7. CASE Reconnect(d)
  <2>1. CASE Resends(d)
    <3>1. SendConfirm(d, contact[d], FALSE, mail) /\ Speaks(d, contact[d])
      BY <1>7, <2>1 DEF Reconnect, Speaks, Resends
    <3> QED BY <1>3, <1>k, <3>1
  <2>2. CASE ~Resends(d)
    BY <1>1, <1>7, <2>2 DEF Reconnect
  <2> QED BY <2>1, <2>2
<1>8. CASE Receive(d) \/ DropsDuplicate(d) \/ LeavesUndecryptable(d)
  <2>1. pos[d] \in 1..Len(mail[d])
    BY <1>8, <1>k DEF Receive, DropsDuplicate, LeavesUndecryptable
  <2>2. mail' = mail \/ mail' = [mail EXCEPT ![d] = RemoveAt(mail[d], pos[d])]
    BY <1>8 DEF Receive, DropsDuplicate, LeavesUndecryptable, Ack, Keep, WithoutAcked
  <2> QED BY <1>1, <1>2, <2>1, <2>2
<1>9. CASE Expire(d)
  BY <1>2, <1>9 DEF Expire
<1>10. CASE Decrypts(d)
  <2> DEFINE s == mail[d]
             i == pos[d]
             e == [s[i] EXCEPT !.done = TRUE]
             u == [s EXCEPT ![i] = e]
  <2>1. mail' = [mail EXCEPT ![d] = u]
    BY <1>10 DEF Decrypts
  <2>2. s \in Seq(Mail) /\ i \in 1..Len(s)
    BY <1>10, <1>k DEF Decrypts
  <2>m. s[i] \in Mail
    BY <2>2, ElementOfSeq
  <2>3. Same(e, s[i])
    BY <2>m DEF Mail, Same
  <2>4. e \in Mail
    BY <2>m DEF Mail
  <2> HIDE DEF e, s, i
  <2>5. Len(u) = Len(s) /\ \A j \in 1..Len(s) : u[j] = IF j = i THEN e ELSE s[j]
    BY <2>2, <2>4, ExceptSeq
  <2> HIDE DEF u
  <2>6. mail'[d] = u /\ mail'[p] = mail[p]
    BY <1>0, <1>k, <2>1
  <2>7. \A j \in 1..Len(u) : \E k \in 1..Len(s) : Same(u[j], s[k])
    BY <2>2, <2>3, <2>5 DEF Same
  <2>8. From(d, d)
    BY <2>6, <2>7 DEF From, s
  <2> QED BY <1>0, <2>6, <2>8, FromKept
<1>11. CASE ForgetsIdentity(d) \/ HandlesConfirm(d) \/ HandlesOther(d)
  <2>0. recv[d].step # "idle" /\ recv[d].row \in Contact
    BY <1>11, Tasks DEF ForgetsIdentity, HandlesConfirm, HandlesOther, Shape
  <2>1. PICK box \in {mail, WithoutAcked(d)} :
           \/ mail' = box
           \/ \E guard \in BOOLEAN : SendConfirm(d, recv[d].row, guard, box) /\ recv[d].row.local
    BY <1>11, <1>k DEF ForgetsIdentity, HandlesConfirm, HandlesOther, Answers
  <2>2. box \in [Phone -> Seq(Mail)] /\ box[p] = mail[p] /\ Kept(d, box[d])
    BY <2>0, Acking
  <2>3. CASE mail' = box
    BY <1>0, <2>2, <2>3, FromKept
  <2>4. ASSUME NEW guard \in BOOLEAN, SendConfirm(d, recv[d].row, guard, box), recv[d].row.local
        PROVE  From(d, p) /\ mail'[d] = box[d]
    <3>1. Speaks(d, recv[d].row)
      BY <2>0, <2>4 DEF Speaks
    <3> QED BY <2>0, <2>2, <2>4, <3>1, FromSending
  <2> QED BY <1>0, <2>1, <2>2, <2>3, <2>4, FromKept
<1> QED
  BY <1>1, <1>4, <1>5, <1>6, <1>7, <1>8, <1>9, <1>10, <1>11
  DEF User, Screen, Chain, Environment

-----------------------------------------------------------------------------
(* Presses.                                                                *)

\* Presses are not taken back.
LEMMA PressesGrow ==
    ASSUME Shape, Next
    PROVE  \A x \in Phone : pressed[x] \subseteq pressed'[x]
<1> PICK d \in Phone : User(d) \/ Screen(d) \/ Chain(d) \/ Reconnect(d) \/ Environment(d)
  BY DEF Next
<1> USE DEF history
<1>1. CASE User(d)
  BY <1>1 DEF User, AddContact, Press, RemoveContact, SendText
<1>2. CASE Screen(d)
  <2>1. CASE Pressed(d)
    BY <2>1 DEF Pressed, Shape, Types
  <2> QED BY <1>2, <2>1 DEF Screen, ContactAdded, PressSends, ContactRemoved
<1>3. CASE Chain(d)
  BY <1>3 DEF Chain, Receive, Decrypts, DropsDuplicate, LeavesUndecryptable, SeesIdentityChange,
              ForgetsIdentity, HandlesConfirm, HandlesOther
<1>4. CASE Reconnect(d) \/ Environment(d)
  BY <1>4 DEF Reconnect, Environment, Expire, Restart, Migrate, Restarted
<1> QED BY <1>1, <1>2, <1>3, <1>4

\* A step of d leaves the peer's phone alone.
LEMMA PeerUntouched ==
    ASSUME Shape, NEW d \in Phone,
           User(d) \/ Screen(d) \/ Chain(d) \/ Reconnect(d) \/ Environment(d)
    PROVE  /\ contact'[Peer(d)] = contact[Peer(d)] /\ ui'[Peer(d)] = ui[Peer(d)]
           /\ recv'[Peer(d)] = recv[Peer(d)] /\ gen'[Peer(d)] = gen[Peer(d)]
           /\ session'[Peer(d)] = session[Peer(d)] /\ pin'[Peer(d)] = pin[Peer(d)]
           /\ heard'[Peer(d)] = heard[Peer(d)]
<1> DEFINE p == Peer(d)
<1>0. p \in Phone /\ p # d
  BY Peers
<1> HIDE DEF p
<1> USE DEF device, tasks, history
<1>k. /\ DOMAIN contact = Phone /\ DOMAIN ui = Phone /\ DOMAIN recv = Phone
      /\ DOMAIN gen = Phone /\ DOMAIN session = Phone /\ DOMAIN pin = Phone /\ DOMAIN heard = Phone
      /\ contact \in [Phone -> Contact] /\ session \in [Phone -> SessionState]
  BY DEF Shape, Types
<1> DEFINE Same6 == /\ contact'[p] = contact[p] /\ ui'[p] = ui[p] /\ recv'[p] = recv[p]
                    /\ gen'[p] = gen[p] /\ session'[p] = session[p] /\ pin'[p] = pin[p]
                    /\ heard'[p] = heard[p]
<1> SUFFICES Same6 BY DEF p
<1>1. CASE AddContact(d)
  BY <1>0, <1>k, <1>1 DEF AddContact
<1>2. CASE Press(d)
  BY <1>0, <1>k, <1>2 DEF Press
<1>3. CASE RemoveContact(d)
  BY <1>0, <1>k, <1>3 DEF RemoveContact, ForgetPeer
<1>4. CASE SendText(d)
  BY <1>0, <1>k, <1>4 DEF SendText
<1>5. CASE ContactAdded(d)
  BY <1>0, <1>k, <1>5 DEF ContactAdded
<1>6. CASE Pressed(d)
  BY <1>0, <1>k, <1>6 DEF Pressed
<1>7. CASE PressSends(d)
  BY <1>0, <1>k, <1>7 DEF PressSends
<1>8. CASE ContactRemoved(d)
  BY <1>0, <1>k, <1>8 DEF ContactRemoved
<1>9. CASE Receive(d)
  BY <1>0, <1>k, <1>9 DEF Receive
<1>10. CASE Decrypts(d)
  BY <1>0, <1>k, <1>10 DEF Decrypts
<1>11. CASE DropsDuplicate(d)
  BY <1>0, <1>k, <1>11 DEF DropsDuplicate
<1>12. CASE LeavesUndecryptable(d)
  BY <1>0, <1>k, <1>12 DEF LeavesUndecryptable
<1>13. CASE SeesIdentityChange(d)
  BY <1>0, <1>k, <1>13 DEF SeesIdentityChange
<1>14. CASE ForgetsIdentity(d)
  BY <1>0, <1>k, <1>14 DEF ForgetsIdentity, Acks
<1>15. CASE HandlesConfirm(d)
  BY <1>0, <1>k, <1>15 DEF HandlesConfirm, Acks
<1>16. CASE HandlesOther(d)
  BY <1>0, <1>k, <1>16 DEF HandlesOther, Acks
<1>17. CASE Reconnect(d)
  BY <1>0, <1>k, <1>17 DEF Reconnect
<1>18. CASE Expire(d)
  BY <1>0, <1>k, <1>18 DEF Expire
<1>19. CASE Restart(d)
  BY <1>0, <1>k, <1>19 DEF Restart, Restarted
<1>20. CASE Migrate(d)
  BY <1>0, <1>k, <1>20 DEF Migrate, Restarted
<1>21. Same6
  BY <1>1, <1>2, <1>3, <1>4, <1>5, <1>6, <1>7, <1>8, <1>9, <1>10, <1>11, <1>12, <1>13, <1>14, <1>15, <1>16, <1>17, <1>18, <1>19, <1>20 DEF User, Screen, Chain, Environment
<1> QED BY <1>21

\* An identity is never replaced by an earlier one.
LEMMA OwnIdentity ==
    ASSUME Shape, NEW d \in Phone,
           User(d) \/ Screen(d) \/ Chain(d) \/ Reconnect(d) \/ Environment(d)
    PROVE  gen[d] \in Int /\ gen'[d] \in Int /\ gen[d] <= gen'[d]
<1> USE DEF device
<1>0. gen \in [Phone -> Gen] /\ gen[d] \in Nat
  BY Bounds DEF Shape, Types
<1>1. ASSUME gen' = gen PROVE gen[d] \in Int /\ gen'[d] \in Int /\ gen[d] <= gen'[d]
  BY <1>0, <1>1
<1>2. CASE User(d) \/ Screen(d)
  BY <1>1, <1>2 DEF User, AddContact, Press, RemoveContact, SendText, Screen, ContactAdded, Pressed,
                    PressSends, ContactRemoved
<1>3. CASE Chain(d)
  BY <1>1, <1>3 DEF Chain, Receive, Decrypts, DropsDuplicate, LeavesUndecryptable, SeesIdentityChange,
                    ForgetsIdentity, HandlesConfirm, HandlesOther
<1>4. CASE Reconnect(d) \/ Expire(d) \/ Restart(d)
  BY <1>1, <1>4 DEF Reconnect, Expire, Restart
<1>5. CASE Migrate(d)
  <2>1. gen'[d] = gen[d] + 1
    BY <1>0, <1>5 DEF Migrate
  <2> QED BY <1>0, <2>1
<1> QED BY <1>2, <1>3, <1>4, <1>5 DEF Environment

\* What was good stays good.
LEMMA GoodStays ==
    ASSUME NEW x \in Phone, gen'[x] = gen[x], \A y \in Phone : pressed[y] \subseteq pressed'[y]
    PROVE  /\ \A c : GoodRow(x, c) => GoodRow(x, c)'
           /\ \A m : GoodMail(x, m) => GoodMail(x, m)'
<1>1. pressed[x] \subseteq pressed'[x] /\ pressed[Peer(x)] \subseteq pressed'[Peer(x)]
  BY Peers
<1>2. ASSUME NEW c, GoodRow(x, c) PROVE GoodRow(x, c)'
  BY <1>1, <1>2 DEF GoodRow, PeerPressed
<1>3. ASSUME NEW m, GoodMail(x, m) PROVE GoodMail(x, m)'
  BY <1>1, <1>3 DEF GoodMail, PeerPressed
<1> QED BY <1>2, <1>3

\* The confirms in the queues go back to presses.
LEMMA MailGood ==
    ASSUME Shape, PressInv, NEW d \in Phone, \A x \in Phone : From(d, x),
           \A y \in Phone : pressed[y] \subseteq pressed'[y]
    PROVE  \A x \in Phone : \A i \in 1..Len(mail'[x]) : GoodMail(x, mail[x][i])'
<1> SUFFICES ASSUME NEW x \in Phone, NEW i \in 1..Len(mail'[x])
             PROVE  GoodMail(x, mail[x][i])'
  OBVIOUS
<1> DEFINE m == mail'[x][i]
<1>0. \A g : PeerPressed(x, g) => \E h \in Gen : <<h, g>> \in pressed'[Peer(x)]
  BY Peers DEF PeerPressed
<1>1. ASSUME NEW k \in 1..Len(mail[x]), Same(m, mail[x][k]), m.kind = "confirm"
      PROVE  \E h \in Gen : <<h, m.card>> \in pressed'[Peer(x)]
  <2>1. GoodMail(x, mail[x][k])
    BY DEF PressInv
  <2> QED BY <1>0, <1>1, <2>1 DEF GoodMail, Same
<1>2. ASSUME x = Peer(d), Fresh(d, m), m.kind = "confirm"
      PROVE  \E h \in Gen : <<h, m.card>> \in pressed'[Peer(x)]
  <2>1. PICK c : Speaks(d, c) /\ m.card = c.card /\ c.card # None
    BY <1>2 DEF Fresh
  <2>2. PressedRows(d)
    BY DEF PressInv
  <2>3. c.card = c.key /\ <<gen[d], c.key>> \in pressed[d]
    BY <2>1, <2>2 DEF PressedRows, Speaks, GoodRow, HoldsRow
  <2>4. Peer(x) = d /\ gen[d] \in Gen
    BY <1>2, Peers DEF Shape, Types
  <2> QED BY <2>1, <2>3, <2>4
<1>3. m.kind = "confirm" => \E h \in Gen : <<h, m.card>> \in pressed'[Peer(x)]
  BY <1>1, <1>2 DEF From
<1> QED BY <1>3 DEF GoodMail, PeerPressed

\* The rows of a phone, from what its contact and its two tasks become.
LEMMA PressedFrom ==
    ASSUME NEW d \in Phone, NEW c, NEW u, NEW r, NEW g,
           contact'[d] = c, ui'[d] = u, recv'[d] = r, gen'[d] = g,
           GoodRow(d, c)',
           u.step \in {"press", "pressed", "add"} => GoodRow(d, u.row)',
           u.step = "press" => Known(u.row) /\ u.row.key = c.key,
           u.step = "pressed" => Known(u.row) /\ <<g, u.row.key>> \in pressed'[d],
           r.step # "idle" =>
              /\ GoodRow(d, r.row)' /\ GoodMail(d, r.m)'
              /\ r.step = "confirm" => r.m.kind = "confirm"
              /\ r.live => Known(c)
    PROVE  PressedRows(d)'
BY DEF PressedRows, HoldsRow, GoodRow, GoodMail, PeerPressed, Known

\* The phone that does not act.
LEMMA PressedPeer ==
    ASSUME Shape, PressInv, NEW d \in Phone, Next,
           User(d) \/ Screen(d) \/ Chain(d) \/ Reconnect(d) \/ Environment(d)
    PROVE  PressedRows(Peer(d))'
<1> PICK x \in Phone : x = Peer(d)
  BY Peers
<1>1. PressedRows(x)
  BY DEF PressInv
<1>2. /\ contact'[x] = contact[x] /\ ui'[x] = ui[x] /\ recv'[x] = recv[x] /\ gen'[x] = gen[x]
  BY PeerUntouched
<1>3. \A y \in Phone : pressed[y] \subseteq pressed'[y]
  BY PressesGrow
<1>4. /\ \A c : GoodRow(x, c) => GoodRow(x, c)'
      /\ \A m : GoodMail(x, m) => GoodMail(x, m)'
  BY <1>2, <1>3, GoodStays
<1> PICK c, u, r, g : c = contact[x] /\ u = ui[x] /\ r = recv[x] /\ g = gen[x]
  OBVIOUS
<1>5. /\ GoodRow(x, c)
      /\ u.step \in {"press", "pressed", "add"} => GoodRow(x, u.row)
      /\ u.step = "press" => Known(u.row) /\ u.row.key = c.key
      /\ u.step = "pressed" => Known(u.row) /\ <<g, u.row.key>> \in pressed[x]
      /\ r.step # "idle" =>
            /\ GoodRow(x, r.row) /\ GoodMail(x, r.m)
            /\ r.step = "confirm" => r.m.kind = "confirm"
            /\ r.live => Known(c)
  BY <1>1 DEF PressedRows, HoldsRow
<1>6. PressedRows(x)'
  BY <1>2, <1>3, <1>4, <1>5, PressedFrom
<1> QED BY <1>6

\* The phone that acts, as long as its identity stays.
LEMMA PressedActor ==
    ASSUME Shape, PressInv, NEW d \in Phone, Next,
           User(d) \/ Screen(d) \/ Chain(d) \/ Reconnect(d) \/ Environment(d)
    PROVE  PressedRows(d)'
<1> USE DEF device, tasks, history
<1> PICK c, u, r, g : c = contact[d] /\ u = ui[d] /\ r = recv[d] /\ g = gen[d]
  OBVIOUS
<1>0. /\ \A y \in Phone : pressed[y] \subseteq pressed'[y]
      /\ contact \in [Phone -> Contact] /\ ui \in [Phone -> UiTask] /\ recv \in [Phone -> RecvTask]
      /\ gen \in [Phone -> Gen] /\ c \in Contact
  BY PressesGrow DEF Shape, Types
<1>r. r.step # "idle" =>
         r \in [step : {"read", "confirm", "other", "reset"}, row : Contact, m : Mail, live : BOOLEAN]
  BY Tasks DEF Shape
<1>i. Idle.step = "idle"
  BY DEF Idle
<1>p. /\ GoodRow(d, c)
      /\ u.step \in {"press", "pressed", "add"} => GoodRow(d, u.row)
      /\ u.step = "press" => Known(u.row) /\ u.row.key = c.key
      /\ u.step = "pressed" => Known(u.row) /\ <<g, u.row.key>> \in pressed'[d]
      /\ r.step # "idle" =>
            /\ GoodRow(d, r.row) /\ GoodMail(d, r.m)
            /\ r.step = "confirm" => r.m.kind = "confirm"
            /\ r.live => Known(c)
  BY <1>0 DEF PressInv, PressedRows, HoldsRow
<1>s. ASSUME gen'[d] = gen[d]
      PROVE  /\ \A x : GoodRow(d, x) => GoodRow(d, x)'
             /\ \A m : GoodMail(d, m) => GoodMail(d, m)'
  BY <1>0, <1>s, GoodStays
\* Nothing is held that was not held before.
<1>k. ASSUME contact'[d] = c, gen'[d] = g, ui'[d] = u \/ ui'[d] = Idle, recv'[d] = r \/ recv'[d] = Idle
      PROVE  PressedRows(d)'
  <2> PICK v, q : v = ui'[d] /\ q = recv'[d]
    OBVIOUS
  <2>1. /\ v.step \in {"press", "pressed", "add"} => GoodRow(d, v.row)'
        /\ v.step = "press" => Known(v.row) /\ v.row.key = c.key
        /\ v.step = "pressed" => Known(v.row) /\ <<g, v.row.key>> \in pressed'[d]
    BY <1>k, <1>p, <1>s, <1>i
  <2>2. q.step # "idle" =>
           /\ GoodRow(d, q.row)' /\ GoodMail(d, q.m)'
           /\ q.step = "confirm" => q.m.kind = "confirm"
           /\ q.live => Known(c)
    BY <1>k, <1>p, <1>s, <1>i
  <2> QED BY <1>k, <1>p, <1>s, <2>1, <2>2, PressedFrom
<1>1. CASE AddContact(d)
  <2> PICK v : v = ui'[d]
    OBVIOUS
  <2>1. /\ contact'[d] = c /\ gen'[d] = g /\ recv'[d] = r
        /\ v.step = "add" /\ v.row = c
    BY <1>1, <1>0 DEF AddContact
  <2> QED BY <2>1, <1>p, <1>s, PressedFrom, ZenonT(30)
<1>2. CASE Press(d)
  <2> PICK v : v = ui'[d]
    OBVIOUS
  <2>1. /\ contact'[d] = c /\ gen'[d] = g /\ recv'[d] = r
        /\ v.step = "press" /\ v.row = c /\ Known(c)
    BY <1>2, <1>0 DEF Press
  <2> QED BY <2>1, <1>p, <1>s, PressedFrom
<1>3. CASE RemoveContact(d)
  <2> PICK v : v = ui'[d]
    OBVIOUS
  <2>1. contact'[d] = c /\ gen'[d] = g /\ recv'[d] = r /\ v.step = "remove"
    BY <1>3, <1>0 DEF RemoveContact
  <2> QED BY <2>1, <1>p, <1>s, PressedFrom
<1>4. CASE SendText(d) \/ PressSends(d)
  <2>1. contact'[d] = c /\ gen'[d] = g /\ recv'[d] = r /\ (ui'[d] = u \/ ui'[d] = Idle)
    BY <1>4, <1>0 DEF SendText, PressSends
  <2> QED BY <2>1, <1>k
<1>5. CASE Reconnect(d) \/ Expire(d) \/ Restart(d)
  <2>1. contact'[d] = c /\ gen'[d] = g /\ (recv'[d] = r \/ recv'[d] = Idle) /\ (ui'[d] = u \/ ui'[d] = Idle)
    BY <1>5, <1>0 DEF Reconnect, Expire, Restart, Restarted
  <2> QED BY <2>1, <1>k
<1>6. CASE ContactAdded(d)
  <2> PICK e, v : e = contact'[d] /\ v = ui'[d]
    OBVIOUS
  <2>1. /\ e = UpsertContact(u.row, u.card) /\ gen'[d] = g /\ recv'[d] = r /\ v = Idle
        /\ u.step = "add" /\ u.card \in Gen
    BY <1>6, <1>0, Tasks DEF ContactAdded, Shape
  <2>2. Known(e)
    BY <2>1, Bounds DEF UpsertContact, Known
  <2>3. GoodRow(d, u.row)
    BY <1>p, <2>1
  <2>5. /\ e.key = u.card /\ e.card = u.card
        /\ e.local = (u.row.local /\ u.row.key = u.card)
        /\ e.peer = (u.row.peer /\ u.row.key = u.card)
    <3> PICK row, card : row = u.row /\ card = u.card
      OBVIOUS
    <3>1. /\ UpsertContact(row, card).key = card /\ UpsertContact(row, card).card = card
          /\ UpsertContact(row, card).local = (row.local /\ row.key = card)
          /\ UpsertContact(row, card).peer = (row.peer /\ row.key = card)
      BY DEF UpsertContact
    <3> QED BY <2>1, <3>1
  <2>4. GoodRow(d, e)
    BY <2>2, <2>3, <2>5, Zenon DEF GoodRow
  <2> QED BY <2>1, <2>2, <2>4, <1>p, <1>s, <1>i, PressedFrom, ZenonT(30)
<1>7. CASE Pressed(d)
  <2> PICK e, v : e = contact'[d] /\ v = ui'[d]
    OBVIOUS
  <2>1. /\ e = [c EXCEPT !.local = TRUE] /\ gen'[d] = g /\ recv'[d] = r
        /\ u.step = "press" /\ v = [u EXCEPT !.step = "pressed"]
        /\ pressed'[d] = pressed[d] \cup {<<g, u.row.key>>}
    BY <1>7, <1>0 DEF Pressed, Shape, Types
  <2>2. /\ e.key = c.key /\ e.peer = c.peer /\ e.card = c.card
        /\ v.step = "pressed" /\ v.row = u.row
    BY <2>1, <1>0, Tasks DEF Contact, Shape
  <2>3. Known(e) /\ GoodRow(d, c)'
    BY <1>p, <1>s, <2>1, <2>2 DEF Known
  <2>4. <<gen'[d], e.key>> \in pressed'[d]
    BY <1>p, <2>1, <2>2
  <2>5. GoodRow(d, e)'
    BY <2>2, <2>3, <2>4 DEF GoodRow, PeerPressed
  <2>6. Known(u.row) /\ u.row.key = e.key /\ GoodRow(d, u.row)' /\ <<g, u.row.key>> \in pressed'[d]
    BY <2>1, <2>2, <1>p, <1>s
  <2>7. /\ v.step \in {"press", "pressed", "add"} => GoodRow(d, v.row)'
        /\ v.step = "press" => Known(v.row) /\ v.row.key = e.key
        /\ v.step = "pressed" => Known(v.row) /\ <<g, v.row.key>> \in pressed'[d]
    BY <2>2, <2>6
  <2>8. r.step # "idle" =>
           /\ GoodRow(d, r.row)' /\ GoodMail(d, r.m)'
           /\ r.step = "confirm" => r.m.kind = "confirm"
           /\ r.live => Known(e)
    BY <1>p, <1>s, <2>1, <2>3
  <2> QED BY <2>1, <2>5, <2>7, <2>8, PressedFrom
<1>8. CASE ContactRemoved(d)
  <2> PICK e, v, q : e = contact'[d] /\ v = ui'[d] /\ q = recv'[d]
    OBVIOUS
  <2>1. e = NoContact /\ gen'[d] = g /\ v = Idle /\ q = IF r = Idle THEN r ELSE [r EXCEPT !.live = FALSE]
    BY <1>8, <1>0 DEF ContactRemoved
  <2>2. GoodRow(d, e)
    BY <2>1 DEF NoContact, GoodRow
  <2>3. r = Idle \/ (q.step = r.step /\ r.step # "idle" /\ q.row = r.row /\ q.m = r.m /\ q.live = FALSE)
    BY <2>1, <1>r, Tasks DEF Shape
  <2>4. q.step # "idle" => /\ GoodRow(d, q.row)' /\ GoodMail(d, q.m)'
                           /\ q.step = "confirm" => q.m.kind = "confirm"
                           /\ q.live => Known(e)
    BY <2>1, <2>3, <1>p, <1>s, <1>i
  <2> QED BY <2>1, <2>2, <2>4, <1>s, <1>i, PressedFrom
<1>9. CASE Receive(d)
  <2> PICK q : q = recv'[d]
    OBVIOUS
  <2>1. contact'[d] = c /\ gen'[d] = g /\ ui'[d] = u
    BY <1>9, <1>0 DEF Receive
  <2>2. CASE Known(c)
    <3>1. q.step = "read" /\ q.row = c /\ q.m = mail[d][pos[d]] /\ q.live = TRUE
      BY <1>9, <2>2, <1>0 DEF Receive
    <3>2. pos[d] \in 1..Len(mail[d])
      BY <1>9 DEF Receive, Shape, Position
    <3>3. GoodMail(d, mail[d][pos[d]])
      BY <3>2 DEF PressInv
    <3> QED BY <2>1, <2>2, <3>1, <3>3, <1>p, <1>s, PressedFrom
  <2>3. CASE ~Known(c)
    <3>1. q = r
      BY <1>9, <2>3 DEF Receive
    <3> QED BY <2>1, <3>1, <1>k
  <2> QED BY <2>2, <2>3
<1>10. CASE Decrypts(d)
  <2> PICK q : q = recv'[d]
    OBVIOUS
  <2>1. /\ contact'[d] = c /\ gen'[d] = g /\ ui'[d] = u /\ r.step = "read"
        /\ q = [r EXCEPT !.step = IF r.m.kind = "confirm" THEN "confirm" ELSE "other"]
    BY <1>10, <1>0 DEF Decrypts
  <2>2. q.row = r.row /\ q.m = r.m /\ q.live = r.live /\ (q.step = "confirm" => r.m.kind = "confirm")
    BY <2>1, <1>r
  <2>3. /\ GoodRow(d, q.row)' /\ GoodMail(d, q.m)'
        /\ q.step = "confirm" => q.m.kind = "confirm"
        /\ q.live => Known(c)
    BY <2>1, <2>2, <1>p, <1>s
  <2> QED BY <2>1, <2>3, <1>p, <1>s, PressedFrom
<1>11. CASE DropsDuplicate(d) \/ LeavesUndecryptable(d) \/ ForgetsIdentity(d) \/ HandlesOther(d)
  <2>1. contact'[d] = c /\ gen'[d] = g /\ recv'[d] = Idle /\ ui'[d] = u
    BY <1>11, <1>0 DEF DropsDuplicate, LeavesUndecryptable, ForgetsIdentity, HandlesOther, Acks
  <2> QED BY <2>1, <1>k
<1>12. CASE SeesIdentityChange(d)
  <2> PICK e, q : e = contact'[d] /\ q = recv'[d]
    OBVIOUS
  <2>1. /\ e = IF r.live THEN ResetVerification(c) ELSE c
        /\ gen'[d] = g /\ ui'[d] = u /\ r.step = "read" /\ q = [r EXCEPT !.step = "reset"]
    BY <1>12, <1>0 DEF SeesIdentityChange
  <2>2. q.row = r.row /\ q.m = r.m /\ q.live = r.live /\ q.step = "reset"
    BY <2>1, <1>r
  <2>3. GoodRow(d, e) /\ e.key = c.key
    BY <2>1, <1>0, <1>p DEF GoodRow, ResetVerification, Contact
  <2>4. /\ GoodRow(d, q.row)' /\ GoodMail(d, q.m)'
        /\ q.step # "confirm"
        /\ q.live => Known(e)
    BY <2>1, <2>2, <2>3, <1>p, <1>s DEF Known
  <2>5. /\ u.step \in {"press", "pressed", "add"} => GoodRow(d, u.row)'
        /\ u.step = "press" => Known(u.row) /\ u.row.key = e.key
    BY <2>1, <2>3, <1>p, <1>s
  <2> QED BY <2>1, <2>3, <2>4, <2>5, <1>p, <1>s, PressedFrom
<1>13. CASE HandlesConfirm(d)
  <2> PICK e : e = contact'[d]
    OBVIOUS
  <2>1. /\ e = [c EXCEPT !.peer = c.peer \/ (CardMatches(d, r.m) /\ ~r.row.peer /\ r.live)]
        /\ gen'[d] = g /\ ui'[d] = u /\ r.step = "confirm" /\ recv'[d] = Idle
    BY <1>13, <1>0 DEF HandlesConfirm, Acks
  <2>2. /\ e.key = c.key /\ e.local = c.local /\ e.card = c.card
        /\ e.peer => c.peer \/ (CardMatches(d, r.m) /\ r.live)
    BY <2>1, <1>0 DEF Contact
  <2>3. CardMatches(d, r.m) => PeerPressed(d, gen[d])
    BY <2>1, <1>p DEF CardMatches, GoodMail
  <2>4. GoodRow(d, e)
    BY <2>1, <2>2, <2>3, <1>p DEF GoodRow, Known
  <2>5. /\ u.step \in {"press", "pressed", "add"} => GoodRow(d, u.row)'
        /\ u.step = "press" => Known(u.row) /\ u.row.key = e.key
    BY <2>1, <2>2, <1>p, <1>s
  <2> QED BY <2>1, <2>4, <2>5, <1>p, <1>s, <1>i, PressedFrom
<1>14. CASE Migrate(d)
  <2> PICK e, v, q, h : e = contact'[d] /\ v = ui'[d] /\ q = recv'[d] /\ h = gen'[d]
    OBVIOUS
  <2>1. v = Idle /\ q = Idle /\ e = IF Known(c) THEN ResetVerification(c) ELSE c
    BY <1>14, <1>0 DEF Migrate, Restarted
  <2>2. GoodRow(d, e)'
    BY <2>1, <1>0, <1>p DEF GoodRow, ResetVerification, Contact, Known, PeerPressed
  <2> QED BY <2>1, <2>2, <1>i, PressedFrom
<1> QED
  BY <1>1, <1>2, <1>3, <1>4, <1>5, <1>6, <1>7, <1>8, <1>9, <1>10, <1>11, <1>12, <1>13, <1>14
  DEF User, Screen, Chain, Environment

LEMMA PressStep == Shape /\ PressInv /\ [Next]_vars => PressInv'
<1> SUFFICES ASSUME Shape, PressInv, [Next]_vars PROVE PressInv' OBVIOUS
<1>1. CASE UNCHANGED vars
  BY <1>1 DEF vars, device, tasks, history, PressInv, PressedRows, GoodRow, GoodMail, PeerPressed, HoldsRow
<1>2. CASE Next
  <2> PICK d \in Phone : User(d) \/ Screen(d) \/ Chain(d) \/ Reconnect(d) \/ Environment(d)
    BY <1>2 DEF Next
  <2>1. PressedRows(d)'
    BY <1>2, PressedActor
  <2>2. PressedRows(Peer(d))'
    BY <1>2, PressedPeer
  <2>3. \A x \in Phone : \A i \in 1..Len(mail'[x]) : GoodMail(x, mail[x][i])'
    BY <1>2, MailSources, PressesGrow, MailGood
  <2>4. ASSUME NEW x \in Phone PROVE PressedRows(x)'
    <3>1. CASE x = d
      BY <2>1, <3>1
    <3>2. CASE x = Peer(d)
      BY <2>2, <3>2
    <3> QED BY <3>1, <3>2, Peers
  <2> QED BY <2>3, <2>4 DEF PressInv
<1> QED BY <1>1, <1>2

LEMMA InitPress == Init => PressInv
<1> SUFFICES ASSUME Init, NEW d \in Phone
             PROVE  PressedRows(d) /\ \A i \in 1..Len(mail[d]) : GoodMail(d, mail[d][i])
  BY DEF PressInv
<1>1. /\ contact[d] = NoContact /\ ui[d] = Idle /\ recv[d] = Idle /\ mail[d] = <<>>
  BY DEF Init
<1>2. GoodRow(d, NoContact) /\ Idle.step = "idle"
  BY DEF GoodRow, NoContact, Idle
<1> QED BY <1>1, <1>2 DEF PressedRows, HoldsRow

LEMMA Pressing == Spec => [](Shape /\ PressInv)
BY InitShape, InitPress, ShapeStep, PressStep, PTL DEF Spec

\* A contact counts as confirmed by the peer only if the peer really pressed against
\* this phone's present identity.
THEOREM GenuineConfirms == Spec => []ConfirmIsGenuine
<1>1. Shape /\ PressInv => ConfirmIsGenuine
  BY DEF PressInv, PressedRows, GoodRow, PeerPressed, ConfirmIsGenuine
<1> QED BY <1>1, Pressing, PTL

-----------------------------------------------------------------------------
(* The receive gate.                                                       *)

LEMMA Identities == \A n \in Gen \cup {None} : n \in Int
BY Bounds DEF None

LEMMA GateActor ==
    ASSUME Shape, PressInv, GateInv, NEW d \in Phone,
           User(d) \/ Screen(d) \/ Chain(d) \/ Reconnect(d) \/ Environment(d)
    PROVE  GateRow(d)'
<1> USE DEF device, tasks, history
<1> PICK c, u, r, b, k : c = contact[d] /\ u = ui[d] /\ r = recv[d] /\ b = gen[Peer(d)] /\ k = heard[d]
  OBVIOUS
<1>n. \A x \in Contact : x.key \in Int
  BY Identities DEF Contact
<1>0. /\ contact \in [Phone -> Contact] /\ ui \in [Phone -> UiTask] /\ recv \in [Phone -> RecvTask]
      /\ heard \in [Phone -> BOOLEAN] /\ c \in Contact /\ c.key \in Int /\ b \in Nat
      /\ gen'[Peer(d)] = gen[Peer(d)] /\ (c.peer => Known(c))
  <2>1. /\ contact \in [Phone -> Contact] /\ ui \in [Phone -> UiTask] /\ recv \in [Phone -> RecvTask]
        /\ heard \in [Phone -> BOOLEAN] /\ c \in Contact /\ b \in Gen
    BY Peers DEF Shape, Types
  <2>2. c.key \in Int /\ b \in Nat
    BY <2>1, <1>n, Bounds
  <2>3. c.peer => Known(c)
    BY DEF PressInv, PressedRows, GoodRow
  <2> QED BY <2>1, <2>2, <2>3, PeerUntouched
<1>r. r.step # "idle" =>
         /\ r \in [step : {"read", "confirm", "other", "reset"}, row : Contact, m : Mail, live : BOOLEAN]
         /\ r.row.key \in Int
  BY <1>n, Tasks DEF Shape
<1>i. Idle.step = "idle"
  BY DEF Idle
<1>k. /\ c.key <= b /\ (c.peer => k)
      /\ u.step = "add" =>
            /\ u.row.key = c.key /\ c.key <= u.card /\ u.card <= b
            /\ c.local => u.row.local
            /\ u.row.peer => k
      /\ r.step # "idle" /\ r.live =>
            /\ r.row.key <= c.key
            /\ r.row.peer => k
            /\ r.step # "reset" /\ r.row.local /\ r.row.key = c.key => c.local
  BY DEF GateInv, GateRow
\* Nothing is held that was not held before.
<1>s. ASSUME contact'[d] = c, ui'[d] = u \/ ui'[d].step \in {"idle", "press", "pressed", "remove"},
             recv'[d] = r \/ recv'[d] = Idle, heard'[d] = heard[d]
      PROVE  GateRow(d)'
  <2>1. ui'[d].step = "add" => ui'[d] = u
    BY <1>s
  <2>2. recv'[d].step # "idle" => recv'[d] = r
    BY <1>i, <1>s
  <2> QED BY <1>0, <1>k, <1>s, <2>1, <2>2 DEF GateRow
<1>1. CASE AddContact(d)
  <2>1. /\ contact'[d] = c /\ recv'[d] = r /\ heard'[d] = k
        /\ ui'[d].step = "add" /\ ui'[d].row = c /\ ui'[d].card = b
    BY <1>0, <1>1 DEF AddContact
  <2> QED BY <1>0, <1>k, <2>1 DEF GateRow
<1>2. CASE Press(d) \/ RemoveContact(d)
  <2>1. ui'[d].step \in {"press", "remove"}
    BY <1>0, <1>2 DEF Press, RemoveContact
  <2> QED BY <1>2, <1>s, <2>1 DEF Press, RemoveContact
<1>3. CASE SendText(d) \/ Reconnect(d) \/ Expire(d)
  BY <1>3, <1>s DEF SendText, Reconnect, Expire
<1>4. CASE PressSends(d) \/ Restart(d)
  <2>1. ui'[d].step = "idle" /\ (recv'[d] = r \/ recv'[d] = Idle)
    BY <1>0, <1>4, <1>i DEF PressSends, Restart, Restarted
  <2> QED BY <1>4, <1>s, <2>1 DEF PressSends, Restart, Restarted
<1>5. CASE ContactAdded(d)
  <2> PICK e : e = contact'[d]
    OBVIOUS
  <2>1. /\ e = UpsertContact(u.row, u.card) /\ ui'[d] = Idle /\ recv'[d] = r /\ heard'[d] = k
        /\ u.step = "add" /\ u.card \in Nat
    BY <1>0, <1>5, Tasks, Bounds DEF ContactAdded, Shape
  <2>2. /\ e.key = u.card /\ e.local = (u.row.local /\ u.row.key = u.card)
        /\ e.peer = (u.row.peer /\ u.row.key = u.card)
    <3> PICK row, card : row = u.row /\ card = u.card
      OBVIOUS
    <3>1. /\ UpsertContact(row, card).key = card
          /\ UpsertContact(row, card).local = (row.local /\ row.key = card)
          /\ UpsertContact(row, card).peer = (row.peer /\ row.key = card)
      BY DEF UpsertContact
    <3> QED BY <2>1, <3>1
  <2>3. e.key <= b /\ (e.peer => k)
    BY <1>k, <2>1, <2>2
  <2>4. r.step # "idle" /\ r.live =>
           /\ r.row.key <= e.key
           /\ r.row.peer => k
           /\ r.step # "reset" /\ r.row.local /\ r.row.key = e.key => e.local
    <3> SUFFICES ASSUME r.step # "idle", r.live
                 PROVE  /\ r.row.key <= e.key
                        /\ r.row.peer => k
                        /\ r.step # "reset" /\ r.row.local /\ r.row.key = e.key => e.local
      OBVIOUS
    <3>1. r.row.key <= c.key /\ c.key <= u.card /\ u.row.key = c.key /\ r.row.key \in Int
      BY <1>k, <1>r, <2>1
    <3>2. r.row.key <= e.key /\ (r.row.key = e.key => c.key = u.card)
      BY <1>0, <2>1, <2>2, <3>1
    <3>3. r.step # "reset" /\ r.row.local /\ r.row.key = e.key => u.row.local /\ u.row.key = u.card
      BY <1>k, <2>1, <2>2, <3>1, <3>2
    <3> QED BY <1>k, <2>2, <3>2, <3>3
  <2> QED BY <1>0, <1>i, <2>1, <2>3, <2>4 DEF GateRow
<1>6. CASE Pressed(d)
  <2> PICK e, v : e = contact'[d] /\ v = ui'[d]
    OBVIOUS
  <2>1. /\ e = [c EXCEPT !.local = TRUE] /\ u.step = "press" /\ v = [u EXCEPT !.step = "pressed"]
        /\ recv'[d] = r /\ heard'[d] = k
    BY <1>0, <1>6 DEF Pressed
  <2>2. e.key = c.key /\ e.peer = c.peer /\ e.local = TRUE /\ v.step = "pressed"
    BY <1>0, <2>1, Tasks DEF Contact, Shape
  <2> QED BY <1>0, <1>k, <2>1, <2>2 DEF GateRow
<1>7. CASE ContactRemoved(d)
  <2> PICK e, q : e = contact'[d] /\ q = recv'[d]
    OBVIOUS
  <2>1. /\ e = NoContact /\ ui'[d] = Idle
        /\ q = IF r = Idle THEN r ELSE [r EXCEPT !.live = FALSE]
    BY <1>0, <1>7 DEF ContactRemoved
  <2>2. q.step = "idle" \/ ~q.live
    BY <1>i, <1>r, <2>1, Tasks DEF Shape
  <2>3. e.key = None /\ e.peer = FALSE /\ None <= b
    BY <1>0, <2>1 DEF NoContact, None
  <2> QED BY <1>0, <1>i, <2>1, <2>2, <2>3 DEF GateRow
<1>8. CASE Receive(d)
  <2>1. CASE Known(contact[d])
    <3>1. /\ recv'[d].row = c /\ contact'[d] = c /\ ui'[d] = u /\ heard'[d] = k
      BY <1>0, <1>8, <2>1 DEF Receive
    <3> QED BY <1>0, <1>k, <3>1 DEF GateRow
  <2>2. CASE ~Known(contact[d])
    BY <1>8, <1>s, <2>2 DEF Receive
  <2> QED BY <2>1, <2>2
<1>9. CASE Decrypts(d)
  <2> PICK q : q = recv'[d]
    OBVIOUS
  <2>1. /\ contact'[d] = c /\ ui'[d] = u /\ heard'[d] = k /\ r.step = "read"
        /\ q = [r EXCEPT !.step = IF r.m.kind = "confirm" THEN "confirm" ELSE "other"]
    BY <1>0, <1>9 DEF Decrypts
  <2>2. q.row = r.row /\ q.live = r.live
    BY <1>r, <2>1
  <2> QED BY <1>0, <1>k, <2>1, <2>2 DEF GateRow
<1>10. CASE DropsDuplicate(d) \/ LeavesUndecryptable(d) \/ ForgetsIdentity(d) \/ HandlesOther(d)
  <2>1. recv'[d] = Idle
    BY <1>0, <1>10 DEF DropsDuplicate, LeavesUndecryptable, ForgetsIdentity, HandlesOther, Acks
  <2> QED BY <1>10, <1>s, <2>1 DEF DropsDuplicate, LeavesUndecryptable, ForgetsIdentity, HandlesOther
<1>11. CASE SeesIdentityChange(d)
  <2> PICK e, q : e = contact'[d] /\ q = recv'[d]
    OBVIOUS
  <2>1. /\ e = IF r.live THEN ResetVerification(c) ELSE c
        /\ ui'[d] = u /\ heard'[d] = k /\ r.step = "read" /\ q = [r EXCEPT !.step = "reset"]
    BY <1>0, <1>11 DEF SeesIdentityChange
  <2>2. q.row = r.row /\ q.live = r.live /\ q.step = "reset"
    BY <1>r, <2>1
  <2>3. e.key = c.key /\ (e.peer => c.peer) /\ (e.local => c.local)
    BY <1>0, <2>1 DEF ResetVerification, Contact
  <2> QED BY <1>0, <1>k, <2>1, <2>2, <2>3 DEF GateRow
<1>12. CASE HandlesConfirm(d)
  <2> PICK e, h : e = contact'[d] /\ h = heard'[d]
    OBVIOUS
  <2>1. /\ e = [c EXCEPT !.peer = c.peer \/ (CardMatches(d, r.m) /\ ~r.row.peer /\ r.live)]
        /\ h = (k \/ (CardMatches(d, r.m) /\ r.live))
        /\ ui'[d] = u /\ recv'[d] = Idle
    BY <1>0, <1>12 DEF HandlesConfirm, Acks
  <2>2. /\ e.key = c.key /\ e.local = c.local
        /\ e.peer => c.peer \/ (CardMatches(d, r.m) /\ r.live)
    BY <1>0, <2>1 DEF Contact
  <2>3. (k => h) /\ (e.peer => h)
    BY <1>k, <2>1, <2>2
  <2> QED BY <1>0, <1>i, <1>k, <2>1, <2>2, <2>3 DEF GateRow
<1>13. CASE Migrate(d)
  <2> PICK e : e = contact'[d]
    OBVIOUS
  <2>1. /\ ui'[d] = Idle /\ recv'[d] = Idle /\ heard'[d] = FALSE
        /\ e = IF Known(c) THEN ResetVerification(c) ELSE c
    BY <1>0, <1>13 DEF Migrate, Restarted
  <2>2. e.key = c.key /\ ~e.peer
    BY <1>0, <2>1, <1>k DEF ResetVerification, Contact, Known
  <2> QED BY <1>0, <1>i, <1>k, <2>1, <2>2 DEF GateRow
<1> QED
  BY <1>1, <1>2, <1>3, <1>4, <1>5, <1>6, <1>7, <1>8, <1>9, <1>10, <1>11, <1>12, <1>13
  DEF User, Screen, Chain, Environment

LEMMA GateStep == Shape /\ PressInv /\ GateInv /\ [Next]_vars => GateInv'
<1> SUFFICES ASSUME Shape, PressInv, GateInv, [Next]_vars PROVE GateInv' OBVIOUS
<1>1. CASE UNCHANGED vars
  BY <1>1 DEF vars, device, tasks, history, GateInv, GateRow
<1>2. CASE Next
  <2> PICK d \in Phone : User(d) \/ Screen(d) \/ Chain(d) \/ Reconnect(d) \/ Environment(d)
    BY <1>2 DEF Next
  <2>1. GateRow(d)'
    BY GateActor
  <2>2. ASSUME NEW x \in Phone, x = Peer(d) PROVE GateRow(x)'
    <3>1. /\ contact'[x] = contact[x] /\ ui'[x] = ui[x] /\ recv'[x] = recv[x] /\ heard'[x] = heard[x]
      BY <2>2, PeerUntouched
    <3>2. gen[d] <= gen'[d] /\ Peer(x) = d /\ gen[d] \in Int /\ gen'[d] \in Int
      BY <2>2, Peers, OwnIdentity
    <3>3. /\ GateRow(x) /\ contact[x].key \in Int
          /\ ui[x].step = "add" => ui[x].card \in Int
      <4>1. contact[x].key \in Gen \cup {None} /\ (ui[x].step = "add" => ui[x].card \in Gen)
        BY Tasks DEF Shape, Types, Contact
      <4> QED BY <4>1, Identities DEF GateInv
    <3> QED BY <3>1, <3>2, <3>3 DEF GateRow
  <2> QED BY <2>1, <2>2, Peers DEF GateInv
<1> QED BY <1>1, <1>2

LEMMA InitGate == Init => GateInv
BY Peers DEF Init, GateInv, GateRow, NoContact, Idle, None

LEMMA Gating == Spec => [](Shape /\ PressInv /\ GateInv)
BY InitShape, InitPress, InitGate, ShapeStep, PressStep, GateStep, PTL DEF Spec

\* Content is stored only for a contact that is there, after both users pressed for the
\* present identity and while this user's press stands, although the gate judges a row
\* read before the decryption.
THEOREM StoredVerified == Spec => StoredOnlyVerified
<1>1. ASSUME Shape, PressInv, GateInv, [Next]_vars, NEW x \in Phone, ~stored[x], stored'[x]
      PROVE  Known(contact[x]) /\ PressedByBoth(x) /\ PressStands(x)
  <2>1. stored' # stored
    BY <1>1
  <2>2. PICK d \in Phone : User(d) \/ Screen(d) \/ Chain(d) \/ Reconnect(d) \/ Environment(d)
    BY <1>1, <2>1 DEF Next, vars, history
  <2>3. stored \in [Phone -> BOOLEAN]
    BY <1>1 DEF Shape, Types
  <2>4. Receive(d) \/ HandlesOther(d)
    <3> USE DEF history
    <3>1. ~User(d)
      BY <2>1 DEF User, AddContact, Press, RemoveContact, SendText
    <3>2. ~Screen(d)
      BY <2>1 DEF Screen, ContactAdded, Pressed, PressSends, ContactRemoved
    <3>3. ~Reconnect(d) /\ ~Environment(d)
      BY <2>1 DEF Reconnect, Environment, Expire, Restart, Migrate, Restarted
    <3>4. ~(Decrypts(d) \/ DropsDuplicate(d) \/ LeavesUndecryptable(d) \/ SeesIdentityChange(d)
            \/ ForgetsIdentity(d) \/ HandlesConfirm(d))
      BY <2>1 DEF Decrypts, DropsDuplicate, LeavesUndecryptable, SeesIdentityChange,
                  ForgetsIdentity, HandlesConfirm
    <3> QED BY <2>2, <3>1, <3>2, <3>3, <3>4 DEF Chain
  <2>5. ~Receive(d)
    BY <1>1, <2>3 DEF Receive
  <2>6. /\ recv[d].step = "other"
        /\ stored' = [stored EXCEPT ![d] = Stores(recv[d].row) /\ recv[d].live]
    BY <2>4, <2>5 DEF HandlesOther
  <2>7. x = d /\ Stores(recv[d].row) /\ recv[d].live
    BY <1>1, <2>3, <2>6
  <2>8. GoodRow(d, recv[d].row) /\ Known(contact[d]) /\ recv[d].row \in Contact /\ gen[d] \in Gen
    BY <1>1, <2>6, <2>7, Tasks DEF PressInv, PressedRows, Shape, Types
  <2>9. recv[d].row.key \in Gen /\ <<gen[d], recv[d].row.key>> \in pressed[d] /\ PeerPressed(d, gen[d])
    BY <2>7, <2>8 DEF Stores, IsMutuallyVerified, GoodRow, Known, Contact
  <2>10. heard[d] /\ PressStands(d)
    BY <1>1, <2>6, <2>7 DEF GateInv, GateRow, Stores, IsMutuallyVerified, PressStands
  <2> QED BY <2>7, <2>8, <2>9, <2>10 DEF PressedByBoth, PeerPressed
<1>2. Shape /\ PressInv /\ GateInv /\ [Next]_vars =>
         [\A d \in Phone : ~stored[d] /\ stored'[d] =>
            Known(contact[d]) /\ PressedByBoth(d) /\ PressStands(d)]_vars
  BY <1>1
<1> QED BY <1>2, Gating, PTL DEF Spec, StoredOnlyVerified

-----------------------------------------------------------------------------
(* Sessions.                                                               *)

\* What a phone sends runs in its current session.
LEMMA MailBegan ==
    ASSUME Shape, SessionInv, NEW d \in Phone, \A x \in Phone : From(d, x)
    PROVE  \A x \in Phone : \A i \in 1..Len(mail'[x]) : Began(x, mail'[x][i])
<1> SUFFICES ASSUME NEW x \in Phone, NEW i \in 1..Len(mail'[x])
             PROVE  Began(x, mail'[x][i])
  OBVIOUS
<1> DEFINE m == mail'[x][i]
<1>1. ASSUME NEW k \in 1..Len(mail[x]), Same(m, mail[x][k]) PROVE Began(x, m)
  <2>1. Began(x, mail[x][k])
    BY DEF SessionInv
  <2> QED BY <1>1, <2>1 DEF Began, Same
<1>2. ASSUME x = Peer(d), Fresh(d, m) PROVE Began(x, m)
  <2>1. /\ m.session \in session[d].cur /\ (m.type = "prekey" => session[d].open)
        /\ Peer(x) = d /\ SessionRows(d) /\ OneSession(session[d])
    BY <1>2, Peers DEF Fresh, SessionInv, Shape
  <2> HIDE DEF m
  <2> QED BY <2>1 DEF SessionRows, Records, OneSession, Began
<1> QED BY <1>1, <1>2 DEF From

\* The two openings of one pair of identities exclude each other.
LEMMA OneOpener ==
    ASSUME NEW d \in Phone, NEW s \in Session, NEW t \in Session, Opens(s), Opens(t),
           s.by = d, t.by = Peer(d), OwnEnd(d, s) = OwnEnd(d, t)
    PROVE  FarEnd(d, s) # FarEnd(d, t)
<1>1. Peer(d) \in Phone /\ Peer(d) # d /\ Peer(Peer(d)) = d
  BY Peers
<1>2. /\ s.from \in Gen /\ s.to \in Gen /\ t.from \in Gen /\ t.to \in Gen
      /\ s.from = t.to
  BY <1>1 DEF Session, OwnEnd
<1>3. KeyRank[d][s.from + 1] < KeyRank[Peer(d)][s.to + 1] /\ KeyRank[Peer(d)][t.from + 1] < KeyRank[d][t.to + 1]
  BY <1>1 DEF Opens
<1>4. /\ KeyRank[d][s.from + 1] \in Nat /\ KeyRank[Peer(d)][s.to + 1] \in Nat
      /\ KeyRank[Peer(d)][t.from + 1] \in Nat
  BY <1>1, <1>2, Bounds
<1>5. s.to # t.from
  BY <1>2, <1>3, <1>4
<1> QED BY <1>1, <1>5 DEF FarEnd

LEMMA DecryptsSession ==
    ASSUME Shape, SessionInv, NEW d \in Phone, Decrypts(d)
    PROVE  SessionRows(d)'
<1> PICK m, r, v : m = recv[d].m /\ r = session[d] /\ v = pin[d]
  OBVIOUS
<1>0. /\ recv[d].step = "read" /\ m \in Mail /\ r \in SessionState /\ v \in Gen \cup {None}
      /\ gen[d] \in Gen /\ Peer(d) # d
  BY Tasks, Peers DEF Decrypts, Shape, Types
<1>1. /\ Decryptable(d, m) /\ ~IdentityChanged(d, m) /\ gen' = gen
      /\ session'[d] = [cur |-> {m.session}, old |-> Records(d) \ {m.session},
                         open |-> r.open /\ m.type = "prekey"]
      /\ pin'[d] = IF v = None THEN m.session.from ELSE v
  BY DEF Decrypts, device, Shape, Types
<1>2. Records(d) = r.cur \cup r.old /\ Records(d) \subseteq Session
  BY <1>0 DEF Records, SessionState
<1>3. \A s \in Records(d) : Opens(s) /\ OwnEnd(d, s) = gen[d] /\ FarEnd(d, s) = v
  BY DEF SessionInv, SessionRows
<1>4. \A s \in Records(d) : v # None
  BY <1>2, <1>3, Bounds DEF Session, FarEnd
<1>5. Began(d, m) /\ m.session \in Session
  BY <1>0 DEF SessionInv, Mail
\* The session that decrypted is one of this pair of identities.
<1>6. OwnEnd(d, m.session) = gen[d] /\ FarEnd(d, m.session) = pin'[d]
  <2>1. CASE m.type = "prekey"
    <3>1. m.session.by = Peer(d) /\ m.session.to = gen[d] /\ v \in {None, m.session.from}
      BY <1>1, <1>5, <2>1 DEF Began, Decryptable, IdentityChanged
    <3> QED BY <1>0, <1>1, <3>1 DEF OwnEnd, FarEnd
  <2>2. CASE m.type # "prekey"
    <3>1. m.session \in Records(d)
      BY <1>1, <2>2 DEF Decryptable
    <3> QED BY <1>1, <1>3, <1>4, <3>1
  <2> QED BY <2>1, <2>2
<1>7. \A s \in Records(d) : pin'[d] = v
  BY <1>1, <1>4
<1>8. Records(d)' = {m.session} \cup Records(d)
  <2>1. Records(d)' = session'[d].cur \cup session'[d].old
    BY DEF Records
  <2> QED BY <1>1, <2>1
<1>9. ~session'[d].open
  <2> SUFFICES ASSUME r.open, m.type = "prekey" PROVE FALSE
    <3>1. session'[d].open = (r.open /\ m.type = "prekey")
      BY <1>1
    <3> QED BY <3>1, Zenon
  <2>1. PICK s \in Records(d) : s.by = d
    BY <1>2 DEF SessionInv, SessionRows
  <2>2. s \in Session /\ Opens(s) /\ OwnEnd(d, s) = gen[d] /\ FarEnd(d, s) = pin'[d]
    BY <1>2, <1>3, <1>7
  <2>3. m.session.by = Peer(d) /\ Opens(m.session)
    BY <1>5 DEF Began
  <2> QED BY <1>5, <1>6, <2>1, <2>2, <2>3, OneOpener
<1>10. \A s \in Records(d)' : Opens(s) /\ OwnEnd(d, s) = gen'[d] /\ FarEnd(d, s) = pin'[d]
  BY <1>1, <1>3, <1>5, <1>6, <1>7, <1>8 DEF Began
<1> QED BY <1>9, <1>10 DEF SessionRows

\* The session record of the phone that acts.
LEMMA ActorSession ==
    ASSUME Shape, SessionInv, NEW d \in Phone,
           User(d) \/ Screen(d) \/ Chain(d) \/ Reconnect(d) \/ Environment(d)
    PROVE  SessionRows(d)'
<1> USE DEF device
<1>0. /\ gen \in [Phone -> Gen] /\ session \in [Phone -> SessionState]
      /\ pin \in [Phone -> Gen \cup {None}]
  BY DEF Shape, Types
<1>1. ASSUME session'[d] = session[d], pin'[d] = pin[d], gen'[d] = gen[d] PROVE SessionRows(d)'
  <2>1. SessionRows(d)
    BY DEF SessionInv
  <2> QED BY <1>1, <2>1 DEF SessionRows, Records
<1>2. ASSUME session'[d] = NoSession PROVE SessionRows(d)'
  BY <1>2 DEF NoSession, SessionRows, Records
<1>3. CASE AddContact(d)
  <2> DEFINE card == gen[Peer(d)]
             new == NewSession(d, card)
  <2>1. CASE /\ session' = [session EXCEPT ![d] = [cur |-> {new}, old |-> {}, open |-> TRUE]]
             /\ pin' = [pin EXCEPT ![d] = card] /\ gen' = gen /\ Initiates(d, card)
    <3>1. new.by = d /\ new.from = gen[d] /\ new.to = card
      BY DEF NewSession
    <3> HIDE DEF new
    <3>2. Opens(new) /\ OwnEnd(d, new) = gen[d] /\ FarEnd(d, new) = card
      BY <2>1, <3>1 DEF Opens, OwnEnd, FarEnd, Initiates
    <3>3. /\ session'[d] = [cur |-> {new}, old |-> {}, open |-> TRUE]
          /\ pin'[d] = card /\ gen'[d] = gen[d]
      BY <1>0, <2>1
    <3> HIDE DEF card
    <3>4. /\ session'[d].cur = {new} /\ session'[d].old = {}
      BY <3>3
    <3> QED BY <3>1, <3>2, <3>3, <3>4 DEF SessionRows, Records
  <2>2. CASE session'[d] = NoSession
    BY <1>2, <2>2
  <2>3. CASE session'[d] = session[d] /\ pin'[d] = pin[d] /\ gen'[d] = gen[d]
    BY <1>1, <2>3
  <2> QED BY <1>0, <1>3, <2>1, <2>2, <2>3 DEF AddContact
<1>4. CASE RemoveContact(d)
  BY <1>0, <1>2, <1>4 DEF RemoveContact, ForgetPeer
<1>5. CASE Press(d) \/ SendText(d) \/ Screen(d)
  BY <1>1, <1>5 DEF Press, SendText, Screen, ContactAdded, Pressed, PressSends, ContactRemoved
<1>6. CASE Decrypts(d)
  BY <1>6, DecryptsSession
<1>7. CASE ForgetsIdentity(d)
  BY <1>0, <1>2, <1>7 DEF ForgetsIdentity
<1>8. CASE Receive(d) \/ DropsDuplicate(d) \/ LeavesUndecryptable(d) \/ SeesIdentityChange(d)
           \/ HandlesConfirm(d) \/ HandlesOther(d)
  BY <1>1, <1>8 DEF Receive, DropsDuplicate, LeavesUndecryptable, SeesIdentityChange,
                    HandlesConfirm, HandlesOther
<1>9. CASE Reconnect(d) \/ Expire(d) \/ Restart(d)
  BY <1>1, <1>9 DEF Reconnect, Expire, Restart
<1>10. CASE Migrate(d)
  BY <1>0, <1>2, <1>10 DEF Migrate
<1> QED
  BY <1>3, <1>4, <1>5, <1>6, <1>7, <1>8, <1>9, <1>10 DEF User, Chain, Environment

\* The envelope the receive chain of the phone that acts is at.
LEMMA ActorEnvelope ==
    ASSUME Shape, SessionInv, NEW d \in Phone,
           User(d) \/ Screen(d) \/ Chain(d) \/ Reconnect(d) \/ Environment(d)
    PROVE  recv'[d].step # "idle" => Began(d, recv'[d].m)
<1> USE DEF tasks
<1>0. recv \in [Phone -> RecvTask] /\ (recv[d].step # "idle" => Began(d, recv[d].m)) /\ Idle.step = "idle"
  BY DEF Shape, Types, SessionInv, Idle
<1>r. recv[d].step # "idle" =>
         recv[d] \in [step : {"read", "confirm", "other", "reset"}, row : Contact, m : Mail, live : BOOLEAN]
  BY Tasks DEF Shape
<1>1. ASSUME recv'[d] = recv[d] \/ recv'[d] = Idle PROVE recv'[d].step # "idle" => Began(d, recv'[d].m)
  BY <1>0, <1>1
<1>2. CASE User(d) \/ ContactAdded(d) \/ Pressed(d) \/ PressSends(d)
  BY <1>1, <1>2 DEF User, AddContact, Press, RemoveContact, SendText, ContactAdded, Pressed, PressSends
<1>3. CASE ContactRemoved(d)
  <2>1. recv'[d] = IF recv[d] = Idle THEN recv[d] ELSE [recv[d] EXCEPT !.live = FALSE]
    BY <1>0, <1>3 DEF ContactRemoved
  <2>2. recv[d] = Idle \/ (recv[d].step # "idle" /\ recv'[d].m = recv[d].m)
    BY <1>r, <2>1, Tasks DEF Shape
  <2> QED BY <1>0, <2>1, <2>2
<1>4. CASE Receive(d)
  <2>1. CASE Known(contact[d])
    <3>1. recv'[d].m = mail[d][pos[d]]
      BY <1>0, <1>4, <2>1 DEF Receive
    <3>2. pos[d] \in 1..Len(mail[d])
      BY <1>4 DEF Receive, Shape, Position
    <3>3. Began(d, mail[d][pos[d]])
      BY <3>2 DEF SessionInv
    <3> QED BY <3>1, <3>3
  <2>2. CASE ~Known(contact[d])
    BY <1>1, <1>4, <2>2 DEF Receive
  <2> QED BY <2>1, <2>2
<1>5. CASE Decrypts(d) \/ SeesIdentityChange(d)
  <2>1. recv[d].step = "read" /\ \E st : recv' = [recv EXCEPT ![d] = [recv[d] EXCEPT !.step = st]]
    BY <1>5 DEF Decrypts, SeesIdentityChange
  <2>2. recv'[d].m = recv[d].m
    BY <1>0, <1>r, <2>1
  <2> QED BY <1>0, <2>1, <2>2
<1>6. CASE DropsDuplicate(d) \/ LeavesUndecryptable(d) \/ ForgetsIdentity(d) \/ HandlesConfirm(d)
           \/ HandlesOther(d)
  <2>1. recv' = [recv EXCEPT ![d] = Idle]
    BY <1>6 DEF DropsDuplicate, LeavesUndecryptable, ForgetsIdentity, HandlesConfirm, HandlesOther, Acks
  <2> QED BY <1>0, <1>1, <2>1
<1>7. CASE Reconnect(d) \/ Environment(d)
  <2>1. recv' = recv \/ recv' = [recv EXCEPT ![d] = Idle]
    BY <1>7 DEF Reconnect, Environment, Expire, Restart, Migrate, Restarted
  <2> QED BY <1>0, <1>1, <2>1
<1> QED BY <1>2, <1>3, <1>4, <1>5, <1>6, <1>7 DEF Screen, Chain

LEMMA SessionStep == Shape /\ SessionInv /\ [Next]_vars => SessionInv'
<1> SUFFICES ASSUME Shape, SessionInv, [Next]_vars PROVE SessionInv' OBVIOUS
<1>1. CASE UNCHANGED vars
  BY <1>1 DEF vars, device, tasks, SessionInv, SessionRows, Records
<1>2. CASE Next
  <2> PICK d \in Phone : User(d) \/ Screen(d) \/ Chain(d) \/ Reconnect(d) \/ Environment(d)
    BY <1>2 DEF Next
  <2>1. \A x \in Phone : \A i \in 1..Len(mail'[x]) : Began(x, mail'[x][i])
    BY MailSources, MailBegan
  <2>2. SessionRows(d)' /\ (recv'[d].step # "idle" => Began(d, recv'[d].m))
    BY ActorSession, ActorEnvelope
  <2>3. ASSUME NEW x \in Phone, x = Peer(d)
        PROVE  SessionRows(x)' /\ (recv'[x].step # "idle" => Began(x, recv'[x].m))
    <3>1. /\ recv'[x] = recv[x] /\ gen'[x] = gen[x] /\ session'[x] = session[x] /\ pin'[x] = pin[x]
      BY <2>3, PeerUntouched
    <3>2. SessionRows(x) /\ (recv[x].step # "idle" => Began(x, recv[x].m))
      BY DEF SessionInv
    <3> QED BY <3>1, <3>2 DEF SessionRows, Records
  <2>4. ASSUME NEW x \in Phone
        PROVE  SessionRows(x)' /\ (recv'[x].step # "idle" => Began(x, recv'[x].m))
    BY <2>2, <2>3, Peers
  <2> QED BY <2>1, <2>4 DEF SessionInv
<1> QED BY <1>1, <1>2

LEMMA InitSession == Init => SessionInv
BY DEF Init, SessionInv, SessionRows, Records, NoSession, Idle

-----------------------------------------------------------------------------
(* Rows and sessions.                                                      *)

LEMMA KeptActor ==
    ASSUME Shape, KeptInv, Undisturbed, NEW d \in Phone, scene' = scene,
           User(d) \/ Screen(d) \/ Chain(d) \/ Reconnect(d) \/ Environment(d)
    PROVE  KeptRow(d)'
<1> USE DEF device, tasks
<1> PICK c, u, r, s : c = contact[d] /\ u = ui[d] /\ r = recv[d] /\ s = session[d]
  OBVIOUS
<1>0. /\ contact \in [Phone -> Contact] /\ ui \in [Phone -> UiTask] /\ recv \in [Phone -> RecvTask]
      /\ gen \in [Phone -> Gen] /\ session \in [Phone -> SessionState]
      /\ pin \in [Phone -> Gen \cup {None}] /\ c \in Contact
  BY DEF Shape, Types
<1>r. r.step # "idle" =>
         r \in [step : {"read", "confirm", "other", "reset"}, row : Contact, m : Mail, live : BOOLEAN]
  BY Tasks DEF Shape
<1>i. Idle.step = "idle"
  BY DEF Idle
<1>k. /\ gen[d] = 0 /\ pin[d] \in {None, 0} /\ c.key \in {None, 0}
      /\ c.peer => s.cur # {} \/ u.step = "remove"
      /\ u.step = "add" => u.card = 0 /\ (u.row.peer => s.cur # {})
      /\ r.step # "reset"
      /\ \A t \in s.cur \cup s.old : t.from = 0
      /\ r.step # "idle" => r.m.session.from = 0
      /\ r.step = "confirm" /\ r.live => s.cur # {} \/ u.step = "remove"
      /\ u.step = "remove" => "remove" \in scene.kinds
      /\ gen[Peer(d)] = 0
  BY Peers DEF KeptInv, KeptRow, HasSession, Removing, Records
\* The stores stay, and what is no longer removed was not being removed.
<1>s. ASSUME contact'[d] = c, gen'[d] = gen[d], pin'[d] = pin[d], session'[d] = s,
             ui'[d] = u \/ (u.step # "remove" /\ ui'[d].step \in {"idle", "press", "pressed"}),
             recv'[d] = r \/ recv'[d] = Idle
      PROVE  KeptRow(d)'
  <2> PICK v, q : v = ui'[d] /\ q = recv'[d]
    OBVIOUS
  <2>1. q.step = "idle" \/ q = r
    BY <1>s, <1>i
  <2>2. /\ c.peer => s.cur # {} \/ v.step = "remove"
        /\ v.step = "add" => v.card = 0 /\ (v.row.peer => s.cur # {})
        /\ v.step = "remove" => "remove" \in scene.kinds
        /\ r.step = "confirm" /\ r.live => s.cur # {} \/ v.step = "remove"
    BY <1>k, <1>s
  <2> QED BY <1>k, <1>s, <2>1, <2>2 DEF KeptRow, HasSession, Removing, Records
<1>1. CASE AddContact(d)
  <2> PICK v, t : v = ui'[d] /\ t = session'[d]
    OBVIOUS
  <2>1. ~(Known(c) /\ c.key # gen[Peer(d)])
    BY <1>k DEF Known
  <2>2. /\ contact'[d] = c /\ gen'[d] = gen[d] /\ recv'[d] = r /\ u.step = "idle"
        /\ v.step = "add" /\ v.row = c /\ v.card = 0
    BY <1>0, <1>1, <1>k DEF AddContact
  <2>3. \/ t = s /\ pin'[d] = pin[d]
        \/ t = [cur |-> {NewSession(d, gen[Peer(d)])}, old |-> {}, open |-> TRUE] /\ pin'[d] = gen[Peer(d)]
    BY <1>0, <1>1, <2>1 DEF AddContact
  <2>4. /\ pin'[d] \in {None, 0} /\ (s.cur # {} => t.cur # {})
        /\ \A x \in t.cur \cup t.old : x.from = 0
    <3>1. NewSession(d, gen[Peer(d)]).from = 0
      BY <1>k DEF NewSession
    <3>2. CASE t = s /\ pin'[d] = pin[d]
      BY <1>k, <3>2
    <3>3. ASSUME NEW n, n.from = 0, t = [cur |-> {n}, old |-> {}, open |-> TRUE], pin'[d] = 0
          PROVE  /\ pin'[d] \in {None, 0} /\ (s.cur # {} => t.cur # {})
                 /\ \A x \in t.cur \cup t.old : x.from = 0
      <4>1. t.cur = {n} /\ t.old = {}
        BY <3>3
      <4> QED BY <3>3, <4>1
    <3> QED BY <1>k, <2>3, <3>1, <3>2, <3>3
  <2>5. c.peer => t.cur # {}
    BY <1>k, <2>2, <2>4
  <2>6. r.step = "confirm" /\ r.live => t.cur # {}
    BY <1>k, <2>2, <2>4
  <2> QED BY <1>k, <2>2, <2>4, <2>5, <2>6 DEF KeptRow, HasSession, Removing, Records
<1>2. CASE Press(d)
  <2>1. ui'[d].step = "press" /\ u.step = "idle"
    BY <1>0, <1>2 DEF Press
  <2> QED BY <1>2, <1>s, <2>1 DEF Press
<1>3. CASE RemoveContact(d)
  <2> PICK v, t : v = ui'[d] /\ t = session'[d]
    OBVIOUS
  <2>1. /\ contact'[d] = c /\ gen'[d] = gen[d] /\ recv'[d] = r /\ v.step = "remove"
        /\ t = NoSession /\ pin'[d] = None /\ "remove" \in scene.kinds
    BY <1>0, <1>3 DEF RemoveContact, ForgetPeer, Disrupt
  <2>2. t.cur \cup t.old = {}
    BY <2>1 DEF NoSession
  <2> QED BY <1>k, <2>1, <2>2 DEF KeptRow, HasSession, Removing, Records
<1>4. CASE SendText(d) \/ Reconnect(d) \/ Expire(d)
  BY <1>4, <1>s DEF SendText, Reconnect, Expire
<1>5. CASE PressSends(d)
  <2>1. ui'[d] = Idle /\ u.step = "pressed"
    BY <1>0, <1>5 DEF PressSends
  <2> QED BY <1>5, <1>i, <1>s, <2>1 DEF PressSends
<1>6. CASE ContactAdded(d)
  <2> PICK e, v : e = contact'[d] /\ v = ui'[d]
    OBVIOUS
  <2>1. /\ e = UpsertContact(u.row, u.card) /\ v = Idle /\ u.step = "add" /\ u.card = 0
        /\ gen'[d] = gen[d] /\ recv'[d] = r /\ session'[d] = s /\ pin'[d] = pin[d]
    BY <1>0, <1>6, <1>k DEF ContactAdded
  <2>2. e.key = 0 /\ (e.peer => u.row.peer)
    <3> PICK row, card : row = u.row /\ card = u.card
      OBVIOUS
    <3>1. /\ UpsertContact(row, card).key = card
          /\ UpsertContact(row, card).peer = (row.peer /\ row.key = card)
      BY DEF UpsertContact
    <3> QED BY <2>1, <3>1
  <2>3. e.peer => s.cur # {}
    BY <1>k, <2>1, <2>2
  <2> QED BY <1>i, <1>k, <2>1, <2>2, <2>3 DEF KeptRow, HasSession, Removing, Records
<1>7. CASE Pressed(d)
  <2> PICK e, v : e = contact'[d] /\ v = ui'[d]
    OBVIOUS
  <2>1. /\ e = [c EXCEPT !.local = TRUE] /\ u.step = "press" /\ v = [u EXCEPT !.step = "pressed"]
        /\ gen'[d] = gen[d] /\ recv'[d] = r /\ session'[d] = s /\ pin'[d] = pin[d]
    BY <1>0, <1>7 DEF Pressed
  <2>2. e.key = c.key /\ e.peer = c.peer /\ v.step = "pressed"
    BY <1>0, <2>1, Tasks DEF Contact, Shape
  <2> QED BY <1>k, <2>1, <2>2 DEF KeptRow, HasSession, Removing, Records
<1>8. CASE ContactRemoved(d)
  <2> PICK e, v, q : e = contact'[d] /\ v = ui'[d] /\ q = recv'[d]
    OBVIOUS
  <2>1. /\ e = NoContact /\ v = Idle /\ gen'[d] = gen[d] /\ session'[d] = s /\ pin'[d] = pin[d]
        /\ q = IF r = Idle THEN r ELSE [r EXCEPT !.live = FALSE]
    BY <1>0, <1>8 DEF ContactRemoved
  <2>2. q.step = "idle" \/ (q.step = r.step /\ r.step # "idle" /\ q.m = r.m /\ q.live = FALSE)
    BY <1>i, <1>r, <2>1, Tasks DEF Shape
  <2>3. e.key = None /\ ~e.peer
    BY <2>1 DEF NoContact
  <2> QED BY <1>i, <1>k, <2>1, <2>2, <2>3 DEF KeptRow, HasSession, Removing, Records
<1>9. CASE Receive(d)
  <2> PICK q : q = recv'[d]
    OBVIOUS
  <2>1. CASE Known(contact[d])
    <3>1. q.step = "read" /\ q.m = mail[d][pos[d]]
      BY <1>0, <1>9, <2>1 DEF Receive
    <3>2. pos[d] \in 1..Len(mail[d])
      BY <1>9 DEF Receive, Shape, Position
    <3>3. q.m.session.from = 0
      BY <3>1, <3>2 DEF KeptInv
    <3>4. contact'[d] = c /\ gen'[d] = gen[d] /\ ui'[d] = u /\ session'[d] = s /\ pin'[d] = pin[d]
      BY <1>9 DEF Receive
    <3> QED BY <1>k, <3>1, <3>3, <3>4 DEF KeptRow, HasSession, Removing, Records
  <2>2. CASE ~Known(contact[d])
    BY <1>9, <1>s, <2>2 DEF Receive
  <2> QED BY <2>1, <2>2
<1>10. CASE Decrypts(d)
  <2> PICK q, t : q = recv'[d] /\ t = session'[d]
    OBVIOUS
  <2>1. /\ contact'[d] = c /\ gen'[d] = gen[d] /\ ui'[d] = u /\ r.step = "read"
        /\ t = [cur |-> {r.m.session}, old |-> Records(d) \ {r.m.session},
                open |-> s.open /\ r.m.type = "prekey"]
        /\ pin'[d] = IF pin[d] = None THEN r.m.session.from ELSE pin[d]
        /\ q = [r EXCEPT !.step = IF r.m.kind = "confirm" THEN "confirm" ELSE "other"]
    BY <1>0, <1>10 DEF Decrypts
  <2>2. q.step \in {"confirm", "other"} /\ q.m = r.m /\ q.live = r.live
    BY <1>r, <2>1
  <2>3. t.cur = {r.m.session} /\ t.old = Records(d) \ {r.m.session}
    BY <2>1
  <2>4. /\ t.cur # {} /\ \A x \in t.cur \cup t.old : x.from = 0
    BY <1>k, <2>1, <2>3 DEF Records
  <2>5. pin'[d] \in {None, 0}
    BY <1>k, <2>1
  <2> QED BY <1>k, <2>1, <2>2, <2>4, <2>5 DEF KeptRow, HasSession, Removing, Records
<1>11. CASE DropsDuplicate(d) \/ LeavesUndecryptable(d) \/ HandlesOther(d)
  <2>1. recv'[d] = Idle
    BY <1>0, <1>11 DEF DropsDuplicate, LeavesUndecryptable, HandlesOther, Acks
  <2> QED BY <1>11, <1>s, <2>1 DEF DropsDuplicate, LeavesUndecryptable, HandlesOther
\* The peer's identity is the one that is pinned.
<1>12. ~SeesIdentityChange(d) /\ ~ForgetsIdentity(d)
  BY <1>k DEF SeesIdentityChange, ForgetsIdentity, IdentityChanged
<1>13. CASE HandlesConfirm(d)
  <2> PICK e : e = contact'[d]
    OBVIOUS
  <2>1. /\ e = [c EXCEPT !.peer = c.peer \/ (CardMatches(d, r.m) /\ ~r.row.peer /\ r.live)]
        /\ gen'[d] = gen[d] /\ ui'[d] = u /\ r.step = "confirm" /\ recv'[d] = Idle
        /\ session'[d] = s /\ pin'[d] = pin[d]
    BY <1>0, <1>13 DEF HandlesConfirm, Acks
  <2>2. e.key = c.key /\ (e.peer => c.peer \/ r.live)
    BY <1>0, <2>1 DEF Contact
  <2>3. e.peer => s.cur # {} \/ u.step = "remove"
    BY <1>k, <2>1, <2>2
  <2> QED BY <1>i, <1>k, <2>1, <2>2, <2>3 DEF KeptRow, HasSession, Removing, Records
<1>14. CASE Restart(d)
  <2>1. u.step # "remove" /\ ui'[d] = Idle /\ recv'[d] = Idle
    BY <1>0, <1>14, <1>k DEF Restart, Restarted, Disrupt, Undisturbed
  <2> QED BY <1>14, <1>i, <1>s, <2>1 DEF Restart
<1>15. ~Migrate(d)
  BY DEF Migrate, Disrupt, Undisturbed
<1> QED
  BY <1>1, <1>2, <1>3, <1>4, <1>5, <1>6, <1>7, <1>8, <1>9, <1>10, <1>11, <1>12, <1>13, <1>14, <1>15
  DEF User, Screen, Chain, Environment

LEMMA KeptStep == Shape /\ KeptInv /\ [Next]_vars => KeptInv'
<1> SUFFICES ASSUME Shape, KeptInv, [Next]_vars PROVE KeptInv' OBVIOUS
<1>1. CASE UNCHANGED vars
  BY <1>1 DEF vars, device, tasks, KeptInv, KeptRow, Records, Removing, HasSession, Undisturbed
<1>2. CASE Next
  <2>0. scene' = scene
    BY <1>2 DEF Next
  <2> SUFFICES ASSUME Undisturbed
               PROVE  \A x \in Phone : /\ KeptRow(x)'
                                       /\ \A i \in 1..Len(mail'[x]) : mail'[x][i].session.from = 0
    BY <2>0 DEF KeptInv, Undisturbed
  <2> PICK d \in Phone : User(d) \/ Screen(d) \/ Chain(d) \/ Reconnect(d) \/ Environment(d)
    BY <1>2 DEF Next
  <2>1. KeptRow(d)'
    BY <2>0, KeptActor
  <2>2. ASSUME NEW x \in Phone, x = Peer(d) PROVE KeptRow(x)'
    <3>1. /\ contact'[x] = contact[x] /\ ui'[x] = ui[x] /\ recv'[x] = recv[x]
          /\ gen'[x] = gen[x] /\ session'[x] = session[x] /\ pin'[x] = pin[x]
      BY <2>2, PeerUntouched
    <3>2. KeptRow(x)
      BY DEF KeptInv
    <3> QED BY <2>0, <3>1, <3>2 DEF KeptRow, Records, HasSession, Removing
  <2>3. ASSUME NEW x \in Phone, NEW i \in 1..Len(mail'[x]) PROVE mail'[x][i].session.from = 0
    <3>1. \A k \in 1..Len(mail[x]) : mail[x][k].session.from = 0
      BY DEF KeptInv
    <3>2. \A s \in session[d].cur : s.from = 0
      BY DEF KeptInv, KeptRow, Records
    <3> QED BY <3>1, <3>2, MailSources DEF From, Same, Fresh
  <2> QED BY <2>1, <2>2, <2>3, Peers
<1> QED BY <1>1, <1>2

LEMMA InitKept == Init => KeptInv
BY DEF Init, KeptInv, KeptRow, Records, NoSession, NoContact, Idle, Removing

\* Contact row, session record and pinned identity never contradict each other, although
\* the screens and the receive chain write them at different times.
THEOREM StoresNeverDisagree == Spec => []StoresAgree
<1>1. Shape /\ SessionInv => SessionUnderPin
  BY DEF SessionInv, SessionRows, SessionUnderPin, FarEnd
<1>2. Shape /\ KeptInv => (Undisturbed => VerifiedHasSession)
  BY DEF KeptInv, KeptRow, Removing, VerifiedHasSession, IsMutuallyVerified
<1>3. Spec => [](Shape /\ SessionInv /\ KeptInv)
  BY InitShape, InitSession, InitKept, ShapeStep, SessionStep, KeptStep, PTL DEF Spec
<1> QED BY <1>1, <1>2, <1>3, PTL DEF StoresAgree
=============================================================================
