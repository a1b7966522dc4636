---------------------------- MODULE Verification ----------------------------
(***************************************************************************)
(* Mutual verification of one pair: services/verification.ts, the part of    *)
(* services/contacts.ts and db/repos/contacts.ts it stands on, the session    *)
(* bookkeeping of crypto/signal.ts, and the receive path of                   *)
(* services/messaging.ts as far as a contact's verification goes.             *)
(*                                                                           *)
(* Each phone runs two asynchronous tasks: one screen of the user (`ui') and   *)
(* the serialized receive chain (`recv').  A task reads the contact row into   *)
(* a snapshot and goes on after its awaits with that snapshot, so every await   *)
(* that matters is a step boundary here.  An identity is its generation; a      *)
(* session is named by its initiator, a number and the generations it binds.    *)
(***************************************************************************)
EXTENDS Integers, Sequences, FiniteSets, SequencesExt

CONSTANTS
    Phone,           \* the two phones of the pair
    KeyRank,         \* [Phone -> Seq(Nat)]: byte order of each generation's key
    MaxDisruptions,  \* bound: disruptions altogether
    Scenes           \* [kinds, mail]: which of "remove", "rescan", "migrate", "lose", "restart"
                     \* and "text" may happen, and the most envelopes queued for one phone

ASSUME VerificationAssumption ==
    /\ \E a, b \in Phone : a # b /\ Phone = {a, b}
    /\ MaxDisruptions \in Nat
    /\ \A d \in Phone : \A i \in 1..(MaxDisruptions + 1) : KeyRank[d][i] \in Nat
    /\ \A s \in Scenes :
          /\ s.kinds \subseteq {"remove", "rescan", "migrate", "lose", "restart", "text"}
          /\ s.mail \in Nat

Peer(d) == CHOOSE p \in Phone : p # d
Gen == 0..MaxDisruptions
None == -1

VARIABLES
    gen,          \* own identity
    contact,      \* the peer's row, or NoContact
    session,      \* the peer's session record: current, archived, handshake open
    pin,          \* pinned identity of the peer, or None
    sentThisRun,
    ui,           \* the user's task, with the contact row it read
    recv,         \* the receive chain's task
    mail,         \* relay: unacked envelopes for this phone
    pos,          \* the envelope the socket delivers next
    rows,         \* "verified" system rows since the contact was last reset
    pressed,      \* history: <<own identity, peer identity>> of each press
    heard,        \* history: a confirm was taken for this identity since the contact was added
    stored,       \* history: the envelope handled last became a message
    starts,       \* sessions started so far
    scene,        \* the scene that is played
    spent         \* disruptions so far

device == <<gen, session, pin>>
tasks == <<ui, recv>>
history == <<pressed, heard, stored>>
vars == <<device, contact, sentThisRun, tasks, mail, pos, rows, history, starts, spent, scene>>

NoContact == [key |-> None, local |-> FALSE, peer |-> FALSE, card |-> None]
Contact == [key : Gen \cup {None}, local : BOOLEAN, peer : BOOLEAN, card : Gen \cup {None}]
Known(c) == c.key # None
IsMutuallyVerified(c) == c.local /\ c.peer

NoSession == [cur |-> {}, old |-> {}, open |-> FALSE]
HasSession(d) == session[d].cur # {}
Idle == [step |-> "idle"]

TypeOK ==
    /\ gen \in [Phone -> Gen]
    /\ \A d \in Phone : contact[d] \in Contact /\ pin[d] \in Gen \cup {None}
    /\ \A d \in Phone : Cardinality(session[d].cur) <= 1
    /\ \A d \in Phone : session[d].cur \cap session[d].old = {}
    /\ sentThisRun \in [Phone -> BOOLEAN]
    /\ \A d \in Phone : ui[d].step \in {"idle", "press", "pressed", "add", "remove"}
    /\ \A d \in Phone : recv[d].step \in {"idle", "read", "confirm", "other", "reset"}
    /\ \A d \in Phone : Len(mail[d]) <= scene.mail /\ pos[d] \in 1..(Len(mail[d]) + 1)
    /\ rows \in [Phone -> Nat]
    /\ stored \in [Phone -> BOOLEAN]
    /\ spent \in 0..MaxDisruptions /\ scene \in Scenes

Init ==
    /\ gen = [d \in Phone |-> 0]
    /\ contact = [d \in Phone |-> NoContact]
    /\ session = [d \in Phone |-> NoSession]
    /\ pin = [d \in Phone |-> None]
    /\ sentThisRun = [d \in Phone |-> FALSE]
    /\ ui = [d \in Phone |-> Idle]
    /\ recv = [d \in Phone |-> Idle]
    /\ mail = [d \in Phone |-> <<>>]
    /\ pos = [d \in Phone |-> 1]
    /\ rows = [d \in Phone |-> 0]
    /\ pressed = [d \in Phone |-> {}]
    /\ heard = [d \in Phone |-> FALSE]
    /\ stored = [d \in Phone |-> FALSE]
    /\ starts = 0
    /\ spent = 0 /\ scene \in Scenes

Disrupt(kind) ==
    /\ kind \in scene.kinds
    /\ spent < MaxDisruptions
    /\ spent' = spent + 1

----------------------------------------------------------------------------
(* Sending.                                                                  *)

\* sendContent: seal with the current session and hand over to the relay.  The
\* envelope is a prekey message until the peer has answered in that session.
Envelope(d, kind, card) ==
    [kind |-> kind, card |-> card, session |-> CHOOSE s \in session[d].cur : TRUE,
     type |-> IF session[d].open THEN "prekey" ELSE "whisper", done |-> FALSE]

\* sendConfirm with contact row c: refused by the once-per-run guard, by a row
\* without card keys and by a missing session.  A send that fails, on the way
\* out or at the relay, clears the guard.
SendConfirm(d, c, guard, box) ==
    IF guard \/ c.card = None \/ session[d].cur = {}
    THEN sentThisRun' = [sentThisRun EXCEPT ![d] = guard] /\ mail' = box
    ELSE \/ /\ Len(box[Peer(d)]) < scene.mail
            /\ sentThisRun' = [sentThisRun EXCEPT ![d] = TRUE]
            /\ mail' = [box EXCEPT ![Peer(d)] = Append(@, Envelope(d, "confirm", c.card))]
         \/ /\ Len(box[Peer(d)]) >= scene.mail
            /\ sentThisRun' = [sentThisRun EXCEPT ![d] = FALSE]
            /\ mail' = box

SendText(d) ==
    /\ IsMutuallyVerified(contact[d]) /\ HasSession(d)
    /\ Disrupt("text")
    /\ Len(mail[Peer(d)]) < scene.mail
    /\ mail' = [mail EXCEPT ![Peer(d)] = Append(@, Envelope(d, "text", None))]
    /\ UNCHANGED <<device, contact, sentThisRun, tasks, pos, rows, history, starts>>

----------------------------------------------------------------------------
(* The user scans the peer's card, compares emojis, removes the contact.     *)

Initiates(d, card) == KeyRank[d][gen[d] + 1] < KeyRank[Peer(d)][card + 1]

\* Everything deleteSession and forgetConfirmState drop.
ForgetPeer(d) ==
    /\ session' = [session EXCEPT ![d] = NoSession]
    /\ pin' = [pin EXCEPT ![d] = None]
    /\ sentThisRun' = [sentThisRun EXCEPT ![d] = FALSE]

NewSession(d, card) == [by |-> d, n |-> starts, from |-> gen[d], to |-> card]

\* addContactFromCard up to the upsert.  The old session goes first when the
\* card shows another identity; only the smaller key starts a session.
AddContact(d) ==
    LET card == gen[Peer(d)]
        changed == Known(contact[d]) /\ contact[d].key # card
        starting == Initiates(d, card) /\ (changed \/ ~HasSession(d))
    IN  /\ ui[d].step = "idle"
        /\ IF Known(contact[d]) /\ ~changed /\ contact[d].card = card
           THEN Disrupt("rescan")
           ELSE UNCHANGED spent
        /\ ui' = [ui EXCEPT ![d] = [step |-> "add", row |-> contact[d], card |-> card]]
        /\ sentThisRun' = [sentThisRun EXCEPT ![d] = @ /\ ~changed]
        /\ IF starting
           THEN /\ session' = [session EXCEPT ![d] =
                       [cur |-> {NewSession(d, card)}, old |-> {}, open |-> TRUE]]
                /\ pin' = [pin EXCEPT ![d] = card]
                /\ starts' = starts + 1
           ELSE /\ session' = [session EXCEPT ![d] = IF changed THEN NoSession ELSE @]
                /\ pin' = [pin EXCEPT ![d] = IF changed THEN None ELSE @]
                /\ UNCHANGED starts
        /\ UNCHANGED <<gen, contact, recv, mail, pos, rows, history>>

UpsertContact(row, card) ==
    [key |-> card, local |-> row.local /\ row.key = card,
     peer |-> row.peer /\ row.key = card, card |-> card]

\* The upsert writes back what was read before the awaits; then the relay is
\* reconnected, which redelivers the queue.
ContactAdded(d) ==
    /\ ui[d].step = "add"
    /\ contact' = [contact EXCEPT ![d] = UpsertContact(ui[d].row, ui[d].card)]
    /\ rows' = [rows EXCEPT ![d] = IF ui[d].row.key = ui[d].card THEN @ ELSE 0]
    /\ pos' = [pos EXCEPT ![d] = IF recv[d].step = "idle" THEN 1 ELSE @]
    /\ ui' = [ui EXCEPT ![d] = Idle]
    /\ UNCHANGED <<device, sentThisRun, recv, mail, history, starts, spent>>

\* confirmVerification: the screen holds a row, the account and the strings are
\* awaited.  The emojis match when the row shows the peer's present identity.
Press(d) ==
    /\ ui[d].step = "idle"
    /\ Known(contact[d]) /\ ~contact[d].local /\ contact[d].key = gen[Peer(d)]
    /\ ui' = [ui EXCEPT ![d] = [step |-> "press", row |-> contact[d]]]
    /\ UNCHANGED <<device, contact, sentThisRun, recv, mail, pos, rows, history, starts, spent>>

\* setLocalConfirmed.  Whether the pair is complete is read from the snapshot.
Pressed(d) ==
    /\ ui[d].step = "press"
    /\ contact' = [contact EXCEPT ![d].local = TRUE]
    /\ rows' = [rows EXCEPT ![d] = IF ui[d].row.peer THEN @ + 1 ELSE @]
    /\ pressed' = [pressed EXCEPT ![d] = @ \cup {<<gen[d], ui[d].row.key>>}]
    /\ ui' = [ui EXCEPT ![d].step = "pressed"]
    /\ UNCHANGED <<device, sentThisRun, recv, mail, pos, heard, stored, starts, spent>>

\* hasSession, then the confirm.  A responder without a session defers it.
PressSends(d) ==
    /\ ui[d].step = "pressed"
    /\ SendConfirm(d, ui[d].row, sentThisRun[d], mail)
    /\ ui' = [ui EXCEPT ![d] = Idle]
    /\ UNCHANGED <<device, contact, recv, pos, rows, history, starts, spent>>

\* removeContact: first the peer's Signal state, then the row.
RemoveContact(d) ==
    /\ ui[d].step = "idle" /\ Known(contact[d])
    /\ Disrupt("remove")
    /\ ui' = [ui EXCEPT ![d] = [step |-> "remove"]]
    /\ ForgetPeer(d)
    /\ UNCHANGED <<gen, contact, recv, mail, pos, rows, history, starts>>

\* Fault: only the Signal state goes, the row stays.
ContactRemoved_KeepsRow(d) ==
    /\ ui[d].step = "remove"
    /\ ui' = [ui EXCEPT ![d] = Idle]
    /\ UNCHANGED <<device, contact, sentThisRun, recv, mail, pos, rows, history, starts, spent>>

ContactRemoved(d) ==
    /\ ui[d].step = "remove"
    /\ contact' = [contact EXCEPT ![d] = NoContact]
    /\ rows' = [rows EXCEPT ![d] = 0]
    /\ recv' = [recv EXCEPT ![d] = IF @ = Idle THEN @ ELSE [@ EXCEPT !.live = FALSE]]
    /\ ui' = [ui EXCEPT ![d] = Idle]
    /\ heard' = [heard EXCEPT ![d] = FALSE]
    /\ UNCHANGED <<device, sentThisRun, mail, pos, pressed, stored, starts, spent>>

----------------------------------------------------------------------------
(* The receive chain: one envelope at a time.                                *)

\* The envelope under way leaves the relay's queue, or stays there unacked.
WithoutAcked(d) == [mail EXCEPT ![d] = RemoveAt(@, pos[d])]
Ack(d) == mail' = WithoutAcked(d) /\ UNCHANGED pos
Keep(d) == pos' = [pos EXCEPT ![d] = @ + 1] /\ UNCHANGED mail

\* Fault: acknowledged twice, the second time for the envelope that follows.
Acks_Twice(d, box) ==
    /\ recv' = [recv EXCEPT ![d] = Idle]
    /\ \/ box = WithoutAcked(d) /\ pos' = [pos EXCEPT ![d] = @ + 1] /\ UNCHANGED spent
       \/ box = mail /\ pos' = [pos EXCEPT ![d] = @ + 1] /\ Disrupt("lose")

\* The handler is done: recv is idle and the ack is sent, or dies with the
\* socket.  The rest of the step starts from the mail `box'.
Acks(d, box) ==
    /\ recv' = [recv EXCEPT ![d] = Idle]
    /\ \/ box = WithoutAcked(d) /\ UNCHANGED <<pos, spent>>
       \/ box = mail /\ pos' = [pos EXCEPT ![d] = @ + 1] /\ Disrupt("lose")

\* getContactByHandle.  An unknown sender's prekey envelope stays at the relay,
\* its whisper is dropped.
Receive(d) ==
    LET m == mail[d][pos[d]]
    IN  /\ recv[d].step = "idle" /\ pos[d] <= Len(mail[d])
        /\ IF Known(contact[d])
           THEN /\ recv' = [recv EXCEPT ![d] =
                       [step |-> "read", row |-> contact[d], m |-> m, live |-> TRUE]]
                /\ UNCHANGED <<mail, pos>>
           ELSE /\ IF m.type = "prekey" THEN Keep(d) ELSE Ack(d)
                /\ UNCHANGED recv
        /\ stored' = [stored EXCEPT ![d] = FALSE]
        /\ UNCHANGED <<device, contact, sentThisRun, ui, rows, pressed, heard, starts, spent>>

Records(d) == session[d].cur \cup session[d].old

\* The message key was consumed in a session that is still held.
Duplicate(d, m) == m.done /\ m.session \in Records(d)

Decryptable(d, m) ==
    IF m.type = "prekey" THEN m.session.to = gen[d] ELSE m.session \in Records(d)

IdentityChanged(d, m) ==
    m.type = "prekey" /\ pin[d] \notin {None, m.session.from}

\* The session that decrypted becomes the current one; an answer closes the
\* initiator's handshake; a prekey message pins its sender if nothing is pinned.
\* The ratchet is stored before anything the message carries.
Decrypts(d) ==
    LET m == recv[d].m
    IN  /\ recv[d].step = "read"
        /\ Decryptable(d, m) /\ ~Duplicate(d, m) /\ ~IdentityChanged(d, m)
        /\ session' = [session EXCEPT ![d] =
               [cur |-> {m.session}, old |-> Records(d) \ {m.session},
                open |-> @.open /\ m.type = "prekey"]]
        /\ pin' = [pin EXCEPT ![d] = IF @ = None THEN m.session.from ELSE @]
        /\ mail' = [mail EXCEPT ![d][pos[d]].done = TRUE]
        /\ recv' = [recv EXCEPT ![d].step = IF m.kind = "confirm" THEN "confirm" ELSE "other"]
        /\ UNCHANGED <<gen, contact, sentThisRun, ui, pos, rows, history, starts, spent>>

DropsDuplicate(d) ==
    /\ recv[d].step = "read" /\ Duplicate(d, recv[d].m)
    /\ Ack(d)
    /\ recv' = [recv EXCEPT ![d] = Idle]
    /\ UNCHANGED <<device, contact, sentThisRun, ui, rows, history, starts, spent>>

LeavesUndecryptable(d) ==
    /\ recv[d].step = "read"
    /\ ~Decryptable(d, recv[d].m) /\ ~Duplicate(d, recv[d].m)
    /\ Keep(d)
    /\ recv' = [recv EXCEPT ![d] = Idle]
    /\ UNCHANGED <<device, contact, sentThisRun, ui, rows, history, starts, spent>>

\* Fault: the peer's confirm outlives the identity it was made for.
ResetVerification_KeepsPeer(c) == [c EXCEPT !.local = FALSE, !.card = None]

ResetVerification(c) == [c EXCEPT !.local = FALSE, !.peer = FALSE, !.card = None]

\* handleIdentityChange, up to deleteSession ...
SeesIdentityChange(d) ==
    LET m == recv[d].m
    IN  /\ recv[d].step = "read"
        /\ Decryptable(d, m) /\ ~Duplicate(d, m) /\ IdentityChanged(d, m)
        /\ contact' = [contact EXCEPT ![d] = IF recv[d].live THEN ResetVerification(@) ELSE @]
        /\ sentThisRun' = [sentThisRun EXCEPT ![d] = FALSE]
        /\ rows' = [rows EXCEPT ![d] = 0]
        /\ recv' = [recv EXCEPT ![d].step = "reset"]
        /\ UNCHANGED <<device, ui, mail, pos, history, starts, spent>>

\* ... and from there to the ack.
ForgetsIdentity(d) ==
    /\ recv[d].step = "reset"
    /\ session' = [session EXCEPT ![d] = NoSession]
    /\ pin' = [pin EXCEPT ![d] = None]
    /\ \E box \in {mail, WithoutAcked(d)} : Acks(d, box) /\ mail' = box
    /\ UNCHANGED <<gen, contact, sentThisRun, ui, rows, history, starts>>

\* Fault: a repeated confirm is not answered, as if the answer had arrived.
Answers_FirstOnly(row) == row.local /\ ~row.peer

\* A valid confirm, first or repeated, is answered once this user has pressed.
Answers(row) == row.local

CardMatches(d, m) == m.card = gen[d]

\* handleInboundConfirm, on the row read before the decryption.
HandlesConfirm(d) ==
    LET row == recv[d].row
        valid == CardMatches(d, recv[d].m)
        first == valid /\ ~row.peer
    IN  /\ recv[d].step = "confirm"
        /\ contact' = [contact EXCEPT ![d].peer = @ \/ (first /\ recv[d].live)]
        /\ rows' = [rows EXCEPT ![d] = IF first /\ row.local /\ recv[d].live THEN @ + 1 ELSE @]
        /\ \E box \in {mail, WithoutAcked(d)} :
              /\ Acks(d, box)
              /\ IF valid /\ Answers(row)
                 THEN SendConfirm(d, row, FALSE, box)
                 ELSE mail' = box /\ UNCHANGED sentThisRun
        /\ heard' = [heard EXCEPT ![d] = @ \/ (valid /\ recv[d].live)]
        /\ UNCHANGED <<device, ui, pressed, stored, starts>>

\* Fault: content is stored although the pair is not verified.
Stores_Any(row) == Known(row)

Stores(row) == IsMutuallyVerified(row)

\* Any other content: send a deferred confirm, store only what a verified
\* contact sent, ack.
HandlesOther(d) ==
    LET row == recv[d].row
    IN  /\ recv[d].step = "other"
        /\ \E box \in {mail, WithoutAcked(d)} :
              /\ Acks(d, box)
              /\ IF row.local /\ ~row.peer
                 THEN SendConfirm(d, row, sentThisRun[d], box)
                 ELSE mail' = box /\ UNCHANGED sentThisRun
        /\ stored' = [stored EXCEPT ![d] = Stores(row) /\ recv[d].live]
        /\ UNCHANGED <<device, contact, ui, rows, pressed, heard, starts>>

----------------------------------------------------------------------------
(* The relay, the socket and the process.                                    *)

\* resendPendingConfirms: whoever pressed and still waits for the peer.
Resends(d) == contact[d].local /\ ~contact[d].peer /\ HasSession(d)

\* A new socket redelivers what is unacked and resends a waiting confirm.
Reconnect(d) ==
    /\ recv[d].step = "idle"
    /\ pos' = [pos EXCEPT ![d] = 1]
    /\ IF Resends(d) THEN SendConfirm(d, contact[d], FALSE, mail)
                     ELSE UNCHANGED <<mail, sentThisRun>>
    /\ UNCHANGED <<device, contact, tasks, rows, history, starts, spent>>

\* The relay's queue TTL takes an envelope: a disruption, unless this phone
\* could never decrypt it.
Expire(d) ==
    /\ recv[d].step = "idle"
    /\ \E i \in 1..Len(mail[d]) :
          /\ IF Decryptable(d, mail[d][i]) THEN Disrupt("lose") ELSE UNCHANGED spent
          /\ mail' = [mail EXCEPT ![d] = RemoveAt(@, i)]
          /\ pos' = [pos EXCEPT ![d] = IF i < @ THEN @ - 1 ELSE @]
    /\ UNCHANGED <<device, contact, sentThisRun, tasks, rows, history, starts>>

\* The process dies: its tasks and the once-per-run guard are gone.
Restarted(d) ==
    /\ ui' = [ui EXCEPT ![d] = Idle]
    /\ recv' = [recv EXCEPT ![d] = Idle]
    /\ sentThisRun' = [sentThisRun EXCEPT ![d] = FALSE]
    /\ pos' = [pos EXCEPT ![d] = 1]
    /\ UNCHANGED <<mail, pressed, stored, starts>>

Restart(d) == Disrupt("restart") /\ Restarted(d) /\ UNCHANGED <<device, contact, rows, heard>>

\* migrateSignalStateIfNeeded at the start of a run: a new identity, no
\* sessions, every contact back to unverified.
Migrate(d) ==
    /\ Disrupt("migrate")
    /\ Restarted(d)
    /\ gen' = [gen EXCEPT ![d] = @ + 1]
    /\ session' = [session EXCEPT ![d] = NoSession]
    /\ pin' = [pin EXCEPT ![d] = None]
    /\ contact' = [contact EXCEPT ![d] = IF Known(@) THEN ResetVerification(@) ELSE @]
    /\ rows' = [rows EXCEPT ![d] = 0]
    /\ heard' = [heard EXCEPT ![d] = FALSE]

----------------------------------------------------------------------------
User(d) == AddContact(d) \/ Press(d) \/ RemoveContact(d) \/ SendText(d)
Screen(d) == ContactAdded(d) \/ Pressed(d) \/ PressSends(d) \/ ContactRemoved(d)
Chain(d) ==
    \/ Receive(d) \/ Decrypts(d) \/ DropsDuplicate(d) \/ LeavesUndecryptable(d)
    \/ SeesIdentityChange(d) \/ ForgetsIdentity(d) \/ HandlesConfirm(d) \/ HandlesOther(d)
Environment(d) == Expire(d) \/ Restart(d) \/ Migrate(d)

Next ==
    /\ \E d \in Phone : User(d) \/ Screen(d) \/ Chain(d) \/ Reconnect(d) \/ Environment(d)
    /\ UNCHANGED scene

Spec == Init /\ [][Next]_vars

\* Tasks that were started finish, each phone's socket is renewed again and
\* again, and the relay's TTL ends.  No user is obliged to do anything.
Fairness ==
    \A d \in Phone : /\ WF_vars(Screen(d) /\ UNCHANGED scene) /\ WF_vars(Chain(d) /\ UNCHANGED scene) /\ SF_vars(Reconnect(d) /\ UNCHANGED scene)
                     /\ SF_vars(Expire(d) /\ UNCHANGED <<spent, scene>>)

FairSpec == Spec /\ Fairness
----------------------------------------------------------------------------
(* Properties.                                                               *)

\* A contact counts as confirmed by the peer only if the peer really pressed
\* "the emojis match" against this phone's present identity.
ConfirmIsGenuine ==
    \A d \in Phone :
        contact[d].peer => \E g \in Gen : <<g, gen[d]>> \in pressed[Peer(d)]

\* The receive gate judges a row read before the decryption; still, content is
\* stored only for a contact that is there, after this user pressed under the
\* present identity, the peer pressed against it and its confirm was taken for this
\* contact, although the contact may have been removed, re-added or re-scanned, or an
\* identity replaced, meanwhile.  This user's press still stands, unless a scan has
\* replaced the identity it was for.
PressedByBoth(d) ==
    /\ \E g \in Gen : <<gen[d], g>> \in pressed[d]
    /\ \E g \in Gen : <<g, gen[d]>> \in pressed[Peer(d)]
    /\ heard[d]

PressStands(d) == contact[d].local \/ contact[d].key # recv[d].row.key

StoredOnlyVerified ==
    [][\A d \in Phone : ~stored[d] /\ stored'[d] =>
          Known(contact[d]) /\ PressedByBoth(d) /\ PressStands(d)]_vars

\* The row itself may say otherwise by then: a scan that began before the peer's
\* confirm came writes back the row it had read, and takes the confirm with it.
StoredInVerifiedRow ==
    [][\A d \in Phone : ~stored[d] /\ stored'[d] => IsMutuallyVerified(contact[d])]_vars

\* Nor does it hold that the peer pressed under the identity the row now shows: the
\* confirm may be decrypted, the new identity scanned, and the confirm written then.
ConfirmOfThisIdentity ==
    \A d \in Phone : contact[d].peer => <<contact[d].key, gen[d]>> \in pressed[Peer(d)]

\* A verified contact can be written to: its session is there.
VerifiedHasSession ==
    \A d \in Phone :
        IsMutuallyVerified(contact[d]) /\ ui[d].step = "idle" /\ recv[d].step = "idle" =>
            HasSession(d)

\* A session always runs under the identity that is pinned.
SessionUnderPin ==
    \A d \in Phone : \A s \in Records(d) :
        pin[d] = IF s.by = d THEN s.to ELSE s.from

\* Two things leave a verified row without its session: an identity that changes while
\* a confirm is being handled, and a process that dies between the two steps of
\* removeContact.
Undisturbed ==
    "migrate" \notin scene.kinds /\ ~({"remove", "restart"} \subseteq scene.kinds)

\* Contact row, session record and pinned identity are three stores written by two tasks
\* (the screens and the receive chain), and apart from those two they never contradict
\* each other.
StoresAgree == SessionUnderPin /\ (Undisturbed => VerifiedHasSession)

\* Both users scanned the card the other phone now has, and pressed.
BothPressed == \A d \in Phone : contact[d].local /\ contact[d].card = gen[Peer(d)]

\* Once both have pressed both phones unlock, whatever was lost, repeated or
\* cut off on the way: a lost envelope, a process that died, a second scan.
\* A removal or a new identity after the presses can leave one side locked
\* until it presses again, so those scenes are exempt.
BothUnlock ==
    <>[]((BothPressed /\ scene.kinds \cap {"remove", "migrate"} = {}) =>
            \A d \in Phone : contact[d].peer)

\* The comment of insertVerifiedSystemRow: written once when the pair unlocks.
RowWrittenOnce ==
    \A d \in Phone :
        IsMutuallyVerified(contact[d]) /\ ui[d].step = "idle" /\ recv[d].step = "idle" =>
            rows[d] = 1

\* The comments of resendPendingConfirms and confirmVerification: only a
\* responder waits for its session, so a press that sends nothing is the
\* responder's and the initiator's first message will release it.
OnlyRespondersDefer ==
    \A d \in Phone :
        /\ contact[d].local /\ ~contact[d].peer /\ contact[d].card = gen[Peer(d)]
        /\ ui[d].step = "idle" /\ recv[d].step = "idle" /\ ~HasSession(d)
        => ~Initiates(d, contact[d].card)

\* The comment of removeContact: with the session gone, a re-add runs the
\* first-scan flow, hence the pair unlocks again.
ReAddUnlocks == <>[](BothPressed => \A d \in Phone : contact[d].peer)
=============================================================================
