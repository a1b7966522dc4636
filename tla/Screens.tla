------------------------------ MODULE Screens ------------------------------
(***************************************************************************)
(* The screens of one contact: the chat list, the chat behind its lock     *)
(* gate, the contact page, the verification page and the scanner, on one   *)
(* navigation stack over one database.  A screen shows what it last read;  *)
(* every write announces itself and every mounted screen reads again, in a *)
(* queue of its own.  What a tap started goes on when its screen is left.  *)
(*                                                                         *)
(* The steps of a lock pass, of a delivery and of a negotiation between    *)
(* two phones are in ChatLocks, Delivery, Verification and Settings; here  *)
(* each is one write of the database.                                      *)
(***************************************************************************)
EXTENDS Naturals, Sequences, FiniteSets, SequencesExt

CONSTANTS
    Msgs,       \* message rows
    Asks,       \* kinds of negotiated settings
    Scenes,     \* sets of topics; a behaviour plays one of them
    MaxDepth,   \* screens on the stack
    MaxLoads,   \* reads one screen may have waiting
    MaxWrites,  \* writes of users and peers
    Windows     \* the interleavings below that break a promise of the code

ASSUME ScreensAssumption ==
    /\ IsFiniteSet(Msgs) /\ IsFiniteSet(Asks)
    /\ MaxDepth \in Nat \ {0}
    /\ MaxLoads \in Nat \ {0}
    /\ MaxWrites \in Nat
    /\ Scenes \subseteq SUBSET {"inbound", "messages", "requests", "lock", "person", "list", "away"}
    /\ Windows \subseteq {"twice", "enable", "late", "toggle", "double", "gone"}

VARIABLES
    scene,      \* the topics of this behaviour
    left,       \* writes of users and peers this behaviour may still make
    db,         \* the contact's rows
    log,        \* rows this phone logged for the present request of each kind
    phone,      \* app lock, foreground, and the registry of released chat keys
    stack,      \* the mounted screens, the visible one last
    tasks       \* handlers between two awaits

vars == <<scene, left, db, log, phone, stack, tasks>>

Nothing == "nothing"
Spend == left > 0 /\ left' = left - 1
Plays(topic) == topic \in scene

----------------------------------------------------------------------------
(* What a screen keeps.                                                      *)

NoMessages == [m \in Msgs |-> "none"]
Mine == {"sending", "sent"}

\* The contact's and the conversation's row, as a screen holds them; all blank
\* before the first read, and without a contact.
Facts(d) == [f \in DOMAIN d \ {"msgs"} |-> d[f]]
ContactFields == {"there", "local", "peer", "blocked", "muted"}
Blank == [there |-> FALSE, lock |-> FALSE, pend |-> [k \in Asks |-> "none"],
          local |-> FALSE, peer |-> FALSE, blocked |-> FALSE, muted |-> FALSE]

\* The row of the chat list; a chat without messages has none.
NoRow == [shown |-> FALSE, unread |-> FALSE, locked |-> FALSE]
RowOf(d) ==
    IF d.there /\ d.msgs # NoMessages
    THEN [shown |-> TRUE, unread |-> \E m \in Msgs : d.msgs[m] = "unread", locked |-> d.lock]
    ELSE NoRow
NoList == [row |-> NoRow, loading |-> FALSE, dirty |-> FALSE, read |-> <<>>]

\* A mounted screen.  open: the chat was unlocked here (on a contact page, its
\* lock sheet); busy: the handlers of this screen that must not run twice;
\* sheet: the message whose menu is open, or the lock sheet.
Entry(kind, scanned) ==
    [kind |-> kind, scanned |-> scanned, seen |-> Blank, thread |-> NoMessages,
     loads |-> <<>>, open |-> kind = "chat" /\ phone.released, busy |-> {},
     sheet |-> Nothing, list |-> NoList]

Top == Len(stack)
Screen == stack[Top]
Ready == phone.fg /\ ~phone.locked
On(kind) == Ready /\ Screen.kind = kind
Shows(kind) == On(kind) /\ Screen.seen.there

\* The gate stands in for the thread until this chat's key is released here.
Gated(e) == e.seen.there /\ e.seen.lock /\ ~e.open
InChat == Shows("chat") /\ ~Gated(Screen)
Verified(facts) == facts.there /\ facts.local /\ facts.peer

\* The composer is there for a verified contact; others have the way to verify.
Composer == InChat /\ Verified(Screen.seen)
VerifyPanel == InChat /\ ~Verified(Screen.seen)

InPage == Shows("contact") /\ Screen.sheet = Nothing

Has(s, kind) == \E i \in DOMAIN s : s[i].kind = kind
Room == \A i \in DOMAIN stack : Len(stack[i].loads) < MaxLoads

----------------------------------------------------------------------------
(* Reading again.                                                            *)

Read(what, then) == [what |-> what, then |-> then, put |-> Blank]

\* A read that still waits, last in the queue, reads for both.
Queue(e, item) ==
    IF e.loads # <<>> /\ Last(e.loads) = item THEN e ELSE [e EXCEPT !.loads = Append(@, item)]

\* Fault: an event during a load is taken as covered by that load.
ScheduleLoad_NotDirty(l) == IF l.loading THEN l ELSE [l EXCEPT !.loading = TRUE]

\* One load in flight, at most one rerun.
ScheduleLoad(l) ==
    IF l.loading THEN [l EXCEPT !.dirty = TRUE] ELSE [l EXCEPT !.loading = TRUE]

\* A listener of the change events: the mounted screens, covered or not.
Hears(e) ==
    CASE e.kind = "tabs" -> [e EXCEPT !.list = ScheduleLoad(@)]
      [] e.kind \in {"chat", "contact", "verify"} -> Queue(e, Read("row", ""))
      [] OTHER -> e

Marking(i) == [op |-> "mark", at |-> i, was |-> "?"]

\* emitConversationsChanged after a write: the visible chat also marks read.
Tell(s, ts) ==
    /\ stack' = [i \in DOMAIN s |-> Hears(s[i])]
    /\ tasks' = ts \cup {Marking(i) : i \in {j \in {Len(s)} : s[j].kind = "chat" /\ phone.fg}}

\* The focus effect of the screen that becomes visible.
Focus(s, ts) ==
    /\ Room
    /\ stack' = [s EXCEPT ![Len(s)] = Hears(@)]
    /\ tasks' = ts \cup {Marking(i) : i \in {j \in {Len(s)} : s[j].kind = "chat"}}

\* The head of a screen's queue, read now.  The chat reads its messages after its
\* rows; the verification page keeps what it has when the contact is gone.
ReadsRow(e) ==
    LET item == Head(e.loads)
        read == [e EXCEPT !.seen = Facts(db), !.loads = Tail(@)]
    IN  CASE e.kind = "chat" -> [read EXCEPT !.loads = Append(@, Read("thread", item.then))]
          [] e.kind = "verify" /\ ~db.there -> [read EXCEPT !.seen = e.seen]
          [] OTHER -> read

ReadsThread(e) ==
    [e EXCEPT !.thread = db.msgs, !.loads = Tail(@), !.busy = @ \ {Head(e.loads).then}]

\* setContact({ ...contact, field }): the contact this screen had at the tap.
Puts(e) ==
    [e EXCEPT !.loads = Tail(@),
              !.seen = [f \in DOMAIN @ |-> IF f \in ContactFields THEN Head(e.loads).put[f]
                                                                  ELSE @[f]]]

Load(i) ==
    /\ ~phone.locked
    /\ stack[i].loads # <<>>
    /\ LET e == stack[i]
           what == Head(e.loads).what
       IN  /\ stack' = [stack EXCEPT ![i] = CASE what = "row" -> ReadsRow(e)
                                              [] what = "thread" -> ReadsThread(e)
                                              [] what = "put" -> Puts(e)]
           /\ tasks' = IF what = "thread" /\ Head(e.loads).then = "mark"
                       THEN tasks \cup {Marking(i)} ELSE tasks
    /\ UNCHANGED <<scene, left, db, log, phone>>

\* The timer under the events, on every mounted chat.
Poll(i) ==
    /\ ~phone.locked
    /\ stack[i].kind = "chat" /\ stack[i].loads = <<>>
    /\ stack' = [stack EXCEPT ![i] = Queue(@, Read("thread", ""))]
    /\ UNCHANGED <<scene, left, db, log, phone, tasks>>

\* The list reads the previews first and each contact and lock flag after them;
\* where the list is not the topic its load has not run yet.
ListReads(i) ==
    /\ Plays("list")
    /\ stack[i].list.loading /\ stack[i].list.read = <<>>
    /\ ~phone.locked
    /\ stack' = [stack EXCEPT ![i].list.read = <<RowOf(db)>>]
    /\ UNCHANGED <<scene, left, db, log, phone, tasks>>

ListShows(i) ==
    /\ stack[i].list.read # <<>>
    /\ ~phone.locked
    /\ LET l == stack[i].list
           row == IF l.read[1].shown /\ db.there THEN [l.read[1] EXCEPT !.locked = db.lock] ELSE NoRow
       IN  stack' = [stack EXCEPT ![i].list = [row |-> row, loading |-> l.dirty,
                                               dirty |-> FALSE, read |-> <<>>]]
    /\ UNCHANGED <<scene, left, db, log, phone, tasks>>

----------------------------------------------------------------------------
(* Marking read: the lock flag, then the registry, then the update.           *)

MarkReads(t) ==
    /\ t \in tasks /\ t.op = "mark" /\ t.was = "?"
    /\ tasks' = (tasks \ {t}) \cup {[t EXCEPT !.was = IF db.lock THEN "locked" ELSE "open"]}
    /\ UNCHANGED <<scene, left, db, log, phone, stack>>

\* Fault: only the flag of the screen is asked, not the registry.
Viewable_Always(t) == TRUE

Viewable(t) == t.was = "open" \/ phone.released

MarkWrites(t) ==
    /\ t \in tasks /\ t.op = "mark" /\ t.was # "?"
    /\ Room
    /\ IF Viewable(t) /\ \E m \in Msgs : db.msgs[m] = "unread"
       THEN /\ db' = [db EXCEPT !.msgs = [m \in Msgs |-> IF @[m] = "unread" THEN "read" ELSE @[m]]]
            /\ Tell(stack, tasks \ {t})
       ELSE /\ tasks' = tasks \ {t}
            /\ UNCHANGED <<db, stack>>
    /\ UNCHANGED <<scene, left, log, phone>>

----------------------------------------------------------------------------
(* Navigation.  A handler whose screen was left goes on detached, at 0.       *)

Detach(n) == {[t EXCEPT !.at = IF @ = n THEN 0 ELSE @] : t \in tasks}

Opens(kind) ==
    /\ Top < MaxDepth
    /\ kind = "chat" /\ "twice" \notin Windows => ~Has(stack, "chat")
    /\ Focus(Append(stack, Entry(kind, FALSE)), tasks)
    /\ UNCHANGED <<scene, left, db, log, phone>>

Swaps(kind, scanned, ts) ==
    Focus(Append(Front(stack), Entry(kind, scanned)), ts)

\* A row of the list, or a contact picked for a new chat.
OpenChatFromList == On("tabs") /\ Screen.list.row.shown /\ Opens("chat")
PickContact ==
    /\ On("tabs")
    /\ Verified(Facts(db)) /\ ~db.blocked
    /\ Opens("chat")
OpenContactFromTabs == On("tabs") /\ db.there /\ Opens("contact")
OpenContactFromChat == InChat /\ Opens("contact")
OpenChatFromContact ==
    /\ InPage
    /\ "late" \in Windows \/ ~\E t \in tasks : t.op = "unlock"
    /\ Opens("chat")
OpenVerify ==
    /\ Plays("person")
    /\ VerifyPanel \/ InPage
    /\ Opens("verify")
OpenScanner == Plays("person") /\ On("tabs") /\ Opens("scan")

\* The tabs and the scanner redirect when they are visible and the app is locked.
Lands(s, locked) ==
    IF locked /\ s[Len(s)].kind \in {"tabs", "scan"}
    THEN Append(Front(s), Entry("lock", FALSE)) ELSE s

\* Leaving a chat drops its key and its opened bodies.
Relocks(e) == IF e.kind = "chat" THEN [phone EXCEPT !.released = FALSE] ELSE phone

Leaves ==
    /\ phone.fg /\ Top > 1
    /\ "late" \in Windows \/ ~\E t \in tasks : t.op = "unlock" /\ t.at = Top
    /\ "gone" \in Windows \/ ~\E t \in tasks : t.op = "add" /\ t.at = Top
    /\ phone' = Relocks(Screen)
    /\ LET s == Lands(Front(stack), phone.locked)
       IN  IF phone.locked THEN stack' = s /\ tasks' = Detach(Top)
                           ELSE Focus(s, Detach(Top))
    /\ UNCHANGED <<scene, left, db, log>>

Back == Screen.sheet = Nothing /\ Leaves

----------------------------------------------------------------------------
(* The gate of a locked chat and the lock sheet of the contact page.           *)

\* The lock sheet has a panel to enable, one that asks for the code, one to manage.
InSheet == Screen.kind = "contact" /\ Screen.seen.there /\ Screen.sheet = "lock"
EnablePanel == InSheet /\ ~Screen.seen.lock
CodePanel == InSheet /\ Screen.seen.lock /\ ~Screen.open
ManagePanel == InSheet /\ Screen.seen.lock /\ Screen.open
AsksForCode == Ready /\ ((Shows("chat") /\ Gated(Screen)) \/ CodePanel)

StartUnlock ==
    /\ AsksForCode /\ "gate" \notin Screen.busy
    /\ stack' = [stack EXCEPT ![Top].busy = @ \cup {"gate"}]
    /\ tasks' = tasks \cup {[op |-> "unlock", at |-> Top]}
    /\ UNCHANGED <<scene, left, db, log, phone>>

\* onChatUnlocked, and the lock sheet's: each opens the screen it was asked on
\* and reads again; the chat marks read when it has.
Unlocked(e) ==
    Queue([e EXCEPT !.open = TRUE, !.busy = @ \ {"gate"}],
          Read("row", IF e.kind = "chat" THEN "mark" ELSE ""))

\* A wrong code only enables the panel again.
Refused(e) == [e EXCEPT !.busy = @ \ {"gate"}]

UnlockEnds(t, right) ==
    /\ t \in tasks /\ t.op = "unlock"
    /\ Room
    /\ right => db.lock
    /\ phone' = [phone EXCEPT !.released = @ \/ right]
    /\ tasks' = tasks \ {t}
    /\ stack' = IF t.at = 0 THEN stack
                ELSE [stack EXCEPT ![t.at] = IF right THEN Unlocked(@) ELSE Refused(@)]
    /\ UNCHANGED <<scene, left, db, log>>

OpenLockSheet ==
    /\ Plays("lock") /\ InPage
    /\ stack' = [stack EXCEPT ![Top].sheet = "lock", ![Top].open = phone.released]
    /\ UNCHANGED <<scene, left, db, log, phone, tasks>>

CloseSheet ==
    /\ phone.fg /\ Screen.sheet # Nothing
    /\ stack' = [stack EXCEPT ![Top].sheet = Nothing]
    /\ UNCHANGED <<scene, left, db, log, phone, tasks>>

\* The lock changes, the page reads, everyone reads, the sheet closes.
LockChanges(d, released) ==
    /\ Spend
    /\ Room
    /\ db' = d
    /\ phone' = [phone EXCEPT !.released = released]
    /\ Tell([stack EXCEPT ![Top].sheet = Nothing], tasks)
    /\ UNCHANGED <<scene, log>>

EnableLock ==
    /\ Ready /\ EnablePanel
    /\ "enable" \in Windows \/ ~Has(stack, "chat")
    /\ LockChanges([db EXCEPT !.lock = TRUE], TRUE)

\* Managing the lock takes the released key; without it, back to the code.  The
\* page stays on screen when the app locks, which is how the key goes away here.
Manages == phone.fg /\ ManagePanel
FallsBack == stack' = [stack EXCEPT ![Top].open = FALSE] /\ UNCHANGED <<db, phone, tasks>>

ChangeCode ==
    /\ Manages /\ ~phone.released
    /\ FallsBack
    /\ UNCHANGED <<scene, left, log>>

RemoveLock ==
    /\ Manages
    /\ IF phone.released /\ db.lock THEN LockChanges([db EXCEPT !.lock = FALSE], FALSE)
       ELSE FallsBack /\ UNCHANGED <<scene, left, log>>

ForgotCode ==
    /\ Ready /\ CodePanel /\ "gate" \notin Screen.busy
    /\ LockChanges([db EXCEPT !.lock = FALSE, !.msgs = NoMessages], FALSE)

----------------------------------------------------------------------------
(* The thread.                                                                *)

\* A write the services announce.
Writes(d, s, ts) == Room /\ db' = d /\ Tell(s, ts)

Busies(name) == [stack EXCEPT ![Top].busy = @ \cup {name}]

\* One text at a time, while photos go in the background.
SendText(m) ==
    /\ Spend
    /\ Plays("messages") /\ Composer
    /\ "send" \notin Screen.busy /\ db.msgs[m] = "none"
    /\ Writes([db EXCEPT !.msgs[m] = "sending"], Busies("send"),
              tasks \cup {[op |-> "send", at |-> Top, m |-> m, text |-> TRUE]})
    /\ UNCHANGED <<scene, log, phone>>

SendPhoto(m) ==
    /\ Spend
    /\ Plays("messages") /\ Composer
    /\ db.msgs[m] = "none"
    /\ Writes([db EXCEPT !.msgs[m] = "sending"], stack,
              tasks \cup {[op |-> "send", at |-> Top, m |-> m, text |-> FALSE]})
    /\ UNCHANGED <<scene, log, phone>>

\* The send settles the row, and the screen it was sent from reads the thread.
SendEnds(t) ==
    /\ t \in tasks /\ t.op = "send"
    /\ LET s == IF t.at = 0 THEN stack
                ELSE [stack EXCEPT ![t.at] =
                         Queue(@, Read("thread", IF t.text THEN "send" ELSE ""))]
           settled == IF db.msgs[t.m] = "sending" THEN "sent" ELSE db.msgs[t.m]
       IN  /\ \A i \in DOMAIN s : Len(s[i].loads) < MaxLoads
           /\ Writes([db EXCEPT !.msgs[t.m] = settled], s, tasks \ {t})
    /\ UNCHANGED <<scene, left, log, phone>>

\* The rows of the thread, each with its menu.
Listed(m) == InChat /\ Screen.thread[m] # "none"
OpenMenu(m) ==
    /\ Plays("messages") /\ Listed(m) /\ Screen.sheet = Nothing
    /\ stack' = [stack EXCEPT ![Top].sheet = m]
    /\ UNCHANGED <<scene, left, db, log, phone, tasks>>

\* The menu holds a message of the thread, which may be gone from the database.
Deletes(d) ==
    /\ LET s == [stack EXCEPT ![Top] = Queue([@ EXCEPT !.sheet = Nothing], Read("thread", ""))]
       IN  /\ \A i \in DOMAIN s : Len(s[i].loads) < MaxLoads
           /\ IF d = db THEN stack' = s /\ UNCHANGED <<left, db, tasks>>
                        ELSE Spend /\ Writes(d, s, tasks)
    /\ UNCHANGED <<scene, log, phone>>

InMenu == InChat /\ Screen.sheet \in Msgs
MenuRetracts == InMenu /\ Screen.thread[Screen.sheet] \in Mine

DeleteForMe ==
    /\ InMenu
    /\ Deletes([db EXCEPT !.msgs[Screen.sheet] = "none"])

\* Offered for the own messages only, and asked again of the row.
DeleteForEveryone ==
    /\ MenuRetracts
    /\ Deletes(IF db.msgs[Screen.sheet] \in Mine
               THEN [db EXCEPT !.msgs[Screen.sheet] = "none"] ELSE db)

----------------------------------------------------------------------------
(* The requests: banners of the chat, cards and sheets of the contact page.    *)

Answer(k, yes) ==
    [op |-> "answer", at |-> Top, k |-> k, yes |-> yes, was |-> "?"]

\* A tap while another screen's answer is under way logs the change twice.
Alone(k, own) ==
    "double" \in Windows
    \/ ~\E t \in tasks : t.op = "answer" /\ t.k = k /\ t.at \notin own

\* Fault: the buttons are only disabled by the reload.
Respond_Unguarded == TRUE

\* Synchronous, because the banner goes only with the reload.
Respond == "answer" \notin Screen.busy

RequestBanner(k) == InChat /\ Screen.seen.pend[k] = "theirs"
TapInChat(k, yes) ==
    /\ RequestBanner(k)
    /\ Respond /\ Alone(k, {Top})
    /\ stack' = Busies("answer")
    /\ tasks' = tasks \cup {Answer(k, yes)}
    /\ UNCHANGED <<scene, left, db, log, phone>>

\* The contact page's card has no such guard; a sheet of the page withdraws this
\* phone's request or makes one.
RequestCard(k) == InPage /\ Screen.seen.pend[k] = "theirs"
WithdrawSheet(k) == InPage /\ Screen.seen.pend[k] = "mine"
AskSheet(k) == InPage /\ Screen.seen.pend[k] # "mine"
TapInContact(k, yes) ==
    /\ RequestCard(k) \/ (WithdrawSheet(k) /\ ~yes)
    /\ Alone(k, {})
    /\ tasks' = tasks \cup {Answer(k, yes)}
    /\ UNCHANGED <<scene, left, db, log, phone, stack>>

\* acceptRetention and its likes read the request, then write: an accept without a
\* pending request returns, a cancel always clears.
AnswerReads(t) ==
    /\ t \in tasks /\ t.op = "answer" /\ t.was = "?"
    /\ tasks' = (tasks \ {t}) \cup {[t EXCEPT !.was = db.pend[t.k]]}
    /\ UNCHANGED <<scene, left, db, log, phone, stack>>

Stale(t) == t.yes /\ t.was # "theirs"
Reloads(t) ==
    IF t.at = 0 THEN stack
    ELSE [stack EXCEPT ![t.at] = Queue(@, Read("row", IF @.kind = "chat" THEN "answer" ELSE ""))]

AnswerWrites(t) ==
    /\ t \in tasks /\ t.op = "answer" /\ t.was # "?"
    /\ \A i \in DOMAIN stack : Len(Reloads(t)[i].loads) < MaxLoads
    /\ IF Stale(t) THEN stack' = Reloads(t) /\ tasks' = tasks \ {t} /\ UNCHANGED <<db, log>>
       ELSE /\ Writes([db EXCEPT !.pend[t.k] = "none"], Reloads(t), tasks \ {t})
            /\ log' = [log EXCEPT ![t.k] = IF t.was = "none" THEN @ ELSE @ + 1]
    /\ UNCHANGED <<scene, left, phone>>

\* A request of this phone replaces what is pending, unless it is its own.
AsksFor(k) ==
    /\ Spend
    /\ Plays("requests") /\ AskSheet(k)
    /\ db.pend[k] # "mine"
    /\ Writes([db EXCEPT !.pend[k] = "mine"], stack, tasks)
    /\ log' = [log EXCEPT ![k] = 0]
    /\ UNCHANGED <<scene, phone>>

----------------------------------------------------------------------------
(* The person: mute, block, verify, delete, scan.                              *)

\* setMuted and setContactBlocked tell nobody: the page puts the field into the
\* contact it had at the tap.
Puttings(i) == {n \in DOMAIN stack[i].loads : stack[i].loads[n].what = "put"}
Toggle(f) ==
    /\ Plays("person") /\ InPage
    /\ "toggle" \in Windows \/ Screen.loads = <<>>
    /\ Room
    /\ LET value == ~Screen.seen[f]
       IN  /\ db' = [db EXCEPT ![f] = value]
           /\ stack' = [stack EXCEPT ![Top] =
                 Queue(@, [what |-> "put", then |-> "", put |-> [@.seen EXCEPT ![f] = value]])]
    /\ UNCHANGED <<scene, left, log, phone, tasks>>

\* The report sheet of a message blocks too, and the chat reads its rows.
ReportBlocks ==
    /\ Plays("person") /\ InChat /\ ~Screen.seen.blocked
    /\ Room
    /\ db' = [db EXCEPT !.blocked = TRUE]
    /\ stack' = [stack EXCEPT ![Top] = Queue(@, Read("row", ""))]
    /\ UNCHANGED <<scene, left, log, phone, tasks>>

\* Both persons compare; the press is written, told, and read again.
Unconfirmed == Shows("verify") /\ ~Screen.seen.local
Confirm ==
    /\ Unconfirmed
    /\ LET s == [stack EXCEPT ![Top] = Queue(@, Read("row", ""))]
       IN  /\ \A i \in DOMAIN s : Len(s[i].loads) < MaxLoads
           /\ Writes([db EXCEPT !.local = db.there], s, tasks)
    /\ UNCHANGED <<scene, left, log, phone>>

\* Done: from a scan on to the contact, otherwise back.
Done ==
    /\ Shows("verify") /\ Verified(Screen.seen)
    /\ IF Screen.scanned
       THEN Swaps("contact", FALSE, Detach(Top)) /\ UNCHANGED <<scene, left, db, log, phone>>
       ELSE Leaves

Removed == [db EXCEPT !.there = FALSE, !.lock = FALSE, !.pend = [k \in Asks |-> "none"],
                      !.local = FALSE, !.peer = FALSE, !.blocked = FALSE, !.muted = FALSE,
                      !.msgs = NoMessages]

\* removeContact, told to everyone; the page gives way to the contacts tab.
DeleteContact ==
    /\ Plays("person") /\ InPage
    /\ "late" \in Windows \/ ~\E t \in tasks : t.op = "unlock" /\ t.at = Top
    /\ Room
    /\ db' = Removed
    /\ phone' = [phone EXCEPT !.released = FALSE]
    /\ stack' = [i \in DOMAIN stack |-> IF i = Top THEN Hears(Entry("tabs", FALSE)) ELSE Hears(stack[i])]
    /\ tasks' = Detach(Top)
    /\ UNCHANGED <<scene, left, log>>

\* The contacts tab deletes in place.
DeleteContactFromTabs ==
    /\ Plays("person") /\ On("tabs") /\ db.there
    /\ phone' = [phone EXCEPT !.released = FALSE]
    /\ Writes(Removed, stack, tasks)
    /\ UNCHANGED <<scene, left, log>>

\* The camera reports a code many times; one is handled.
Handling == Screen.busy # {}

ScanCode ==
    /\ On("scan") /\ ~Handling
    /\ stack' = Busies("scan")
    /\ tasks' = tasks \cup {[op |-> "add", at |-> Top]}
    /\ UNCHANGED <<scene, left, db, log, phone>>

\* router.replace acts on the screen that is visible by then.
ScanAdds(t) ==
    /\ t \in tasks /\ t.op = "add"
    /\ db' = [db EXCEPT !.there = TRUE]
    /\ Swaps("verify", TRUE, Detach(Top) \ {t, [t EXCEPT !.at = 0]})
    /\ UNCHANGED <<scene, left, log, phone>>

\* A code that is refused stays on screen until the user scans again or adds anyway.
ScanFails(t) ==
    /\ t \in tasks /\ t.op = "add"
    /\ tasks' = tasks \ {t}
    /\ stack' = IF t.at = 0 THEN stack ELSE [stack EXCEPT ![t.at].busy = {"refused"}]
    /\ UNCHANGED <<scene, left, db, log, phone>>

ScanAgain ==
    /\ On("scan") /\ Screen.busy = {"refused"}
    /\ stack' = [stack EXCEPT ![Top].busy = {}]
    /\ UNCHANGED <<scene, left, db, log, phone, tasks>>

AddAnyway ==
    /\ On("scan") /\ Screen.busy = {"refused"}
    /\ tasks' = tasks \cup {[op |-> "add", at |-> Top]}
    /\ UNCHANGED <<scene, left, db, log, phone, stack>>

----------------------------------------------------------------------------
(* The list, and what the services write.                                      *)

\* A long press or a swipe on a row.  Clear keeps the conversation and its lock,
\* delete drops both.
RowMenu == On("tabs") /\ Screen.list.row.shown
ClearChat ==
    /\ Spend
    /\ Plays("list") /\ RowMenu
    /\ Writes([db EXCEPT !.msgs = NoMessages], stack, tasks)
    /\ UNCHANGED <<scene, log, phone>>

DeleteChat ==
    /\ Spend
    /\ Plays("list") /\ RowMenu
    /\ Writes([db EXCEPT !.msgs = NoMessages, !.lock = FALSE, !.pend = [k \in Asks |-> "none"]],
              stack, tasks)
    /\ phone' = [phone EXCEPT !.released = FALSE]
    /\ UNCHANGED <<scene, log>>

\* The peer's writes reach an unlocked phone only.
Reaches == ~phone.locked /\ db.there

PeerSends(m) ==
    /\ Spend
    /\ Plays("inbound") /\ Reaches /\ db.local /\ db.peer /\ ~db.blocked
    /\ db.msgs[m] = "none"
    /\ Writes([db EXCEPT !.msgs[m] = "unread"], stack, tasks)
    /\ UNCHANGED <<scene, log, phone>>

\* It expires here, or the peer retracts it.
Vanishes(m) ==
    /\ Spend
    /\ Plays("inbound") /\ Reaches
    /\ db.msgs[m] # "none"
    /\ Writes([db EXCEPT !.msgs[m] = "none"], stack, tasks)
    /\ UNCHANGED <<scene, log, phone>>

PeerAsks(k) ==
    /\ Spend
    /\ Plays("requests") /\ Reaches /\ db.pend[k] # "theirs"
    /\ Writes([db EXCEPT !.pend[k] = "theirs"], stack, tasks)
    /\ log' = [log EXCEPT ![k] = 0]
    /\ UNCHANGED <<scene, phone>>

\* The peer accepts, declines or withdraws.
PeerEnds(k) ==
    /\ Spend
    /\ Plays("requests") /\ Reaches /\ db.pend[k] # "none"
    /\ Writes([db EXCEPT !.pend[k] = "none"], stack, tasks)
    /\ UNCHANGED <<scene, log, phone>>

PeerConfirms ==
    /\ Plays("person") /\ Reaches /\ ~db.peer
    /\ "toggle" \in Windows \/ \A i \in DOMAIN stack : Puttings(i) = {}
    /\ Writes([db EXCEPT !.peer = TRUE], stack, tasks)
    /\ UNCHANGED <<scene, left, log, phone>>

----------------------------------------------------------------------------
(* Away and back.                                                             *)

\* The app lock closes the database and drops every released key: reads and
\* handlers end, the lists start anew, and the tabs redirect when visible.
AppLock ==
    /\ Plays("away") /\ ~phone.locked
    /\ "late" \in Windows \/ ~\E t \in tasks : t.op = "unlock"
    /\ phone' = [phone EXCEPT !.locked = TRUE, !.released = FALSE]
    /\ stack' = Lands([i \in DOMAIN stack |->
                          [stack[i] EXCEPT !.loads = <<>>, !.busy = {}, !.list = NoList]], TRUE)
    /\ tasks' = {t \in tasks : t.op = "unlock"}
    /\ UNCHANGED <<scene, left, db, log>>

\* succeed: the lock screen gives way to the tabs.
AppUnlock ==
    /\ phone.fg /\ phone.locked /\ Screen.kind = "lock"
    /\ phone' = [phone EXCEPT !.locked = FALSE]
    /\ Swaps("tabs", FALSE, tasks)
    /\ UNCHANGED <<scene, left, db, log>>

Background ==
    /\ Plays("away") /\ phone.fg
    /\ phone' = [phone EXCEPT !.fg = FALSE]
    /\ UNCHANGED <<scene, left, db, log, stack, tasks>>

\* No event tells a chat what came meanwhile: it reads and marks by itself.
Foreground ==
    /\ ~phone.fg
    /\ phone' = [phone EXCEPT !.fg = TRUE]
    /\ IF Screen.kind = "chat" /\ ~phone.locked THEN Focus(stack, tasks)
                                                ELSE UNCHANGED <<stack, tasks>>
    /\ UNCHANGED <<scene, left, db, log>>

----------------------------------------------------------------------------

Init ==
    /\ scene \in Scenes
    /\ phone = [locked |-> FALSE, fg |-> TRUE, released |-> FALSE]
    /\ \E lock \in IF Plays("lock") THEN BOOLEAN ELSE {FALSE},
          there \in IF Plays("person") THEN BOOLEAN ELSE {TRUE} :
          db = [there |-> there, lock |-> lock, pend |-> [k \in Asks |-> "none"],
                local |-> ~Plays("person"), peer |-> ~Plays("person"),
                blocked |-> FALSE, muted |-> FALSE, msgs |-> NoMessages]
    /\ log = [k \in Asks |-> 0]
    /\ left = MaxWrites
    /\ stack = <<[Entry("tabs", FALSE) EXCEPT !.list.loading = TRUE]>>
    /\ tasks = {}

Moves ==
    \/ OpenChatFromList \/ PickContact \/ OpenContactFromTabs \/ OpenContactFromChat
    \/ OpenChatFromContact \/ OpenVerify \/ OpenScanner \/ Back \/ Done
    \/ AppLock \/ AppUnlock \/ Background \/ Foreground

Reads ==
    \/ \E i \in DOMAIN stack : Load(i) \/ Poll(i) \/ ListReads(i) \/ ListShows(i)
    \/ \E t \in tasks : MarkReads(t) \/ MarkWrites(t)

Locking ==
    \/ StartUnlock \/ OpenLockSheet \/ CloseSheet \/ EnableLock \/ ChangeCode
    \/ RemoveLock \/ ForgotCode
    \/ \E t \in tasks, right \in BOOLEAN : UnlockEnds(t, right)

Talking ==
    \/ \E m \in Msgs : SendText(m) \/ SendPhoto(m) \/ OpenMenu(m) \/ PeerSends(m) \/ Vanishes(m)
    \/ \E t \in tasks : SendEnds(t)
    \/ DeleteForMe \/ DeleteForEveryone \/ ClearChat \/ DeleteChat

Asking ==
    \/ \E k \in Asks :
          \/ AsksFor(k) \/ PeerAsks(k) \/ PeerEnds(k)
          \/ \E yes \in BOOLEAN : TapInChat(k, yes) \/ TapInContact(k, yes)
    \/ \E t \in tasks : AnswerReads(t) \/ AnswerWrites(t)

Person ==
    \/ \E f \in {"muted", "blocked"} : Toggle(f)
    \/ ReportBlocks \/ Confirm \/ PeerConfirms \/ DeleteContact \/ DeleteContactFromTabs
    \/ ScanCode \/ ScanAgain \/ AddAnyway
    \/ \E t \in tasks : ScanAdds(t) \/ ScanFails(t)

Next == Moves \/ Reads \/ Locking \/ Talking \/ Asking \/ Person

Spec == Init /\ [][Next]_vars

----------------------------------------------------------------------------
(* Properties.                                                               *)

EntryOK(e) ==
    /\ e.kind \in {"tabs", "chat", "contact", "verify", "scan", "lock"}
    /\ DOMAIN e.seen = DOMAIN Blank
    /\ e.thread \in [Msgs -> {"none", "unread", "read"} \cup Mine]
    /\ Len(e.loads) <= MaxLoads
    /\ e.busy \subseteq {"send", "answer", "gate", "scan", "refused"}
    /\ e.sheet \in Msgs \cup {"lock", Nothing}

\* The types; the tabs stay at the bottom of the stack; and one request is logged
\* at most once on this phone (chat/[id].tsx: "log the change twice").
TypeOK ==
    /\ scene \in Scenes /\ left \in 0..MaxWrites
    /\ db.msgs \in [Msgs -> {"none", "unread", "read"} \cup Mine]
    /\ db.pend \in [Asks -> {"none", "theirs", "mine"}]
    /\ phone \in [locked : BOOLEAN, fg : BOOLEAN, released : BOOLEAN]
    /\ Top \in 1..MaxDepth /\ \A i \in DOMAIN stack : EntryOK(stack[i])
    /\ stack[1].kind \in {"tabs", "lock"}
    /\ \A t \in tasks : t.at \in 0..Top
    /\ log \in [Asks -> 0..1]

\* What the gate promises: no message is marked read by a chat whose gate is
\* shown; a chat that shows its thread can open it; and no key stays released
\* behind the app lock (chat/[id].tsx, chat-locks.ts).
MarksRead == \E m \in Msgs : db.msgs[m] = "unread" /\ db'.msgs[m] = "read"
GateGuards ==
    /\ [][MarksRead => \E t \in tasks \ tasks' :
                          t.op = "mark" /\ (t.at = 0 \/ ~Gated(stack[t.at]))]_vars
    /\ [](phone.locked => ~phone.released)
    /\ [](InChat /\ Screen.seen.lock /\ db.lock => phone.released)

Quiet ==
    /\ Ready /\ tasks = {}
    /\ \A i \in DOMAIN stack : stack[i].loads = <<>>

\* Once nothing is under way the visible screen shows what the database holds,
\* though nobody tells a covered screen of a toggle and a scan.
ScreensFollow ==
    Quiet => CASE Screen.kind = "chat" -> Screen.seen = Facts(db) /\ Screen.thread = db.msgs
               [] Screen.kind = "contact" -> Screen.seen = Facts(db)
               [] Screen.kind = "verify" -> db.there => Screen.seen = Facts(db)
               [] Screen.kind = "tabs" -> Screen.list.loading \/ Screen.list.row = RowOf(db)
               [] OTHER -> TRUE
=============================================================================
