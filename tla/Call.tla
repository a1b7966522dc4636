-------------------------------- MODULE Call --------------------------------
(***************************************************************************)
(* The call state machine of calls/controller.ts, one controller on every  *)
(* phone, over the sealed signaling channel.                               *)
(*                                                                         *)
(* A controller owns at most one call.  Placing and answering are chains   *)
(* of awaits (credentials, engine, the sealed send), and between two of    *)
(* them a frame, a timer, a press or the app lock may run; every chain     *)
(* checks afterwards that its call is still the current one.  Frames       *)
(* between two phones keep their order and each reaches the controller at  *)
(* most once: the Signal session refuses the second delivery.              *)
(*                                                                         *)
(* phone[d] is the controller of d with the devices it drives; chan[s][d]  *)
(* is what s sent and d has not handled; luck is what may still go wrong.  *)
(***************************************************************************)
EXTENDS Naturals, Sequences

CONSTANTS
    Phone,      \* the phones
    Plan,       \* call id -> <<caller, callee>>: the calls that may be placed
    Scenes      \* bound: [calls, faults, max]: the calls placed, the kinds of trouble that may
                \* strike, and how often

ASSUME CallConstants ==
    /\ DOMAIN Plan \subseteq Nat \ {0}
    /\ \A c \in DOMAIN Plan : Plan[c] \in Phone \X Phone /\ Plan[c][1] # Plan[c][2]
    /\ Scenes \subseteq [ calls : SUBSET DOMAIN Plan, max : Nat,
                          faults : SUBSET {"media", "ack", "late", "ice", "lock", "crash"} ]

VARIABLES phone, chan, luck

vars == <<phone, chan, luck>>

-----------------------------------------------------------------------------
Ids == DOMAIN Plan
Caller(c) == Plan[c][1]
Other(d, c) == IF Caller(c) = d THEN Plan[c][2] ELSE Caller(c)

Statuses == {"idle", "starting", "outgoing-ringing", "incoming-ringing", "connecting",
             "active", "reconnecting", "ending"}
Timers == {"ring", "connect", "disconnect", "linger"}
Rows == {"none", "outgoing", "incoming", "declined", "missed", "missed-unread"}
Reasons == {"hangup", "decline", "busy", "timeout", "error"}

\* Where the chain of awaits of a call stands; a ringing call has not begun its chain.
Stages == {"none", "turn", "engine", "sending", "done"}

Calls == [id : Ids \cup {0}, stage : Stages, answered : BOOLEAN]
NoCall == [id |-> 0, stage |-> "none", answered |-> FALSE]

Signals == [t : {"offer", "accept", "answer"} \cup Reasons, id : Ids]
IsEnd(m) == m.t \in Reasons

Locking == [id : Ids \cup {0}, row : Rows]
NotLocking == [id |-> 0, row |-> "none"]

Phones == [ status : Statuses, call : Calls, timers : SUBSET Timers, recent : SUBSET Ids,
            rows : [Ids -> Rows], ringing : BOOLEAN, mics : SUBSET Ids,
            asking : SUBSET Ids, placed : SUBSET Ids,
            locking : Locking, locked : BOOLEAN, talked : SUBSET Ids ]

Fresh == [ status |-> "idle", call |-> NoCall, timers |-> {}, recent |-> {},
           rows |-> [c \in Ids |-> "none"], ringing |-> FALSE, mics |-> {},
           asking |-> {}, placed |-> {},
           locking |-> NotLocking, locked |-> FALSE, talked |-> {} ]

Spend(kind) == kind \in luck.faults /\ luck.max > 0 /\ luck' = [luck EXCEPT !.max = @ - 1]

-----------------------------------------------------------------------------
(* What the controller's helpers do to its own phone.                      *)

InCall(p) == p.call.id # 0
Outgoing(d, p) == InCall(p) /\ Caller(p.call.id) = d
OfferSendStarted(p) == p.call.stage \in {"sending", "done"}

\* The row id is the call id and the insert ignores a second one.
WriteRow(p, c, row) == IF p.rows[c] = "none" THEN [p EXCEPT !.rows[c] = row] ELSE p

CompletedRow(d, p) == IF Outgoing(d, p) THEN "outgoing" ELSE "incoming"

\* teardown(): timers, ringtone and engine of the call given, and no call afterwards.
Teardown(p, c) ==
    [p EXCEPT !.timers = @ \cap {"linger"}, !.ringing = FALSE,
              !.mics = @ \ {c}, !.recent = @ \cup {c}, !.call = NoCall]

Finish(p, row) ==
    [Teardown(WriteRow(p, p.call.id, row), p.call.id)
        EXCEPT !.status = "ending", !.timers = @ \cup {"linger"}]

\* The row and the end reason of hangUp(), which onAppLocking() repeats.
HangUpRow(d, p) ==
    IF p.status = "starting" THEN IF OfferSendStarted(p) THEN "missed" ELSE "none"
    ELSE IF p.status = "outgoing-ringing" THEN "missed"
    ELSE IF p.status = "incoming-ringing" THEN "declined"
    ELSE IF p.status = "connecting" THEN IF Outgoing(d, p) THEN "missed" ELSE "declined"
    ELSE CompletedRow(d, p)

HangUpReason(p) == IF p.status = "incoming-ringing" THEN "decline" ELSE "hangup"

\* Fault: an attempt that is still starting never tells the peer.
Silent_WhileStarting(p) == p.status = "starting"

\* Only an attempt that signaled nothing ends without telling the peer.
Silent(p) == p.status = "starting" /\ ~OfferSendStarted(p)

\* Beginning of answer(): ringtone off, the chain started.
Accepting(p) ==
    [p EXCEPT !.status = "connecting", !.ringing = FALSE,
              !.timers = @ \ {"ring"}, !.call.stage = "turn"]

AdoptIncoming(p, c) ==
    [p EXCEPT !.call = [NoCall EXCEPT !.id = c], !.status = "incoming-ringing",
              !.timers = (@ \ {"linger"}) \cup {"ring"}, !.ringing = TRUE]

Post(ch, d, c, t) == [ch EXCEPT ![d][Other(d, c)] = Append(@, [t |-> t, id |-> c])]

\* End the current call of d by this row, telling the peer why.
EndWith(d, reason, row) ==
    /\ chan' = Post(chan, d, phone[d].call.id, reason)
    /\ phone' = [phone EXCEPT ![d] = Finish(@, row)]

\* End it without a word.
EndSilently(d, row) ==
    /\ phone' = [phone EXCEPT ![d] = Finish(@, row)]
    /\ UNCHANGED chan

-----------------------------------------------------------------------------
(* Placing a call.                                                         *)

\* checkAvailability(): no call yet; the session check is awaited.
Ask(d, c) ==
    /\ c \in luck.calls /\ Caller(c) = d
    /\ c \notin phone[d].placed /\ c \notin phone[d].asking
    /\ ~InCall(phone[d]) /\ ~phone[d].locked
    /\ phone' = [phone EXCEPT ![d].asking = @ \cup {c}]
    /\ UNCHANGED <<chan, luck>>

\* Fault: the slot is not looked at again after the awaits of the availability check.
Free_NotChecked(p) == TRUE

\* After the availability awaits: an offer adopted meanwhile keeps the slot.
Free(p) == ~InCall(p)

Place(d, c) ==
    /\ c \in phone[d].asking
    /\ ~phone[d].locked
    /\ LET asked == [phone[d] EXCEPT !.asking = @ \ {c}, !.placed = @ \cup {c}]
       IN  phone' = [phone EXCEPT ![d] =
              IF Free(phone[d])
              THEN [asked EXCEPT !.call = [id |-> c, stage |-> "turn", answered |-> FALSE],
                                 !.status = "starting", !.timers = @ \ {"linger"}]
              ELSE asked]
    /\ UNCHANGED <<chan, luck>>

\* The TURN credentials arrive; the engine is created and starts (microphone, gathering).
Credentials(d) ==
    /\ phone[d].call.stage = "turn"
    /\ phone' = [phone EXCEPT ![d].call.stage = "engine",
                              ![d].mics = @ \cup {phone[d].call.id}]
    /\ UNCHANGED <<chan, luck>>

\* The SDP is ready and is handed to the transport: the offer or the answer.
SdpReady(d) ==
    /\ phone[d].call.stage = "engine"
    /\ phone' = [phone EXCEPT ![d].call.stage = "sending"]
    /\ chan' = Post(chan, d, phone[d].call.id, IF Outgoing(d, phone[d]) THEN "offer" ELSE "answer")
    /\ UNCHANGED luck

\* The fetch, the microphone or the gathering fails.
MediaFails(d) ==
    /\ Spend("media")
    /\ phone[d].call.stage \in {"turn", "engine"}
    /\ IF Outgoing(d, phone[d])
         THEN EndSilently(d, "none")
         ELSE EndWith(d, "error", "missed")

\* Fault: the ring timer is not armed.
Acked_NoRingTimer(d) ==
    /\ phone[d].call.stage = "sending"
    /\ LET p == phone[d]
       IN  phone' = [phone EXCEPT ![d] =
              IF Outgoing(d, p)
              THEN [p EXCEPT !.call.stage = "done", !.status = "outgoing-ringing"]
              ELSE [p EXCEPT !.call.stage = "done", !.timers = @ \cup {"connect"}]]
    /\ UNCHANGED <<chan, luck>>

\* The relay acknowledged the send in time: ring, or wait for media.
Acked(d) ==
    /\ phone[d].call.stage = "sending"
    /\ LET p == phone[d]
       IN  phone' = [phone EXCEPT ![d] =
              IF Outgoing(d, p)
              THEN [p EXCEPT !.call.stage = "done", !.status = "outgoing-ringing",
                             !.timers = @ \cup {"ring"}]
              ELSE [p EXCEPT !.call.stage = "done", !.timers = @ \cup {"connect"}]]
    /\ UNCHANGED <<chan, luck>>

\* No acknowledgement within signalTimeoutMs; the frame itself is still on its way.
AckTimesOut(d) ==
    /\ Spend("ack")
    /\ phone[d].call.stage = "sending"
    /\ IF Outgoing(d, phone[d])
         THEN EndWith(d, "hangup", "none")
         ELSE EndWith(d, "error", "missed")

-----------------------------------------------------------------------------
(* The user.                                                               *)

Answer(d) ==
    /\ phone[d].status = "incoming-ringing"
    /\ phone' = [phone EXCEPT ![d] = Accepting(@)]
    /\ chan' = Post(chan, d, phone[d].call.id, "accept")
    /\ UNCHANGED luck

\* decline() and hangUp().
HangUp(d) ==
    /\ InCall(phone[d]) /\ phone[d].status \notin {"idle", "ending"}
    /\ IF Silent(phone[d])
         THEN EndSilently(d, "none")
         ELSE EndWith(d, HangUpReason(phone[d]), HangUpRow(d, phone[d]))
    /\ UNCHANGED luck

-----------------------------------------------------------------------------
(* Timers.                                                                 *)

\* The ring timer of the caller (45 s) and the backstop of the callee.
RingTimeout(d) ==
    /\ "ring" \in phone[d].timers
    /\ CASE phone[d].status = "outgoing-ringing" -> EndWith(d, "timeout", "missed")
         [] phone[d].status = "incoming-ringing" -> EndSilently(d, "missed-unread")
         [] OTHER -> phone' = [phone EXCEPT ![d].timers = @ \ {"ring"}] /\ UNCHANGED chan
    /\ UNCHANGED luck

ConnectTimeout(d) ==
    /\ "connect" \in phone[d].timers
    /\ IF phone[d].status = "connecting"
         THEN EndWith(d, "error", "missed")
         ELSE phone' = [phone EXCEPT ![d].timers = @ \ {"connect"}] /\ UNCHANGED chan
    /\ UNCHANGED luck

GraceTimeout(d) ==
    /\ "disconnect" \in phone[d].timers
    /\ IF phone[d].status = "reconnecting"
         THEN EndWith(d, "error", CompletedRow(d, phone[d]))
         ELSE phone' = [phone EXCEPT ![d].timers = @ \ {"disconnect"}] /\ UNCHANGED chan
    /\ UNCHANGED luck

LingerTimeout(d) ==
    /\ "linger" \in phone[d].timers
    /\ phone' = [phone EXCEPT ![d].timers = @ \ {"linger"},
                              ![d].status = IF @ = "ending" THEN "idle" ELSE @]
    /\ UNCHANGED <<chan, luck>>

-----------------------------------------------------------------------------
(* Inbound frames.                                                         *)

\* An answer to an offer normally comes after the acknowledgement of that offer.
OnTime(d, m) == ~(m.id = phone[d].call.id /\ phone[d].call.stage = "sending" /\ Caller(m.id) = d)

Take(s, d) ==
    /\ chan[s][d] # <<>> /\ ~phone[d].locked
    /\ IF OnTime(d, Head(chan[s][d])) THEN UNCHANGED luck ELSE Spend("late")

Rest(s, d) == [chan EXCEPT ![s][d] = Tail(@)]

\* Fault: the tie break is not symmetric: each side gives way.
CallOfferWins_Never(mine, theirs) == FALSE

\* callOfferWins(): the smaller call id wins, on both sides.
CallOfferWins(mine, theirs) == mine < theirs

GlareEligible(d, s) ==
    LET p == phone[d]
    IN  Outgoing(d, p) /\ Other(d, p.call.id) = s /\ p.status \in {"outgoing-ringing", "starting"}

\* An offer is stale only after the caller's ring window, so its caller has left.
MayBeStale(c) == phone[Caller(c)].call.id # c

HandleOffer(s, d) ==
    LET m == Head(chan[s][d])
        p == phone[d]
        mine == p.call.id
        became(q) == phone' = [phone EXCEPT ![d] = q]
        remembered == [p EXCEPT !.recent = @ \cup {m.id}]
    IN
    /\ Take(s, d) /\ m.t = "offer"
    /\ \/ /\ m.id \in p.recent
          /\ UNCHANGED phone /\ chan' = Rest(s, d)
       \/ /\ m.id \notin p.recent /\ GlareEligible(d, s) /\ CallOfferWins(mine, m.id)
          /\ became(remembered) /\ chan' = Rest(s, d)
       \/ /\ m.id \notin p.recent /\ GlareEligible(d, s) /\ ~CallOfferWins(mine, m.id)
          /\ became(Accepting(AdoptIncoming(
                [p EXCEPT !.timers = @ \cap {"linger"}, !.mics = @ \ {mine},
                          !.recent = @ \cup {mine}], m.id)))
          /\ chan' = Post(Rest(s, d), d, m.id, "accept")
       \/ /\ m.id \notin p.recent /\ InCall(p) /\ ~GlareEligible(d, s)
          /\ became(IF Other(d, mine) = s THEN remembered
                    ELSE WriteRow(remembered, m.id, "missed-unread"))
          /\ chan' = Post(Rest(s, d), d, m.id, "busy")
       \/ /\ m.id \notin p.recent /\ ~InCall(p) /\ MayBeStale(m.id)
          /\ became(WriteRow(remembered, m.id, "missed-unread")) /\ chan' = Rest(s, d)
       \/ /\ m.id \notin p.recent /\ ~InCall(p)
          /\ became(AdoptIncoming(p, m.id)) /\ chan' = Rest(s, d)

HandleAccepted(s, d) ==
    LET m == Head(chan[s][d])
        p == phone[d]
    IN
    /\ Take(s, d) /\ m.t = "accept"
    /\ chan' = Rest(s, d)
    /\ IF m.id = p.call.id /\ Outgoing(d, p) /\ p.status = "outgoing-ringing"
         THEN phone' = [phone EXCEPT ![d].status = "connecting",
                                     ![d].timers = (@ \ {"ring"}) \cup {"connect"}]
         ELSE UNCHANGED phone

HandleAnswer(s, d) ==
    LET m == Head(chan[s][d])
        p == phone[d]
    IN
    /\ Take(s, d) /\ m.t = "answer"
    /\ chan' = Rest(s, d)
    /\ IF /\ m.id = p.call.id /\ Outgoing(d, p) /\ ~p.call.answered
          /\ p.status \in {"outgoing-ringing", "connecting"}
         THEN phone' = [phone EXCEPT ![d].status = "connecting", ![d].call.answered = TRUE,
                                     ![d].timers = (@ \ {"ring"}) \cup {"connect"}]
         ELSE UNCHANGED phone

\* Fault: an end marker logs every unfinished or running call as missed.
EndRow_AlwaysMissed(d, p, reason) == "missed"

\* Fault: the reason of the marker is taken for the kind of the row.
EndRow_IsReason(d, p, reason) == reason

\* The row of an end marker that meets its call.
EndRow(d, p, reason) ==
    IF p.status = "incoming-ringing" THEN "missed-unread"
    ELSE IF p.status = "outgoing-ringing" THEN IF reason = "decline" THEN "declined" ELSE "missed"
    ELSE IF p.status = "connecting" THEN "missed"
    ELSE CompletedRow(d, p)

HandleEnd(s, d) ==
    LET m == Head(chan[s][d])
        p == phone[d]
        remembered == [p EXCEPT !.recent = @ \cup {m.id}]
    IN
    /\ Take(s, d) /\ IsEnd(m)
    /\ chan' = Rest(s, d)
    /\ \/ /\ m.id = p.call.id /\ p.status # "starting"
          /\ phone' = [phone EXCEPT ![d] = Finish(p, EndRow(d, p, m.t))]
       \/ /\ m.id = p.call.id /\ p.status = "starting"
          /\ UNCHANGED phone
       \/ /\ m.id # p.call.id /\ m.id \notin p.recent
          /\ phone' = [phone EXCEPT ![d] =
                IF m.t \in {"hangup", "timeout"}
                THEN WriteRow(remembered, m.id, "missed-unread") ELSE remembered]
       \/ /\ m.id # p.call.id /\ m.id \in p.recent
          /\ UNCHANGED phone

-----------------------------------------------------------------------------
(* Media.                                                                  *)

\* Both engines run and the caller applied the answer.
MediaPath(c) ==
    /\ phone[Caller(c)].call.answered /\ phone[Caller(c)].call.id = c
    /\ \A d \in {Caller(c), Other(Caller(c), c)} : c \in phone[d].mics

IceConnected(d) ==
    LET p == phone[d]
    IN
    /\ InCall(p) /\ MediaPath(p.call.id)
    /\ p.status \in {"connecting", "reconnecting"}
    /\ phone' = [phone EXCEPT ![d].status = "active",
                              ![d].talked = @ \cup {p.call.id},
                              ![d].timers = @ \ (IF p.status = "connecting" THEN {"connect"}
                                                 ELSE {"disconnect"})]
    /\ UNCHANGED <<chan, luck>>

\* The path is lost because the peer closed its engine, or because the network is bad.
PathLost(d) == IF MediaPath(phone[d].call.id) THEN Spend("ice") ELSE UNCHANGED luck

IceDisconnected(d) ==
    /\ phone[d].status = "active"
    /\ PathLost(d)
    /\ phone' = [phone EXCEPT ![d].status = "reconnecting", ![d].timers = @ \cup {"disconnect"}]
    /\ UNCHANGED chan

\* ICE gives up, or the engine rejects the answer it was given.
IceFailed(d) ==
    /\ phone[d].status \in {"connecting", "active", "reconnecting"}
    /\ phone[d].call.id \in phone[d].mics
    /\ Spend("ice")
    /\ EndWith(d, "error", IF phone[d].status = "connecting" THEN "missed"
                           ELSE CompletedRow(d, phone[d]))

-----------------------------------------------------------------------------
(* The app lock and the end of the process.                                *)

\* onAppLocking() up to its first await: what it will send and write is decided here.
\* With nothing to send it has no await and tears down at once.
LockBegin(d) ==
    LET p == phone[d]
    IN
    /\ Spend("lock")
    /\ ~p.locked /\ p.locking = NotLocking
    /\ \/ /\ ~InCall(p)
          /\ phone' = [phone EXCEPT ![d].locked = TRUE]
          /\ UNCHANGED chan
       \/ /\ InCall(p) /\ Silent(p)
          /\ phone' = [phone EXCEPT ![d] =
                [Teardown(p, p.call.id) EXCEPT !.status = "idle", !.locked = TRUE]]
          /\ UNCHANGED chan
       \/ /\ InCall(p) /\ ~Silent(p)
          /\ phone' = [phone EXCEPT ![d].locking = [id |-> p.call.id, row |-> HangUpRow(d, p)]]
          /\ chan' = Post(chan, d, p.call.id, HangUpReason(p))

\* ... and after its awaits: the row, the teardown of the call it began with, then the lock.
LockEnd(d) ==
    LET p == phone[d]
        c == p.locking.id
    IN
    /\ c # 0
    /\ phone' = [phone EXCEPT ![d] =
          [Teardown(WriteRow(p, c, p.locking.row), c)
             EXCEPT !.status = "idle", !.locking = NotLocking, !.locked = TRUE]]
    /\ UNCHANGED <<chan, luck>>

Unlock(d) ==
    /\ phone[d].locked
    /\ phone' = [phone EXCEPT ![d].locked = FALSE]
    /\ UNCHANGED <<chan, luck>>

\* The process dies: frames it had not handed over are lost, rows stay, it restarts locked.
Crash(d) ==
    /\ Spend("crash")
    /\ \E s \in Phone \ {d} : \E n \in 0..Len(chan[d][s]) :
          chan' = [chan EXCEPT ![d][s] = SubSeq(@, 1, n)]
    /\ phone' = [phone EXCEPT ![d] =
          [Fresh EXCEPT !.rows = phone[d].rows, !.placed = phone[d].placed \cup phone[d].asking,
                        !.locked = TRUE]]

-----------------------------------------------------------------------------
Init ==
    /\ phone = [d \in Phone |-> Fresh]
    /\ chan = [s \in Phone |-> [d \in Phone |-> <<>>]]
    /\ luck \in Scenes

Deliver(s, d) == HandleOffer(s, d) \/ HandleAccepted(s, d) \/ HandleAnswer(s, d) \/ HandleEnd(s, d)

Next ==
    \/ \E d \in Phone : \E c \in Ids : Ask(d, c) \/ Place(d, c)
    \/ \E d \in Phone :
         \/ Credentials(d) \/ SdpReady(d) \/ MediaFails(d) \/ Acked(d) \/ AckTimesOut(d)
         \/ Answer(d) \/ HangUp(d)
         \/ RingTimeout(d) \/ ConnectTimeout(d) \/ GraceTimeout(d) \/ LingerTimeout(d)
         \/ IceConnected(d) \/ IceDisconnected(d) \/ IceFailed(d)
         \/ LockBegin(d) \/ LockEnd(d) \/ Unlock(d) \/ Crash(d)
    \/ \E s, d \in Phone : Deliver(s, d)

Spec == Init /\ [][Next]_vars

\* Awaits resolve, timers fire, and an ICE agent whose peer is gone notices.
FairSpec ==
    /\ Spec
    /\ \A d \in Phone :
         /\ WF_vars(Credentials(d)) /\ WF_vars(SdpReady(d)) /\ WF_vars(Acked(d))
         /\ WF_vars(RingTimeout(d)) /\ WF_vars(ConnectTimeout(d))
         /\ WF_vars(GraceTimeout(d)) /\ WF_vars(LingerTimeout(d))
         /\ WF_vars(IceDisconnected(d)) /\ WF_vars(LockEnd(d))

-----------------------------------------------------------------------------
(* Properties.                                                             *)

TypeOK ==
    /\ phone \in [Phone -> Phones]
    /\ \A s, d \in Phone : chan[s][d] \in Seq(Signals)
    /\ \E s \in Scenes : luck = [s EXCEPT !.max = luck.max] /\ luck.max \in 0..s.max

\* Whoever's call it was that took part in a conversation, the timeline keeps a completed
\* row for it and never a missed one (completedRow, and the INSERT OR IGNORE of the rows).
\* Two windows break it, and the scenes with them are exempt: an acknowledgement of the
\* answer that times out after media connected ("ack"), and a call that connects while it
\* is being locked away ("lock"); both log the conversation as missed.
ConversationIsLogged ==
    luck.faults \cap {"ack", "lock"} = {} =>
        \A d \in Phone : \A c \in phone[d].talked :
            phone[d].call.id # c => phone[d].rows[c] = IF Caller(c) = d THEN "outgoing" ELSE "incoming"

\* The caller gives this call up for a call of its peer, if the two cross.
Beaten(c) == \E b \in luck.calls : Plan[b] = <<Plan[c][2], Plan[c][1]>> /\ b < c

\* A phone rings only for a call its caller has not ended, or whose end marker is still to
\* come, or that it is just locking away: "so the peer never ghost rings" (hangUp).
\* Not of a call that is beaten: the loser of a glare drops its offer without a signal, and
\* TLC finds the peer ringing for it without any fault.
NoGhostRing ==
    \A d \in Phone :
        LET c == phone[d].call.id
        IN  (phone[d].status = "incoming-ringing" /\ ~Beaten(c)) =>
              \/ c \notin phone[Caller(c)].recent
              \/ phone[d].locking.id = c
              \/ \E i \in DOMAIN chan[Caller(c)][d] :
                    chan[Caller(c)][d][i].id = c /\ IsEnd(chan[Caller(c)][d][i])

\* The caller calls this peer once.
CalledOnce(c) == \A e \in luck.calls : Plan[e] = Plan[c] => e = c

\* Glare has one winner: two phones are never both the callee of the other, unless the
\* end of one of the two calls is on its way.
\* Not when a process died, when a lock tore down a call placed during its awaits, or when
\* both call again: the offer a loser dropped may then be taken for a new call.
GlareHasOneWinner ==
    luck.faults \cap {"crash", "lock"} = {} =>
        \A s, d \in Phone :
            LET b == phone[s].call.id
                c == phone[d].call.id
            IN  (/\ s # d /\ b # 0 /\ c # 0 /\ Caller(b) = d /\ Caller(c) = s
                 /\ CalledOnce(b) /\ CalledOnce(c))
                => \E x, y \in {s, d} : \E i \in DOMAIN chan[x][y] :
                       chan[x][y][i].id \in {b, c} /\ IsEnd(chan[x][y][i])

\* Locking ends the call: a locked phone holds no microphone.
LockEndsCall == \A d \in Phone : phone[d].locked => phone[d].mics = {}

\* Nothing hangs: starting, ringing, connecting, reconnecting and ending all pass.
Settles ==
    \A d \in Phone :
        phone[d].status \notin {"idle", "active"} ~> phone[d].status \in {"idle", "active"}

\* Nobody talks to a phone that left the call.
ActiveIsMutual ==
    \A d \in Phone : \A c \in Ids :
        (phone[d].status = "active" /\ phone[d].call.id = c /\ phone[Other(d, c)].call.id # c)
            ~> (phone[d].call.id # c)

\* Every call ends: no status hangs, and no side stays in a call the other has left.
CallsEnd == Settles /\ ActiveIsMutual

\* What the snapshots of one controller show.
Direction(d) ==
    IF phone[d].status \in {"idle", "ending"} THEN "none"
    ELSE IF Outgoing(d, phone[d]) THEN "out" ELSE "in"

=============================================================================
