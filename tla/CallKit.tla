------------------------------- MODULE CallKit -------------------------------
(***************************************************************************)
(* The CallKit mirror of services/calls.ts, over the native CallCenter.    *)
(*                                                                         *)
(* The system's call screen and the app's controller each keep a call, and *)
(* one variable, the current uuid, ties them.  A VoIP push makes the       *)
(* system ring before the app can decrypt anything: that native call waits *)
(* in the pending list until an offer claims it or its timer ends it.      *)
(* What the user does on the system's screen comes back as events, which   *)
(* are lost until the first unlock subscribes to them, and the uuid of a   *)
(* call the app reports itself comes back as the result of an await.       *)
(*                                                                         *)
(* The controller is any one that moves as CallLifecycle says.             *)
(***************************************************************************)
EXTENDS Naturals, Sequences, FiniteSets, CallLifecycle

CONSTANTS
    MaxCalls,   \* bound: native calls known at one time
    MaxToggles, \* bound: changes of the speaker by the user
    Windows     \* the windows that are open: see below

\* "late"   the call moves on before the uuid of its native call is known
\* "glare"  two crossed calls, this side giving way with a native call or the speaker on
\* "early"  a push after the root layout mounted and before the first unlock
\* "stale"  a new call while route changes of the last one are undelivered
ASSUME CallKitConstants ==
    /\ MaxCalls \in Nat \ {0} /\ MaxToggles \in Nat
    /\ Windows \subseteq {"late", "glare", "early", "stale"}

\* kit: the native side and the mirror; app: what the user and the screens hold.
VARIABLES kit, app

vars == <<status, dir, kit, app>>

Uuids == 1..MaxCalls
None == 0

Events == [t : {"answer", "end", "push"}, u : Uuids] \cup [t : {"route"}, on : BOOLEAN]
Kits == [ native : [Uuids -> {"none", "ringing", "dialing", "live", "over"}],
          pending : Seq(Uuids), unclaimed : SUBSET Uuids, events : Seq(Events),
          route : BOOLEAN, wired : BOOLEAN, uuid : Uuids \cup {None}, ended : BOOLEAN,
          byKit : BOOLEAN, timers : SUBSET Uuids, waits : SUBSET (Uuids \cup {None}),
          speaker : BOOLEAN ]
Apps == [ mounted : BOOLEAN, unlocked : BOOLEAN, mic : {"ask", "granted", "denied"},
          prompt : BOOLEAN, toggles : 0..MaxToggles ]
Shown == {"ringing", "dialing", "live"}

PendingUuids(k) == {k.pending[i] : i \in DOMAIN k.pending}
Live(k) == {u \in Uuids : k.native[u] \in Shown}
Mentioned(k) == {k.events[i].u : i \in {j \in DOMAIN k.events : k.events[j].t # "route"}}
Unused(k) == Uuids \ (Live(k) \cup Mentioned(k) \cup k.timers \cup k.waits \cup {k.uuid})

\* UUID(): one that nothing refers to.
NewUuid(k, u) == u \in Unused(k) /\ \A v \in Unused(k) : u <= v

-----------------------------------------------------------------------------
(* The native module.                                                      *)

\* Events reach JavaScript in order, once it listens.
Emit(k, e) == IF k.wired THEN [k EXCEPT !.events = Append(@, e)] ELSE k

\* removeAll, where u waits once at most.
Without(s, u) ==
    IF \A i \in DOMAIN s : s[i] # u THEN s
    ELSE LET n == CHOOSE i \in DOMAIN s : s[i] = u
         IN  [i \in 1..(Len(s) - 1) |-> s[IF i < n THEN i ELSE i + 1]]

\* Fault: the remembered answer outlives its pending call.
Consume_KeepsAnswer(k, u) == [k EXCEPT !.pending = Without(@, u)]

Consume(k, u) == [k EXCEPT !.pending = Without(@, u), !.unclaimed = @ \ {u}]

Over(k, u) == IF k.native[u] \in Shown THEN [k EXCEPT !.native[u] = "over"] ELSE k

ReportEnded(k, u) == Over(Consume(k, u), u)

\* reportIncoming and startOutgoing: the system shows the call, or refuses it (None).
Report(k, how, u) ==
    [k EXCEPT !.native = IF u = None THEN @ ELSE [@ EXCEPT ![u] = how], !.waits = @ \cup {u}]

\* setSpeakerphoneOn(): a change of the route is announced.
SetRoute(k, on) ==
    IF k.route = on THEN k ELSE Emit([k EXCEPT !.route = on], [t |-> "route", on |-> on])

-----------------------------------------------------------------------------
(* syncCallKit() at each change of the status.                             *)

NewCall(k) == [k EXCEPT !.ended = FALSE, !.byKit = FALSE, !.speaker = FALSE]

AnsweredEarly(k) == k.pending # <<>> /\ Head(k.pending) \in k.unclaimed

\* The oldest pending native call becomes the call that rings now.
Claim(k) ==
    LET u == Head(k.pending)
    IN  [Consume(k, u) EXCEPT !.timers = @ \ {u}, !.uuid = u, !.byKit = AnsweredEarly(k)]

SyncIncoming(k, u) ==
    IF k.pending # <<>> THEN Claim(NewCall(k)) ELSE Report(NewCall(k), "ringing", u)

SyncStarting(k, u) == Report(NewCall(k), "dialing", u)

\* The answer was given in the app: answerCallLocal tells the system.
SyncAccepted(k) ==
    IF k.uuid # None /\ ~k.byKit /\ k.native[k.uuid] = "ringing"
    THEN Emit([k EXCEPT !.native[k.uuid] = "live"], [t |-> "answer", u |-> k.uuid])
    ELSE k

SyncActive(k) ==
    IF k.uuid # None /\ k.native[k.uuid] = "dialing" THEN [k EXCEPT !.native[k.uuid] = "live"] ELSE k

SyncEnded(k) ==
    LET forgotten == [k EXCEPT !.uuid = None, !.ended = FALSE]
    IN  IF k.uuid # None /\ ~k.ended THEN ReportEnded(forgotten, k.uuid) ELSE forgotten

\* teardown() turns the speaker off before the status changes.
Torn(k) == SyncEnded(SetRoute(k, FALSE))

-----------------------------------------------------------------------------
(* The controller.                                                         *)

\* Without "late" the uuid is known before the call moves on.
Prompt == kit.waits = {} \/ "late" \in Windows

Routes(k) == {i \in DOMAIN k.events : k.events[i].t = "route"}

Ready ==
    /\ app.unlocked /\ Prompt /\ ~Talking
    /\ Routes(kit) = {} \/ "stale" \in Windows

\* An offer is adopted.
CallRings(u) ==
    /\ Ready
    /\ u = None \/ NewUuid(kit, u)
    /\ kit.pending # <<>> => u = None
    /\ kit' = SyncIncoming(kit, u)
    /\ IF AnsweredEarly(kit) THEN RingAnswered ELSE Ring
    /\ UNCHANGED app

\* placeCall() of a call that is possible.
Starts(u) ==
    /\ u = None \/ NewUuid(kit, u)
    /\ Place
    /\ kit' = SyncStarting(kit, u)

\* The call button: with the microphone granted it calls, else it asks softly first.
TapCall(u) ==
    /\ Ready
    /\ \/ app.mic = "granted" /\ Starts(u) /\ UNCHANGED app
       \/ /\ app.mic = "ask" /\ ~app.prompt /\ u = None
          /\ app' = [app EXCEPT !.prompt = TRUE]
          /\ UNCHANGED <<status, dir, kit>>

\* The system's question is answered; the call resumes if none has come meanwhile.
MicAnswered(u) ==
    /\ app.prompt /\ app.unlocked
    /\ \E mic \in {"granted", "denied"} :
          /\ app' = [app EXCEPT !.mic = mic, !.prompt = FALSE]
          /\ IF mic = "granted" /\ Ready THEN Starts(u)
             ELSE u = None /\ UNCHANGED <<status, dir, kit>>

CallProgresses ==
    /\ \/ (Offered \/ Accepted) /\ UNCHANGED kit
       \/ MediaUp /\ Prompt /\ kit' = SyncActive(kit)
       \/ MediaLost /\ UNCHANGED kit
       \/ Rest /\ UNCHANGED kit
    /\ UNCHANGED app

\* Answer on the call screen, which is hidden behind the lock.
Answer ==
    /\ app.unlocked /\ Prompt
    /\ Accept
    /\ kit' = SyncAccepted(kit)
    /\ UNCHANGED app

\* Two placed calls cross and this one gives way: the ringing is passed through in one go.
\* Without "glare" the speaker is off, the system has refused this side's call, and refuses
\* the other's unless a push has announced it.
CallsCross(u) ==
    /\ Prompt
    /\ "glare" \in Windows \/ (kit.uuid = None /\ u = None /\ ~kit.route /\ Routes(kit) = {})
    /\ u = None \/ NewUuid(kit, u)
    /\ kit.pending # <<>> => u = None
    /\ Crossed
    /\ kit' = SyncAccepted(SyncIncoming(kit, u))
    /\ UNCHANGED app

\* Hang up, decline, an end marker, a timer or a failure.
CallEnds ==
    /\ Prompt
    /\ End
    /\ kit' = Torn(kit)
    /\ UNCHANGED app

RingsOut == status = "incoming-ringing" /\ CallEnds

\* The speaker button of the call screen.
ToggleSpeaker ==
    /\ Talking /\ app.unlocked /\ app.toggles < MaxToggles
    /\ kit' = [SetRoute(kit, ~kit.speaker) EXCEPT !.speaker = ~kit.speaker]
    /\ app' = [app EXCEPT !.toggles = @ + 1]
    /\ UNCHANGED <<status, dir>>

\* An explicit lock ends the call first (onAppLocking, then the lock).
Lock ==
    /\ app.unlocked /\ Prompt
    /\ IF Talking THEN Vanish /\ kit' = Torn(kit) ELSE UNCHANGED <<status, dir, kit>>
    /\ app' = [app EXCEPT !.unlocked = FALSE]

-----------------------------------------------------------------------------
(* The wake guard and the subscription.                                    *)

\* Fault: the root layout starts without the guard.
Mount_Unguarded ==
    /\ ~app.mounted
    /\ app' = [app EXCEPT !.mounted = TRUE]
    /\ UNCHANGED <<status, dir, kit>>

\* initCallKitWakeGuard() from the root layout.
Mount ==
    /\ ~app.mounted
    /\ app' = [app EXCEPT !.mounted = TRUE]
    /\ kit' = [kit EXCEPT !.timers = @ \cup PendingUuids(kit)]
    /\ UNCHANGED <<status, dir>>

\* The first unlock creates the controller, subscribes to the events and guards again.
Unlock ==
    /\ app.mounted /\ ~app.unlocked
    /\ app' = [app EXCEPT !.unlocked = TRUE]
    /\ kit' = IF kit.wired THEN kit
              ELSE [kit EXCEPT !.wired = TRUE, !.timers = @ \cup PendingUuids(kit)]
    /\ UNCHANGED <<status, dir>>

\* Nothing claimed the call within the window.
ClaimTimeout(u) ==
    /\ u \in kit.timers
    /\ kit' = [ReportEnded(kit, u) EXCEPT !.timers = @ \ {u}]
    /\ UNCHANGED <<status, dir, app>>

\* reportIncoming or startOutgoing resolves.
UuidKnown(u) ==
    /\ u \in kit.waits
    /\ kit' = [kit EXCEPT !.waits = @ \ {u}, !.uuid = u]
    /\ UNCHANGED <<status, dir, app>>

-----------------------------------------------------------------------------
(* The system and its call screen.                                         *)

\* A VoIP push is reported at once and waits for its offer.
Push(u) ==
    /\ ~app.mounted \/ kit.wired \/ "early" \in Windows
    /\ NewUuid(kit, u)
    /\ kit' = Emit([kit EXCEPT !.native[u] = "ringing", !.pending = Append(@, u)],
                   [t |-> "push", u |-> u])
    /\ UNCHANGED <<status, dir, app>>

OnScreen(u) == u \in Live(kit) /\ (u \notin kit.waits \/ "late" \in Windows)

\* An answer before the claim is remembered.
SystemAnswers(u) ==
    /\ OnScreen(u) /\ kit.native[u] = "ringing"
    /\ kit' = Emit([kit EXCEPT !.native[u] = "live",
                               !.unclaimed = IF u \in PendingUuids(kit) THEN @ \cup {u} ELSE @],
                   [t |-> "answer", u |-> u])
    /\ UNCHANGED <<status, dir, app>>

SystemEnds(u) ==
    /\ OnScreen(u)
    /\ kit' = Emit(Over(Consume(kit, u), u), [t |-> "end", u |-> u])
    /\ UNCHANGED <<status, dir, app>>

SystemSpeaker ==
    /\ Talking /\ kit.uuid \in Live(kit) /\ app.toggles < MaxToggles
    /\ kit' = SetRoute(kit, ~kit.route)
    /\ app' = [app EXCEPT !.toggles = @ + 1]
    /\ UNCHANGED <<status, dir>>

-----------------------------------------------------------------------------
(* The events in JavaScript.                                               *)

Delivered == [kit EXCEPT !.events = Tail(@)]
IsNext(t) == kit.events # <<>> /\ Head(kit.events).t = t

\* answer() does nothing to a call that does not ring.
OnAnswer ==
    LET current == Head(kit.events).u = kit.uuid
    IN
    /\ IsNext("answer")
    /\ kit' = IF current THEN [Delivered EXCEPT !.byKit = TRUE] ELSE Delivered
    /\ IF current /\ status = "incoming-ringing" THEN Accept ELSE UNCHANGED <<status, dir>>
    /\ UNCHANGED app

\* Fault: the hang up of the system's screen reaches only the mirror.
OnEnd_OnlyMirror ==
    LET u == Head(kit.events).u
        unguarded == [Delivered EXCEPT !.timers = @ \ {u}]
    IN
    /\ IsNext("end")
    /\ kit' = IF u = kit.uuid THEN [unguarded EXCEPT !.ended = TRUE] ELSE unguarded
    /\ UNCHANGED <<status, dir, app>>

OnEnd ==
    LET u == Head(kit.events).u
        unguarded == [Delivered EXCEPT !.timers = @ \ {u}]
    IN
    /\ IsNext("end")
    /\ IF u = kit.uuid /\ Talking
         THEN End /\ kit' = Torn([unguarded EXCEPT !.ended = TRUE])
         ELSE /\ kit' = IF u = kit.uuid THEN [unguarded EXCEPT !.ended = TRUE] ELSE unguarded
              /\ UNCHANGED <<status, dir>>
    /\ UNCHANGED app

OnVoipPush ==
    /\ IsNext("push")
    /\ kit' = [Delivered EXCEPT !.timers = @ \cup ({Head(kit.events).u} \cap PendingUuids(kit))]
    /\ UNCHANGED <<status, dir, app>>

\* Fault: a change of the route by the system stays with the system.
OnSpeakerRoute_Ignored ==
    /\ IsNext("route")
    /\ kit' = Delivered
    /\ UNCHANGED <<status, dir, app>>

OnSpeakerRoute ==
    LET on == Head(kit.events).on
    IN
    /\ IsNext("route")
    /\ kit' = IF Talking /\ kit.speaker # on
              THEN [SetRoute(Delivered, on) EXCEPT !.speaker = on] ELSE Delivered
    /\ UNCHANGED <<status, dir, app>>

Deliver == OnAnswer \/ OnEnd \/ OnVoipPush \/ OnSpeakerRoute

-----------------------------------------------------------------------------
KitInit ==
    /\ Init
    /\ kit = [ native |-> [u \in Uuids |-> "none"], pending |-> <<>>, unclaimed |-> {},
               events |-> <<>>, route |-> FALSE, wired |-> FALSE, uuid |-> None,
               ended |-> FALSE, byKit |-> FALSE, timers |-> {}, waits |-> {}, speaker |-> FALSE ]
    /\ app \in [ mounted : {FALSE}, unlocked : {FALSE}, mic : {"ask"},
                 prompt : {FALSE}, toggles : {0} ]

KitNext ==
    \/ \E u \in Uuids \cup {None} :
         CallRings(u) \/ TapCall(u) \/ MicAnswered(u) \/ CallsCross(u) \/ UuidKnown(u)
    \/ \E u \in Uuids : ClaimTimeout(u) \/ Push(u) \/ SystemAnswers(u) \/ SystemEnds(u)
    \/ CallProgresses \/ Answer \/ CallEnds \/ ToggleSpeaker \/ Lock
    \/ Mount \/ Unlock \/ SystemSpeaker \/ Deliver

KitSpec == KitInit /\ [][KitNext]_vars

\* The app starts, awaits resolve, events arrive, and the two timers of a ringing call fire.
FairSpec ==
    /\ KitSpec
    /\ WF_vars(Mount) /\ WF_vars(Deliver) /\ WF_vars(RingsOut)
    /\ \A u \in Uuids : WF_vars(ClaimTimeout(u))
    /\ \A u \in Uuids \cup {None} : WF_vars(UuidKnown(u))

-----------------------------------------------------------------------------
(* Properties.                                                             *)

\* The states of the mirror; only a pending call has a remembered answer, and none waits twice.
TypeOK ==
    /\ status \in Statuses /\ dir \in {"none", "in", "out"}
    /\ kit \in Kits /\ app \in Apps
    /\ Cardinality(PendingUuids(kit)) = Len(kit.pending)
    /\ kit.unclaimed \subseteq PendingUuids(kit)

Quiet == kit.events = <<>> /\ kit.waits = {}

\* With nothing on the way, every call the system shows is the controller's call or one that
\* still waits for its offer, and the system shows the call the controller is in, ringing
\* on both screens or on neither, whichever of them answered it ("the mapping to CallKit
\* is a single current uuid", syncCallKit).
Mirrored ==
    Quiet =>
        /\ Live(kit) \subseteq PendingUuids(kit) \cup (IF Talking THEN {kit.uuid} ELSE {})
        /\ kit.uuid # None =>
              /\ kit.uuid \in Live(kit) /\ Talking
              /\ kit.native[kit.uuid] = "ringing" <=> status = "incoming-ringing"

\* The speaker button tells the truth: "The CallKit UI routes audio without telling the
\* app; keep the in app speaker toggle truthful" (onSpeakerRoute).
SpeakerIsTruthful == (Quiet /\ Talking) => kit.speaker = kit.route

\* No phone rings forever: a push whose offer never comes, an event or an answer that
\* crosses the lock, a claim that loses its call, all end ("the wake guard below ends
\* unclaimed ones as unanswered so the lock screen never rings forever").
RingsEnd == \A u \in Uuids : (kit.native[u] = "ringing") ~> (kit.native[u] # "ringing")

=============================================================================
