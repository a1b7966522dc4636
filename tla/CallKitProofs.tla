--------------------------- MODULE CallKitProofs ---------------------------
(***************************************************************************)
(* Theorems about CallKit for every number of native calls and toggles:    *)
(* each call waits once, in every window; the two call screens agree and   *)
(* the speaker button tells the truth, where the windows are closed that   *)
(* the code leaves open to a call that moves on early and to a glare.      *)
(*                                                                         *)
(* WellKept is the native side, Held ties it to the mirror and to what the *)
(* undelivered events still have to tell, and RouteTrue ties the last      *)
(* undelivered change of the route to the route.                           *)
(***************************************************************************)
EXTENDS CallKit, FiniteSetTheorems, TLAPS

Elems(s) == {s[i] : i \in 1..Len(s)}
Distinct(s) == \A i, j \in 1..Len(s) : s[i] = s[j] => i = j

\* The native calls that wait for an offer are shown, and each waits once.
WellKept(k) ==
    /\ k \in Kits
    /\ Distinct(k.pending)
    /\ k.unclaimed \subseteq PendingUuids(k)
    /\ PendingUuids(k) \subseteq Live(k)

Types == status \in Statuses /\ dir \in {"none", "in", "out"} /\ WellKept(kit) /\ app \in Apps

-----------------------------------------------------------------------------
(* The operators on the mirror.                                            *)

LEMMA SetShape ==
    /\ Uuids \subseteq Nat /\ None \notin Uuids
    /\ \A k \in Kits : /\ PendingUuids(k) = Elems(k.pending)
                       /\ PendingUuids(k) \subseteq Uuids /\ Live(k) \subseteq Uuids
<1>1. Uuids \subseteq Nat /\ None \notin Uuids
  BY CallKitConstants DEF Uuids, None
<1>2. ASSUME NEW k \in Kits
      PROVE  /\ PendingUuids(k) = Elems(k.pending)
             /\ PendingUuids(k) \subseteq Uuids /\ Live(k) \subseteq Uuids
  BY DEF Kits, PendingUuids, Live, Elems
<1> QED BY <1>1, <1>2

\* One element leaves a sequence without duplicates.
LEMMA WithoutElems ==
    ASSUME NEW S, NEW s \in Seq(S), Distinct(s), NEW u
    PROVE  /\ Without(s, u) \in Seq(S) /\ Distinct(Without(s, u))
           /\ Elems(Without(s, u)) = Elems(s) \ {u}
<1>0. Len(s) \in Nat /\ DOMAIN s = 1..Len(s) /\ \A i \in 1..Len(s) : s[i] \in S
  OBVIOUS
<1>1. CASE \A i \in DOMAIN s : s[i] # u
  BY <1>0, <1>1 DEF Without, Elems
<1>2. CASE ~\A i \in DOMAIN s : s[i] # u
  <2> DEFINE n == CHOOSE i \in DOMAIN s : s[i] = u
             t == [i \in 1..(Len(s) - 1) |-> s[IF i < n THEN i ELSE i + 1]]
  <2>1. n \in 1..Len(s) /\ s[n] = u
    BY <1>0, <1>2
  <2>2. Without(s, u) = t
    BY <1>2 DEF Without
  <2> HIDE DEF n
  <2>3. Len(s) - 1 \in Nat
    BY <1>0, <2>1
  <2>4. \A i \in 1..(Len(s) - 1) : t[i] = s[IF i < n THEN i ELSE i + 1]
                                   /\ (IF i < n THEN i ELSE i + 1) \in 1..Len(s)
    BY <1>0, <2>1
  <2>5. t \in Seq(S) /\ Len(t) = Len(s) - 1
    BY <1>0, <2>3, <2>4
  <2> HIDE DEF t
  <2>6. Distinct(t)
    BY <1>0, <2>1, <2>4, <2>5 DEF Distinct
  <2>7. \A i \in 1..Len(t) : t[i] # u /\ \E j \in 1..Len(s) : t[i] = s[j]
    BY <1>0, <2>1, <2>4, <2>5 DEF Distinct
  <2>8. ASSUME NEW j \in 1..Len(s), s[j] # u
        PROVE  \E i \in 1..Len(t) : t[i] = s[j]
    <3>1. CASE j < n
      BY <1>0, <2>1, <2>4, <2>5, <3>1
    <3>2. CASE ~(j < n)
      <4>1. j # n
        BY <2>1, <2>8
      <4>2. j - 1 \in 1..(Len(s) - 1) /\ ~(j - 1 < n) /\ (j - 1) + 1 = j
        BY <1>0, <2>1, <3>2, <4>1
      <4> QED BY <2>4, <2>5, <4>2
    <3> QED BY <3>1, <3>2
  <2>9. Elems(t) = Elems(s) \ {u}
    <3>1. {t[i] : i \in 1..Len(t)} \subseteq {s[i] : i \in 1..Len(s)} \ {u}
      BY <2>7
    <3>2. {s[i] : i \in 1..Len(s)} \ {u} \subseteq {t[i] : i \in 1..Len(t)}
      BY <2>8
    <3> QED BY <3>1, <3>2 DEF Elems
  <2> QED BY <2>2, <2>5, <2>6, <2>9
<1> QED BY <1>1, <1>2

\* Nothing but the fields that an operator is about changes.
SameButEvents(k, l) ==
    /\ l.route = k.route /\ l.wired = k.wired /\ l.uuid = k.uuid /\ l.ended = k.ended /\ l.byKit = k.byKit
    /\ l.timers = k.timers /\ l.waits = k.waits /\ l.speaker = k.speaker
SameRest(k, l) == l.events = k.events /\ SameButEvents(k, l)

LEMMA ConsumeFacts ==
    ASSUME NEW k, WellKept(k), NEW u \in Uuids
    PROVE  LET l == Consume(k, u) IN
           /\ WellKept(l) /\ PendingUuids(l) = PendingUuids(k) \ {u}
           /\ l.unclaimed = k.unclaimed \ {u} /\ l.native = k.native /\ SameRest(k, l)
<1> DEFINE l == Consume(k, u)
<1>1. k \in Kits /\ Distinct(k.pending) /\ k.pending \in Seq(Uuids)
  BY DEF WellKept, Kits
<1>2. l = [k EXCEPT !.pending = Without(k.pending, u), !.unclaimed = k.unclaimed \ {u}]
  BY <1>1 DEF Consume
<1> DEFINE p == Without(k.pending, u)
<1>3. /\ p \in Seq(Uuids) /\ Distinct(p)
      /\ Elems(p) = Elems(k.pending) \ {u}
  <2>1. k.pending \in Seq(Uuids) /\ Distinct(k.pending)
    BY <1>1
  <2> QED BY <2>1, WithoutElems
<1> HIDE DEF p
<1>3a. k.unclaimed \ {u} \in SUBSET Uuids
  BY <1>1 DEF Kits
<1>3b. l = [k EXCEPT !.pending = p, !.unclaimed = k.unclaimed \ {u}]
  BY <1>2 DEF p
<1> HIDE DEF l
<1>3c. l \in Kits
  BY <1>1, <1>3, <1>3a, <1>3b DEF Kits
<1>4. /\ l \in Kits /\ l.pending = p /\ l.unclaimed = k.unclaimed \ {u}
      /\ l.native = k.native /\ SameRest(k, l)
  BY <1>1, <1>3b, <1>3c DEF Kits, SameRest, SameButEvents
<1>5. PendingUuids(l) = PendingUuids(k) \ {u}
  BY <1>1, <1>3, <1>4, SetShape
<1>6. Live(l) = Live(k)
  BY <1>4 DEF Live
<1> QED BY <1>3, <1>4, <1>5, <1>6 DEF WellKept, l

LEMMA OverFacts ==
    ASSUME NEW k, WellKept(k), NEW u \in Uuids, u \notin PendingUuids(k)
    PROVE  LET l == Over(k, u) IN
           /\ WellKept(l) /\ Live(l) = Live(k) \ {u}
           /\ l.native = IF u \in Live(k) THEN [k.native EXCEPT ![u] = "over"] ELSE k.native
           /\ l.pending = k.pending /\ l.unclaimed = k.unclaimed /\ SameRest(k, l)
<1> DEFINE l == Over(k, u)
<1>1. k \in Kits
  BY DEF WellKept
<1>2. u \in Live(k) <=> k.native[u] \in Shown
  BY DEF Live
<1>3. /\ l \in Kits /\ l.pending = k.pending /\ l.unclaimed = k.unclaimed /\ SameRest(k, l)
      /\ l.native = IF u \in Live(k) THEN [k.native EXCEPT ![u] = "over"] ELSE k.native
  <2>1. CASE u \in Live(k)
    BY <1>1, <1>2, <2>1 DEF Over, Kits, SameRest, SameButEvents
  <2>2. CASE u \notin Live(k)
    BY <1>1, <1>2, <2>2 DEF Over, SameRest, SameButEvents
  <2> QED BY <2>1, <2>2
<1>4. k.native \in [Uuids -> {"none", "ringing", "dialing", "live", "over"}]
  BY <1>1 DEF Kits
<1>5. Live(l) = Live(k) \ {u}
  BY <1>3, <1>4 DEF Live, Shown
<1>6. PendingUuids(l) = PendingUuids(k)
  BY <1>3 DEF PendingUuids
<1> QED BY <1>3, <1>5, <1>6 DEF WellKept

LEMMA EndedFacts ==
    ASSUME NEW k, WellKept(k), NEW u \in Uuids
    PROVE  LET l == ReportEnded(k, u) IN
           /\ WellKept(l) /\ Live(l) = Live(k) \ {u} /\ PendingUuids(l) = PendingUuids(k) \ {u}
           /\ l.native = IF u \in Live(k) THEN [k.native EXCEPT ![u] = "over"] ELSE k.native
           /\ l.unclaimed = k.unclaimed \ {u} /\ SameRest(k, l)
<1> DEFINE c == Consume(k, u)
           l == Over(c, u)
<1>1. /\ WellKept(c) /\ PendingUuids(c) = PendingUuids(k) \ {u}
      /\ c.unclaimed = k.unclaimed \ {u} /\ c.native = k.native /\ SameRest(k, c)
  BY ConsumeFacts
<1>2. Live(c) = Live(k) /\ u \notin PendingUuids(c)
  BY <1>1 DEF Live
<1>3. /\ WellKept(l) /\ Live(l) = Live(c) \ {u}
      /\ l.native = IF u \in Live(c) THEN [c.native EXCEPT ![u] = "over"] ELSE c.native
      /\ l.pending = c.pending /\ l.unclaimed = c.unclaimed /\ SameRest(c, l)
  BY <1>1, <1>2, OverFacts
<1>4. PendingUuids(l) = PendingUuids(c)
  BY <1>3 DEF PendingUuids
<1> QED BY <1>1, <1>2, <1>3, <1>4 DEF ReportEnded, SameRest, SameButEvents

\* An event is announced: it joins the queue of a subscribed app.
LEMMA EmitFacts ==
    ASSUME NEW k, WellKept(k), NEW e \in Events
    PROVE  LET l == Emit(k, e) IN
           /\ WellKept(l) /\ l = [k EXCEPT !.events = l.events]
           /\ l.events = IF k.wired THEN Append(k.events, e) ELSE k.events
           /\ PendingUuids(l) = PendingUuids(k) /\ Live(l) = Live(k)
<1> DEFINE l == Emit(k, e)
<1>1. k \in Kits /\ k.events \in Seq(Events)
  BY DEF WellKept, Kits
<1>2. /\ l \in Kits /\ l = [k EXCEPT !.events = l.events]
      /\ l.events = IF k.wired THEN Append(k.events, e) ELSE k.events
      /\ l.native = k.native /\ l.pending = k.pending /\ l.unclaimed = k.unclaimed
  <2>1. CASE k.wired
    <3>1. Append(k.events, e) \in Seq(Events)
      BY <1>1
    <3>2. l = [k EXCEPT !.events = Append(k.events, e)]
      BY <2>1 DEF Emit
    <3> QED BY <1>1, <2>1, <3>1, <3>2 DEF Kits
  <2>2. CASE ~k.wired
    <3>1. l = k
      BY <2>2 DEF Emit
    <3>2. k = [k EXCEPT !.events = k.events]
      BY <1>1 DEF Kits
    <3> QED BY <1>1, <2>2, <3>1, <3>2
  <2> QED BY <2>1, <2>2
<1>3. PendingUuids(l) = PendingUuids(k) /\ Live(l) = Live(k)
  BY <1>2 DEF PendingUuids, Live
<1> QED BY <1>2, <1>3 DEF WellKept

\* What is not the system's side of the mirror may change.
LEMMA SameSystem ==
    ASSUME NEW k, WellKept(k), NEW l \in Kits, l.native = k.native, l.pending = k.pending,
           l.unclaimed = k.unclaimed
    PROVE  WellKept(l) /\ PendingUuids(l) = PendingUuids(k) /\ Live(l) = Live(k)
BY DEF WellKept, PendingUuids, Live

RouteEvent(on) == [t |-> "route", on |-> on]

LEMMA SetRouteFacts ==
    ASSUME NEW k, WellKept(k), NEW on \in BOOLEAN
    PROVE  LET l == SetRoute(k, on) IN
           /\ WellKept(l) /\ PendingUuids(l) = PendingUuids(k) /\ Live(l) = Live(k)
           /\ l = [k EXCEPT !.route = on, !.events = l.events]
           /\ l.events = IF k.route # on /\ k.wired THEN Append(k.events, RouteEvent(on)) ELSE k.events
<1> DEFINE l == SetRoute(k, on)
<1>1. k \in Kits
  BY DEF WellKept
<1>2. CASE k.route = on
  <2>1. l = k /\ k = [k EXCEPT !.route = on, !.events = k.events]
    BY <1>1, <1>2 DEF SetRoute, Kits
  <2> QED BY <1>2, <2>1
<1>3. CASE k.route # on
  <2> DEFINE m == [k EXCEPT !.route = on]
  <2>1. m \in Kits /\ m.native = k.native /\ m.pending = k.pending /\ m.unclaimed = k.unclaimed
        /\ m.events = k.events /\ m.wired = k.wired
    BY <1>1 DEF Kits
  <2>2. WellKept(m) /\ PendingUuids(m) = PendingUuids(k) /\ Live(m) = Live(k)
    BY <2>1, SameSystem
  <2>3. RouteEvent(on) \in Events
    BY DEF RouteEvent, Events
  <2>4. l = Emit(m, RouteEvent(on))
    BY <1>3 DEF SetRoute, RouteEvent
  <2> HIDE DEF l
  <2>5. /\ WellKept(l) /\ l = [m EXCEPT !.events = l.events]
        /\ l.events = IF m.wired THEN Append(m.events, RouteEvent(on)) ELSE m.events
        /\ PendingUuids(l) = PendingUuids(m) /\ Live(l) = Live(m)
    BY <2>2, <2>3, <2>4, EmitFacts
  <2>6. l = [k EXCEPT !.route = on, !.events = l.events]
    BY <1>1, <2>5 DEF Kits
  <2> QED BY <1>3, <2>1, <2>2, <2>5, <2>6 DEF l
<1> QED BY <1>2, <1>3

\* The uuids that an undelivered event of a type names.
Told(k, t) == {u \in Uuids : \E i \in 1..Len(k.events) : k.events[i].t = t /\ k.events[i].u = u}

LEMMA NewUuidFacts ==
    ASSUME NEW k \in Kits, NEW u \in Uuids, NewUuid(k, u)
    PROVE  /\ u \notin Live(k) /\ u \notin k.timers /\ u \notin k.waits /\ u # k.uuid
           /\ \A t : t # "route" => u \notin Told(k, t)
<1>1. u \notin Live(k) /\ u \notin Mentioned(k) /\ u \notin k.timers /\ u \notin k.waits /\ u # k.uuid
  BY DEF NewUuid, Unused
<1>2. \A t : t # "route" => u \notin Told(k, t)
  BY <1>1 DEF Told, Mentioned, Kits
<1> QED BY <1>1, <1>2

Reports(k, l, how, u) ==
    /\ WellKept(l) /\ PendingUuids(l) = PendingUuids(k) /\ Live(l) = Live(k) \cup ({u} \ {None})
    /\ l = [k EXCEPT !.native = l.native, !.waits = k.waits \cup {u}]
    /\ l.native = IF u = None THEN k.native ELSE [k.native EXCEPT ![u] = how]

LEMMA ReportFacts ==
    ASSUME NEW k, WellKept(k), NEW how \in {"ringing", "dialing"}, NEW u \in Uuids \cup {None},
           u = None \/ NewUuid(k, u)
    PROVE  Reports(k, Report(k, how, u), how, u)
<1> DEFINE l == Report(k, how, u)
<1>1. k \in Kits /\ None \notin Uuids
  BY SetShape DEF WellKept
<1> DEFINE n == IF u = None THEN k.native ELSE [k.native EXCEPT ![u] = how]
<1>2. l = [k EXCEPT !.native = n, !.waits = k.waits \cup {u}]
  BY <1>1 DEF Report, Kits
<1>3. n \in [Uuids -> {"none", "ringing", "dialing", "live", "over"}] /\ k.waits \cup {u} \in SUBSET (Uuids \cup {None})
  BY <1>1 DEF Kits
<1> HIDE DEF n, l
<1>4. /\ l \in Kits /\ l.native = n /\ l.pending = k.pending /\ l.unclaimed = k.unclaimed
  BY <1>1, <1>2, <1>3 DEF Kits
<1>5. PendingUuids(l) = PendingUuids(k)
  BY <1>4 DEF PendingUuids
<1>6. Live(l) = Live(k) \cup ({u} \ {None})
  <2>1. k.native \in [Uuids -> {"none", "ringing", "dialing", "live", "over"}]
    BY <1>1 DEF Kits
  <2> QED BY <1>1, <1>4, <2>1 DEF Live, Shown, n
<1> QED BY <1>2, <1>4, <1>5, <1>6 DEF WellKept, Reports, l, n

\* A native call is answered on one of the screens.
LEMMA LiveFacts ==
    ASSUME NEW k, WellKept(k), NEW u \in Live(k)
    PROVE  LET l == [k EXCEPT !.native[u] = "live"] IN
           /\ WellKept(l) /\ PendingUuids(l) = PendingUuids(k) /\ Live(l) = Live(k)
           /\ l.native = [k.native EXCEPT ![u] = "live"]
           /\ l.pending = k.pending /\ l.unclaimed = k.unclaimed /\ SameRest(k, l)
<1> DEFINE l == [k EXCEPT !.native[u] = "live"]
           n == [k.native EXCEPT ![u] = "live"]
<1>1. k \in Kits /\ k.native \in [Uuids -> {"none", "ringing", "dialing", "live", "over"}] /\ u \in Uuids
  BY DEF WellKept, Kits, Live
<1>2. l = [k EXCEPT !.native = n] /\ n \in [Uuids -> {"none", "ringing", "dialing", "live", "over"}]
  BY <1>1 DEF Kits
<1>3. Live(k) = {v \in Uuids : n[v] \in Shown}
  BY <1>1 DEF Live, Shown
<1> HIDE DEF n, l
<1>4. /\ l \in Kits /\ l.native = n /\ l.pending = k.pending /\ l.unclaimed = k.unclaimed /\ SameRest(k, l)
  BY <1>1, <1>2 DEF Kits, SameRest, SameButEvents
<1>5. PendingUuids(l) = PendingUuids(k) /\ Live(l) = Live(k)
  BY <1>3, <1>4 DEF PendingUuids, Live
<1> QED BY <1>4, <1>5 DEF WellKept, l, n

NewFacts(k, l) ==
    /\ WellKept(l) /\ PendingUuids(l) = PendingUuids(k) /\ Live(l) = Live(k)
    /\ l = [k EXCEPT !.ended = FALSE, !.byKit = FALSE, !.speaker = FALSE]

LEMMA NewCallFacts ==
    ASSUME NEW k, WellKept(k)
    PROVE  NewFacts(k, NewCall(k))
<1> DEFINE l == NewCall(k)
<1>1. k \in Kits
  BY DEF WellKept
<1>2. /\ l \in Kits /\ l.native = k.native /\ l.pending = k.pending /\ l.unclaimed = k.unclaimed
  BY <1>1 DEF NewCall, Kits
<1> QED BY <1>2, SameSystem DEF NewFacts, NewCall

\* The oldest waiting call is claimed.
LEMMA ClaimFacts ==
    ASSUME NEW k, WellKept(k), k.pending # << >>
    PROVE  LET l == Claim(k)  u == Head(k.pending) IN
           /\ u \in Uuids /\ u \in PendingUuids(k)
           /\ WellKept(l) /\ PendingUuids(l) = PendingUuids(k) \ {u} /\ Live(l) = Live(k)
           /\ l = [k EXCEPT !.pending = l.pending, !.unclaimed = k.unclaimed \ {u},
                            !.timers = k.timers \ {u}, !.uuid = u, !.byKit = (u \in k.unclaimed)]
<1> DEFINE u == Head(k.pending)
           c == Consume(k, u)
           l == Claim(k)
           b == u \in k.unclaimed
<1>1. k \in Kits /\ k.pending \in Seq(Uuids) /\ PendingUuids(k) = Elems(k.pending)
  BY SetShape DEF WellKept, Kits
<1>2. u \in Uuids /\ u \in PendingUuids(k)
  <2>1. 1 \in 1..Len(k.pending) /\ u = k.pending[1] /\ u \in Uuids
    BY <1>1
  <2> QED BY <1>1, <2>1 DEF Elems
<1>3. AnsweredEarly(k) = b /\ b \in BOOLEAN
  BY DEF AnsweredEarly
<1>3a. l = [c EXCEPT !.timers = c.timers \ {u}, !.uuid = u, !.byKit = b]
  <2>1. c \in Kits
    BY <1>2, ConsumeFacts DEF WellKept
  <2>2. l = [c EXCEPT !.timers = @ \ {u}, !.uuid = u, !.byKit = AnsweredEarly(k)]
    BY DEF Claim
  <2> HIDE DEF b, c, u, l
  <2> QED BY <1>3, <2>1, <2>2 DEF Kits
<1> HIDE DEF u, b
<1>4. /\ WellKept(c) /\ PendingUuids(c) = PendingUuids(k) \ {u}
      /\ c.unclaimed = k.unclaimed \ {u} /\ c.native = k.native /\ SameRest(k, c)
  BY <1>2, ConsumeFacts
<1> HIDE DEF l, c
<1>6. c \in Kits /\ c.timers \ {u} \in SUBSET Uuids
  BY <1>4 DEF WellKept, Kits
<1>7. l \in Kits /\ l.native = c.native /\ l.pending = c.pending /\ l.unclaimed = c.unclaimed
  BY <1>2, <1>3, <1>3a, <1>6 DEF Kits
<1>8. WellKept(l) /\ PendingUuids(l) = PendingUuids(c) /\ Live(l) = Live(c) /\ Live(c) = Live(k)
  <2>1. Live(c) = Live(k)
    BY <1>4 DEF Live
  <2> QED BY <1>4, <1>7, <2>1, SameSystem
<1>9. l = [k EXCEPT !.pending = l.pending, !.unclaimed = k.unclaimed \ {u},
                    !.timers = k.timers \ {u}, !.uuid = u, !.byKit = b]
  <2>1. c = [k EXCEPT !.pending = Without(k.pending, u), !.unclaimed = k.unclaimed \ {u}]
    BY <1>1 DEF c, Consume
  <2>2. c.pending = Without(k.pending, u)
    BY <1>1, <2>1 DEF Kits
  <2>3. c.timers = k.timers /\ l.pending = c.pending
    BY <1>4, <1>7 DEF SameRest, SameButEvents
  <2>4. l = [k EXCEPT !.pending = Without(k.pending, u), !.unclaimed = k.unclaimed \ {u},
                      !.timers = k.timers \ {u}, !.uuid = u, !.byKit = b]
    BY <1>1, <1>3a, <2>1, <2>3 DEF Kits
  <2> QED BY <2>2, <2>3, <2>4
<1> QED BY <1>2, <1>4, <1>8, <1>9 DEF l, u, b

-----------------------------------------------------------------------------
(* The invariant of the mirror, where an uuid is known before its call moves on and *)
(* the loser of a glare has no native call.                                 *)

Reported(k) == k.waits \ {None}
Current(k) == {k.uuid} \ {None}

\* Every native call that is shown waits for its offer, is being reported or is the current
\* one; what an undelivered event tells of it is still so.
Held(k) ==
    /\ \A u \in PendingUuids(k) : k.native[u] # "dialing" /\ (u \in k.unclaimed <=> k.native[u] = "live")
    /\ \A u \in Told(k, "end") : k.native[u] = "over"
    /\ \A u \in Told(k, "answer") : k.native[u] # "ringing"
    /\ k.waits # {} => k.uuid = None /\ ~k.byKit
    /\ \A u, v \in k.waits : u = v
    /\ Reported(k) \subseteq Live(k)
    /\ \A u \in Reported(k) \cup Current(k) : u \notin PendingUuids(k) /\ u \notin k.timers
    /\ Live(k) \subseteq PendingUuids(k) \cup Reported(k) \cup Current(k)

\* The current native call is shown, unless the app is about to learn that it ended.
Linked(k) == Current(k) \subseteq Live(k) \cup Told(k, "end")

\* It rings on both screens or on neither, unless the app is about to learn that it was answered.
Rings(k, s) ==
    /\ \A u \in Reported(k) : k.native[u] = "ringing" <=> s = "incoming-ringing"
    /\ \A u \in Current(k) : k.native[u] = "ringing" => s = "incoming-ringing" /\ ~k.byKit
    /\ \A u \in Current(k) : u \in Live(k) /\ k.native[u] # "ringing" /\ s = "incoming-ringing" =>
                                 u \in Told(k, "answer")

WiredInv == (Talking \/ app.unlocked) => kit.wired

MirrorInv ==
    /\ Held(kit) /\ Linked(kit) /\ Rings(kit, status)
    /\ ~kit.ended
    /\ kit.waits # {} \/ kit.uuid # None => Talking

LEMMA ToldAppend ==
    ASSUME NEW k \in Kits, NEW e \in Events, NEW l, l.events = Append(k.events, e)
    PROVE  \A t : /\ Told(k, t) \subseteq Told(l, t)
                  /\ \A u \in Told(l, t) : u \in Told(k, t) \/ (e.t = t /\ e.u = u)
                  /\ e.t = t /\ t # "route" => e.u \in Told(l, t)
<1>1. k.events \in Seq(Events)
  BY DEF Kits
<1>2. /\ Len(l.events) = Len(k.events) + 1 /\ Len(k.events) \in Nat
      /\ l.events[Len(k.events) + 1] = e
      /\ \A i \in 1..Len(k.events) : l.events[i] = k.events[i]
  BY <1>1
<1>3. \A i \in 1..Len(l.events) : i \in 1..Len(k.events) \/ i = Len(k.events) + 1
  BY <1>2
<1>4. /\ \A i \in 1..Len(k.events) : i \in 1..Len(l.events)
      /\ Len(k.events) + 1 \in 1..Len(l.events)
  BY <1>2
<1>5. e.t # "route" => e.u \in Uuids
  BY DEF Events
<1> QED BY <1>2, <1>3, <1>4, <1>5 DEF Told

LEMMA ToldTail ==
    ASSUME NEW k \in Kits, k.events # << >>, NEW l, l.events = Tail(k.events)
    PROVE  /\ Head(k.events) \in Events
           /\ \A t : /\ Told(l, t) \subseteq Told(k, t)
                     /\ \A u \in Told(k, t) : u \in Told(l, t) \/ (Head(k.events).t = t /\ Head(k.events).u = u)
                     /\ t = Head(k.events).t /\ t # "route" => Head(k.events).u \in Told(k, t)
<1>1. k.events \in Seq(Events)
  BY DEF Kits
<1>2. /\ Len(l.events) = Len(k.events) - 1 /\ Len(k.events) \in Nat /\ Len(k.events) >= 1
      /\ k.events[1] = Head(k.events) /\ Head(k.events) \in Events
      /\ \A i \in 1..Len(l.events) : l.events[i] = k.events[i + 1]
  BY <1>1
<1>3. \A i \in 1..Len(l.events) : i + 1 \in 1..Len(k.events)
  BY <1>2
<1>4. \A i \in 1..Len(k.events) : i = 1 \/ (i - 1 \in 1..Len(l.events) /\ l.events[i - 1] = k.events[i])
  BY <1>2
<1>5. Head(k.events).t # "route" => Head(k.events).u \in Uuids
  BY <1>2 DEF Events
<1>6. 1 \in 1..Len(k.events)
  BY <1>2
<1> QED BY <1>2, <1>3, <1>4, <1>5, <1>6, SMTT(30) DEF Told

\* The mirror is about these fields and what the events tell.
LEMMA SameMirror ==
    ASSUME NEW k, NEW l, l.native = k.native, PendingUuids(l) = PendingUuids(k), l.unclaimed = k.unclaimed,
           l.uuid = k.uuid, l.waits = k.waits, l.timers \subseteq k.timers \cup PendingUuids(k), l.byKit = k.byKit,
           Told(l, "end") = Told(k, "end"), Told(l, "answer") = Told(k, "answer")
    PROVE  /\ Held(k) => Held(l)
           /\ Linked(k) => Linked(l)
           /\ \A s : Rings(k, s) => Rings(l, s)
<1>1. Live(l) = Live(k) /\ Reported(l) = Reported(k) /\ Current(l) = Current(k)
  BY DEF Live, Reported, Current
<1> QED BY <1>1 DEF Held, Linked, Rings

LEMMA RouteMirror ==
    ASSUME NEW k, WellKept(k), NEW on \in BOOLEAN
    PROVE  LET l == SetRoute(k, on) IN
           /\ Held(k) => Held(l)
           /\ Linked(k) => Linked(l)
           /\ \A s : Rings(k, s) => Rings(l, s)
           /\ \A t : t # "route" => Told(l, t) = Told(k, t)
<1> DEFINE l == SetRoute(k, on)
<1>1. k \in Kits
  BY DEF WellKept
<1>2. /\ PendingUuids(l) = PendingUuids(k)
      /\ l = [k EXCEPT !.route = on, !.events = l.events]
      /\ l.events = IF k.route # on /\ k.wired THEN Append(k.events, RouteEvent(on)) ELSE k.events
  BY SetRouteFacts
<1>3. \A t : t # "route" => Told(l, t) = Told(k, t)
  <2>1. CASE l.events = k.events
    BY <2>1 DEF Told
  <2>2. CASE l.events = Append(k.events, RouteEvent(on))
    <3>1. RouteEvent(on) \in Events /\ RouteEvent(on).t = "route"
      BY DEF RouteEvent, Events
    <3> HIDE DEF l
    <3> SUFFICES ASSUME NEW t, t # "route" PROVE Told(l, t) = Told(k, t)
      OBVIOUS
    <3>2. /\ Told(k, t) \subseteq Told(l, t)
          /\ \A u \in Told(l, t) : u \in Told(k, t) \/ (RouteEvent(on).t = t /\ RouteEvent(on).u = u)
      BY <1>1, <2>2, <3>1, ToldAppend
    <3> QED BY <3>1, <3>2
  <2> QED BY <1>2, <2>1, <2>2
<1> HIDE DEF l
<1>4. /\ l.native = k.native /\ l.unclaimed = k.unclaimed /\ l.uuid = k.uuid /\ l.waits = k.waits
      /\ l.timers = k.timers /\ l.byKit = k.byKit
  BY <1>1, <1>2 DEF Kits
<1>5. Told(l, "end") = Told(k, "end") /\ Told(l, "answer") = Told(k, "answer")
  BY <1>3
<1> QED BY <1>2, <1>3, <1>4, <1>5, SameMirror DEF l

\* Without a current call and one that is being reported, the status does not matter.
Idle(k) == k.waits = {} /\ k.uuid = None /\ Held(k)

LEMMA IdleMirror ==
    ASSUME NEW k, Idle(k)
    PROVE  Linked(k) /\ \A s : Rings(k, s)
BY DEF Idle, Linked, Rings, Reported, Current

LEMMA NewIdle ==
    ASSUME NEW k, WellKept(k), Idle(k)
    PROVE  Idle(NewCall(k)) /\ NewFacts(k, NewCall(k))
<1> DEFINE l == NewCall(k)
<1>1. NewFacts(k, l)
  BY NewCallFacts
<1>2. k \in Kits
  BY DEF WellKept
<1> HIDE DEF l
<1>3. /\ l.native = k.native /\ l.pending = k.pending /\ l.unclaimed = k.unclaimed /\ l.uuid = k.uuid
      /\ l.waits = k.waits /\ l.timers = k.timers /\ l.events = k.events
  BY <1>1, <1>2 DEF NewFacts, Kits
<1>4. \A t : Told(l, t) = Told(k, t)
  BY <1>3 DEF Told
<1>5. PendingUuids(l) = PendingUuids(k) /\ Live(l) = Live(k)
  BY <1>1 DEF NewFacts
<1>6. Held(l)
  BY <1>3, <1>4, <1>5 DEF Idle, Held, Reported, Current
<1> QED BY <1>1, <1>3, <1>6 DEF Idle, l

LEMMA ReportMirror ==
    ASSUME NEW k, WellKept(k), Idle(k), ~k.byKit, NEW how \in {"ringing", "dialing"},
           NEW u \in Uuids \cup {None}, u = None \/ NewUuid(k, u)
    PROVE  LET l == Report(k, how, u) IN
           /\ Held(l) /\ Linked(l)
           /\ \A s : (how = "ringing" <=> s = "incoming-ringing") => Rings(l, s)
<1> DEFINE l == Report(k, how, u)
<1>1. /\ PendingUuids(l) = PendingUuids(k) /\ Live(l) = Live(k) \cup ({u} \ {None})
      /\ l = [k EXCEPT !.native = l.native, !.waits = k.waits \cup {u}]
      /\ l.native = IF u = None THEN k.native ELSE [k.native EXCEPT ![u] = how]
  <2>1. WellKept(k) /\ (u = None \/ NewUuid(k, u))
    OBVIOUS
  <2>2. Reports(k, Report(k, how, u), how, u)
    BY <2>1, ReportFacts
  <2> QED BY <2>2 DEF Reports
<1>2. k \in Kits /\ PendingUuids(k) \subseteq Live(k) /\ k.waits = {} /\ k.uuid = None /\ Held(k)
  BY DEF WellKept, Idle
<1> HIDE DEF l
<1>3. /\ l.waits = {u} /\ l.unclaimed = k.unclaimed /\ l.uuid = None /\ ~l.byKit
      /\ l.timers = k.timers /\ l.events = k.events
  BY <1>1, <1>2 DEF Kits
<1>4. \A t : Told(l, t) = Told(k, t)
  BY <1>3 DEF Told
<1>5. u # None => /\ u \notin PendingUuids(k) /\ u \notin k.timers
                  /\ u \notin Told(k, "end") /\ u \notin Told(k, "answer")
  BY <1>2, NewUuidFacts
<1>6. k.native \in [Uuids -> {"none", "ringing", "dialing", "live", "over"}]
  BY <1>2 DEF Kits
<1>7. /\ \A v \in Uuids : v # u => l.native[v] = k.native[v]
      /\ u # None => l.native[u] = how
  BY <1>1, <1>6
<1>8. Reported(l) = {u} \ {None} /\ Current(l) = {} /\ Reported(k) = {} /\ Current(k) = {}
  BY <1>2, <1>3 DEF Reported, Current
<1>9. PendingUuids(k) \subseteq Uuids /\ \A t : Told(k, t) \subseteq Uuids
  BY <1>2, SetShape DEF Told
<1>10. Held(l)
  BY <1>1, <1>2, <1>3, <1>4, <1>5, <1>7, <1>8, <1>9 DEF Held
<1>11. Linked(l) /\ \A s : (how = "ringing" <=> s = "incoming-ringing") => Rings(l, s)
  BY <1>7, <1>8 DEF Linked, Rings
<1> QED BY <1>10, <1>11 DEF l

LEMMA ClaimMirror ==
    ASSUME NEW k, WellKept(k), Idle(k), k.pending # << >>
    PROVE  LET l == Claim(k) IN
           /\ Held(l) /\ Linked(l) /\ l.waits = {} /\ l.uuid # None
           /\ IF Head(k.pending) \in k.unclaimed THEN l.native[l.uuid] = "live" /\ l.byKit
                                                  ELSE l.native[l.uuid] = "ringing" /\ ~l.byKit
<1> DEFINE l == Claim(k)
           u == Head(k.pending)
<1>1. /\ u \in Uuids /\ u \in PendingUuids(k)
      /\ PendingUuids(l) = PendingUuids(k) \ {u} /\ Live(l) = Live(k)
      /\ l = [k EXCEPT !.pending = l.pending, !.unclaimed = k.unclaimed \ {u},
                       !.timers = k.timers \ {u}, !.uuid = u, !.byKit = (u \in k.unclaimed)]
  BY ClaimFacts
<1>2. k \in Kits /\ PendingUuids(k) \subseteq Live(k) /\ k.waits = {} /\ k.uuid = None /\ Held(k) /\ None \notin Uuids
  BY SetShape DEF WellKept, Idle
<1> HIDE DEF l, u
<1>3. /\ l.waits = {} /\ l.unclaimed = k.unclaimed \ {u} /\ l.uuid = u
      /\ l.timers = k.timers \ {u} /\ l.events = k.events /\ l.native = k.native
  BY <1>1, <1>2 DEF Kits
<1>4. l.byKit <=> u \in k.unclaimed
  BY <1>1, <1>2 DEF Kits
<1>5. \A t : Told(l, t) = Told(k, t)
  BY <1>3 DEF Told
<1>6. Reported(l) = {} /\ Current(l) = {u} /\ Reported(k) = {} /\ Current(k) = {}
  BY <1>1, <1>2, <1>3 DEF Reported, Current
<1>7. IF u \in k.unclaimed THEN l.native[u] = "live" ELSE l.native[u] = "ringing"
  <2>1. k.native[u] \in {"ringing", "dialing", "live"}
    BY <1>1, <1>2 DEF Live, Shown
  <2> QED BY <1>1, <1>2, <1>3, <2>1 DEF Held
<1>8. Held(l)
  BY <1>1, <1>2, <1>3, <1>5, <1>6 DEF Held
<1>9. Linked(l)
  BY <1>1, <1>2, <1>6 DEF Linked
<1> QED BY <1>1, <1>2, <1>3, <1>4, <1>7, <1>8, <1>9 DEF l, u

\* The answer was given in the app, or the call is connected.
Accepts(k, l) ==
    /\ WellKept(l) /\ PendingUuids(l) = PendingUuids(k) /\ Live(l) = Live(k)
    /\ l.unclaimed = k.unclaimed
    /\ SameButEvents(k, l)

AnswerEvent(u) == [t |-> "answer", u |-> u]

LEMMA AcceptedFacts ==
    ASSUME NEW k, WellKept(k)
    PROVE  LET l == SyncAccepted(k)
               rings == k.uuid # None /\ ~k.byKit /\ k.native[k.uuid] = "ringing"
           IN  /\ Accepts(k, l)
               /\ rings => /\ l.native = [k.native EXCEPT ![k.uuid] = "live"]
                           /\ l.events = IF k.wired THEN Append(k.events, AnswerEvent(k.uuid)) ELSE k.events
               /\ ~rings => l = k
<1> DEFINE l == SyncAccepted(k)
           rings == k.uuid # None /\ ~k.byKit /\ k.native[k.uuid] = "ringing"
           m == [k EXCEPT !.native[k.uuid] = "live"]
<1>1. k \in Kits
  BY DEF WellKept
<1>2. CASE ~rings
  BY <1>2 DEF SyncAccepted, Accepts, SameButEvents
<1>3. CASE rings
  <2>1. k.uuid \in Uuids /\ k.uuid \in Live(k)
    BY <1>1, <1>3 DEF Kits, Live, Shown
  <2>2. /\ WellKept(m) /\ PendingUuids(m) = PendingUuids(k) /\ Live(m) = Live(k)
        /\ m.native = [k.native EXCEPT ![k.uuid] = "live"]
        /\ m.pending = k.pending /\ m.unclaimed = k.unclaimed /\ SameRest(k, m)
    BY <2>1, LiveFacts
  <2>3. AnswerEvent(k.uuid) \in Events /\ l = Emit(m, AnswerEvent(k.uuid))
    BY <1>3, <2>1 DEF SyncAccepted, AnswerEvent, Events
  <2> HIDE DEF m, l
  <2>4. /\ WellKept(l) /\ l = [m EXCEPT !.events = l.events]
        /\ l.events = IF m.wired THEN Append(m.events, AnswerEvent(k.uuid)) ELSE m.events
        /\ PendingUuids(l) = PendingUuids(m) /\ Live(l) = Live(m)
    BY <2>2, <2>3, EmitFacts
  <2>5. m \in Kits
    BY <2>2 DEF WellKept
  <2>6. /\ l.native = m.native /\ l.unclaimed = m.unclaimed
        /\ SameButEvents(m, l)
    BY <2>4, <2>5 DEF Kits, SameButEvents
  <2> HIDE DEF rings
  <2>7. Accepts(k, l)
    BY <2>2, <2>4, <2>6 DEF SameRest, SameButEvents, Accepts
  <2>8. /\ l.native = [k.native EXCEPT ![k.uuid] = "live"]
        /\ l.events = IF k.wired THEN Append(k.events, AnswerEvent(k.uuid)) ELSE k.events
    BY <2>2, <2>4, <2>6 DEF SameRest, SameButEvents
  <2> QED BY <1>3, <2>7, <2>8 DEF l, rings
<1> QED BY <1>2, <1>3

LEMMA ActiveFacts ==
    ASSUME NEW k, WellKept(k)
    PROVE  LET l == SyncActive(k)
               dials == k.uuid # None /\ k.native[k.uuid] = "dialing"
           IN  /\ Accepts(k, l) /\ l.events = k.events
               /\ dials => l.native = [k.native EXCEPT ![k.uuid] = "live"]
               /\ ~dials => l = k
<1> DEFINE l == SyncActive(k)
           dials == k.uuid # None /\ k.native[k.uuid] = "dialing"
<1>1. k \in Kits
  BY DEF WellKept
<1>2. CASE ~dials
  BY <1>2 DEF SyncActive, Accepts, SameButEvents
<1>3. CASE dials
  <2>1. k.uuid \in Uuids /\ k.uuid \in Live(k)
    BY <1>1, <1>3 DEF Kits, Live, Shown
  <2>2. l = [k EXCEPT !.native[k.uuid] = "live"]
    BY <1>3 DEF SyncActive
  <2> HIDE DEF l, dials
  <2>3. /\ WellKept(l) /\ PendingUuids(l) = PendingUuids(k) /\ Live(l) = Live(k)
        /\ l.native = [k.native EXCEPT ![k.uuid] = "live"]
        /\ l.pending = k.pending /\ l.unclaimed = k.unclaimed /\ SameRest(k, l)
    BY <2>1, <2>2, LiveFacts
  <2> QED BY <1>3, <2>3 DEF SameRest, SameButEvents, Accepts, l, dials
<1> QED BY <1>2, <1>3

\* The controller has gone to rest: the mirror forgets its call and the system ends it.
LEMMA SyncEndedFacts ==
    ASSUME NEW k, WellKept(k)
    PROVE  LET l == SyncEnded(k)
               ends == k.uuid # None /\ ~k.ended
           IN  /\ WellKept(l) /\ l.uuid = None /\ ~l.ended
               /\ l.events = k.events /\ l.route = k.route /\ l.wired = k.wired /\ l.byKit = k.byKit
               /\ l.timers = k.timers /\ l.waits = k.waits /\ l.speaker = k.speaker
               /\ ends => /\ k.uuid \in Uuids
                          /\ Live(l) = Live(k) \ {k.uuid} /\ PendingUuids(l) = PendingUuids(k) \ {k.uuid}
                          /\ l.native = IF k.uuid \in Live(k) THEN [k.native EXCEPT ![k.uuid] = "over"] ELSE k.native
                          /\ l.unclaimed = k.unclaimed \ {k.uuid}
               /\ ~ends => /\ Live(l) = Live(k) /\ PendingUuids(l) = PendingUuids(k)
                           /\ l.native = k.native /\ l.unclaimed = k.unclaimed
<1> DEFINE l == SyncEnded(k)
           ends == k.uuid # None /\ ~k.ended
           m == [k EXCEPT !.uuid = None, !.ended = FALSE]
<1>1. k \in Kits
  BY DEF WellKept
<1>2. /\ m \in Kits /\ m.native = k.native /\ m.pending = k.pending /\ m.unclaimed = k.unclaimed
      /\ m.uuid = None /\ ~m.ended
      /\ m.events = k.events /\ m.route = k.route /\ m.wired = k.wired /\ m.byKit = k.byKit
      /\ m.timers = k.timers /\ m.waits = k.waits /\ m.speaker = k.speaker
  BY <1>1 DEF Kits
<1>3. l = IF ends THEN ReportEnded(m, k.uuid) ELSE m
  BY DEF SyncEnded
<1> HIDE DEF l, m
<1>4. WellKept(m) /\ PendingUuids(m) = PendingUuids(k) /\ Live(m) = Live(k)
  BY <1>2, SameSystem
<1>5. CASE ~ends
  BY <1>2, <1>3, <1>4, <1>5 DEF l
<1>6. CASE ends
  <2>1. k.uuid \in Uuids
    BY <1>1, <1>6 DEF Kits
  <2> DEFINE e == ReportEnded(m, k.uuid)
  <2>2. /\ WellKept(e) /\ Live(e) = Live(m) \ {k.uuid} /\ PendingUuids(e) = PendingUuids(m) \ {k.uuid}
        /\ e.native = IF k.uuid \in Live(m) THEN [m.native EXCEPT ![k.uuid] = "over"] ELSE m.native
        /\ e.unclaimed = m.unclaimed \ {k.uuid} /\ SameRest(m, e)
    BY <1>4, <2>1, EndedFacts
  <2>3. l = e
    BY <1>3, <1>6
  <2> HIDE DEF e
  <2> QED BY <1>2, <1>4, <1>6, <2>1, <2>2, <2>3 DEF SameRest, SameButEvents, l
<1> QED BY <1>5, <1>6

NewCallUuid(k, u) == u = None \/ NewUuid(k, u)

LEMMA SameUuids ==
    ASSUME NEW k, NEW l, NewFacts(k, l), k \in Kits
    PROVE  \A u : NewCallUuid(k, u) => NewCallUuid(l, u)
<1>1. Live(l) = Live(k) /\ l = [k EXCEPT !.ended = FALSE, !.byKit = FALSE, !.speaker = FALSE]
  BY DEF NewFacts
<1> HIDE DEF NewFacts
<1>2. l.events = k.events /\ l.timers = k.timers /\ l.waits = k.waits /\ l.uuid = k.uuid
  BY <1>1 DEF Kits
<1>3. Unused(l) = Unused(k)
  BY <1>1, <1>2 DEF Unused, Mentioned
<1> QED BY <1>3 DEF NewCallUuid, NewUuid

LEMMA KeptBySync ==
    ASSUME NEW k, WellKept(k)
    PROVE  /\ WellKept(SyncAccepted(k)) /\ WellKept(SyncActive(k)) /\ WellKept(SyncEnded(k)) /\ WellKept(Torn(k))
           /\ \A u \in Uuids \cup {None} : NewCallUuid(k, u) =>
                 WellKept(SyncIncoming(k, u)) /\ WellKept(SyncStarting(k, u))
<1>1. WellKept(SyncAccepted(k))
  BY AcceptedFacts DEF Accepts
<1>2. WellKept(SyncActive(k))
  BY ActiveFacts DEF Accepts
<1>3. WellKept(SyncEnded(k))
  BY SyncEndedFacts
<1>4. WellKept(Torn(k))
  <2>1. WellKept(SetRoute(k, FALSE))
    BY SetRouteFacts
  <2> QED BY <2>1, SyncEndedFacts DEF Torn
<1>5. ASSUME NEW u \in Uuids \cup {None}, NewCallUuid(k, u)
      PROVE  WellKept(SyncIncoming(k, u)) /\ WellKept(SyncStarting(k, u))
  <2> DEFINE n == NewCall(k)
  <2>1. NewFacts(k, n)
    BY NewCallFacts
  <2>2. WellKept(n)
    BY <2>1 DEF NewFacts
  <2>3. NewCallUuid(n, u)
    BY <1>5, <2>1, SameUuids DEF WellKept
  <2>4. n.pending = k.pending
    BY <2>1 DEF NewFacts, WellKept, Kits
  <2> HIDE DEF n
  <2>5. Reports(n, Report(n, "ringing", u), "ringing", u) /\ Reports(n, Report(n, "dialing", u), "dialing", u)
    BY <2>2, <2>3, ReportFacts DEF NewCallUuid
  <2>6. n.pending # << >> => WellKept(Claim(n))
    BY <2>2, ClaimFacts
  <2> QED BY <2>4, <2>5, <2>6 DEF Reports, SyncIncoming, SyncStarting, n
<1> QED BY <1>1, <1>2, <1>3, <1>4, <1>5

\* A push joins the waiting calls.
PushEvent(u) == [t |-> "push", u |-> u]

Pushes(k, l, u) ==
    /\ WellKept(l) /\ PendingUuids(l) = PendingUuids(k) \cup {u} /\ Live(l) = Live(k) \cup {u}
    /\ l.native = [k.native EXCEPT ![u] = "ringing"] /\ l.unclaimed = k.unclaimed
    /\ l.events = IF k.wired THEN Append(k.events, PushEvent(u)) ELSE k.events
    /\ SameButEvents(k, l)

LEMMA PushFacts ==
    ASSUME NEW k, WellKept(k), NEW u \in Uuids, NewUuid(k, u)
    PROVE  Pushes(k, Emit([k EXCEPT !.native[u] = "ringing", !.pending = Append(@, u)], PushEvent(u)), u)
<1> DEFINE n == [k.native EXCEPT ![u] = "ringing"]
           p == Append(k.pending, u)
           m == [k EXCEPT !.native[u] = "ringing", !.pending = Append(@, u)]
           l == Emit(m, PushEvent(u))
<1>1. k \in Kits /\ k.pending \in Seq(Uuids) /\ k.native \in [Uuids -> {"none", "ringing", "dialing", "live", "over"}]
  BY DEF WellKept, Kits
<1>2. u \notin Live(k) /\ u \notin PendingUuids(k)
  BY <1>1, NewUuidFacts DEF WellKept
<1>3. m = [k EXCEPT !.native = n, !.pending = p]
  BY <1>1 DEF Kits
<1>4. /\ n \in [Uuids -> {"none", "ringing", "dialing", "live", "over"}]
      /\ p \in Seq(Uuids) /\ Len(p) = Len(k.pending) + 1 /\ Len(k.pending) \in Nat /\ p[Len(k.pending) + 1] = u
      /\ \A i \in 1..Len(k.pending) : p[i] = k.pending[i]
      /\ n[u] = "ringing" /\ \A v \in Uuids : v # u => n[v] = k.native[v]
  BY <1>1
<1>4a. Len(k.pending) + 1 \in 1..Len(p) /\ \A i \in 1..Len(p) : i \in 1..Len(k.pending) \/ i = Len(k.pending) + 1
  BY <1>4
<1>4b. \A i \in 1..Len(k.pending) : i \in 1..Len(p)
  BY <1>4
<1> HIDE DEF n, p, m, l
<1>5. m \in Kits /\ m.native = n /\ m.pending = p /\ m.unclaimed = k.unclaimed /\ SameRest(k, m)
  BY <1>1, <1>3, <1>4 DEF Kits, SameRest, SameButEvents
<1>6. \A i \in 1..Len(k.pending) : k.pending[i] # u
  BY <1>1, <1>2, SetShape DEF Elems
<1>7. Distinct(p)
  BY <1>4, <1>4a, <1>6 DEF Distinct, WellKept
<1>8. PendingUuids(m) = PendingUuids(k) \cup {u}
  <2>1. PendingUuids(m) = Elems(p) /\ PendingUuids(k) = Elems(k.pending)
    BY <1>1, <1>5, SetShape
  <2> QED BY <2>1, <1>4, <1>4a, <1>4b DEF Elems
<1>9. Live(m) = Live(k) \cup {u}
  BY <1>4, <1>5 DEF Live, Shown
<1>10. WellKept(m)
  BY <1>5, <1>7, <1>8, <1>9 DEF WellKept
<1>11. PushEvent(u) \in Events
  BY DEF PushEvent, Events
<1>12. /\ WellKept(l) /\ l = [m EXCEPT !.events = l.events]
       /\ l.events = IF m.wired THEN Append(m.events, PushEvent(u)) ELSE m.events
       /\ PendingUuids(l) = PendingUuids(m) /\ Live(l) = Live(m)
  BY <1>10, <1>11, EmitFacts DEF l
<1>13. /\ l.native = m.native /\ l.unclaimed = m.unclaimed
       /\ SameButEvents(m, l)
  BY <1>5, <1>12 DEF Kits, SameButEvents
<1>14. Pushes(k, l, u)
  BY <1>5, <1>8, <1>9, <1>12, <1>13 DEF Pushes, SameRest, SameButEvents, n
<1> QED BY <1>14 DEF l, m

\* An answer on the system's screen; one of a waiting call is remembered.
Answers(k, l, u) ==
    /\ WellKept(l) /\ PendingUuids(l) = PendingUuids(k) /\ Live(l) = Live(k)
    /\ l.native = [k.native EXCEPT ![u] = "live"]
    /\ l.unclaimed = IF u \in PendingUuids(k) THEN k.unclaimed \cup {u} ELSE k.unclaimed
    /\ l.events = IF k.wired THEN Append(k.events, AnswerEvent(u)) ELSE k.events
    /\ SameButEvents(k, l)

LEMMA AnswerFacts ==
    ASSUME NEW k, WellKept(k), NEW u \in Live(k)
    PROVE  Answers(k, Emit([k EXCEPT !.native[u] = "live",
                                     !.unclaimed = IF u \in PendingUuids(k) THEN @ \cup {u} ELSE @],
                           AnswerEvent(u)), u)
<1> DEFINE a == [k EXCEPT !.native[u] = "live"]
           w == IF u \in PendingUuids(k) THEN k.unclaimed \cup {u} ELSE k.unclaimed
           m == [k EXCEPT !.native[u] = "live", !.unclaimed = IF u \in PendingUuids(k) THEN @ \cup {u} ELSE @]
           l == Emit(m, AnswerEvent(u))
<1>1. k \in Kits /\ u \in Uuids /\ k.unclaimed \subseteq PendingUuids(k)
  BY DEF WellKept, Live
<1>2. /\ WellKept(a) /\ PendingUuids(a) = PendingUuids(k) /\ Live(a) = Live(k)
      /\ a.native = [k.native EXCEPT ![u] = "live"]
      /\ a.pending = k.pending /\ a.unclaimed = k.unclaimed /\ SameRest(k, a)
  BY LiveFacts
<1>3. m = [a EXCEPT !.unclaimed = w]
  BY <1>1 DEF Kits
<1>4. w \subseteq PendingUuids(k) /\ w \in SUBSET Uuids
  BY <1>1 DEF Kits
<1>5. a \in Kits
  BY <1>2 DEF WellKept
<1> HIDE DEF a, w, m, l
<1>6. m \in Kits /\ m.native = a.native /\ m.pending = a.pending /\ m.unclaimed = w /\ SameRest(a, m)
  BY <1>3, <1>4, <1>5 DEF Kits, SameRest, SameButEvents
<1>7. PendingUuids(m) = PendingUuids(k) /\ Live(m) = Live(k)
  BY <1>2, <1>6 DEF PendingUuids, Live
<1>8. WellKept(m)
  BY <1>2, <1>4, <1>6, <1>7 DEF WellKept
<1>9. AnswerEvent(u) \in Events
  BY <1>1 DEF AnswerEvent, Events
<1>10. /\ WellKept(l) /\ l = [m EXCEPT !.events = l.events]
       /\ l.events = IF m.wired THEN Append(m.events, AnswerEvent(u)) ELSE m.events
       /\ PendingUuids(l) = PendingUuids(m) /\ Live(l) = Live(m)
  BY <1>8, <1>9, EmitFacts DEF l
<1>11. /\ l.native = m.native /\ l.unclaimed = m.unclaimed
       /\ SameButEvents(m, l)
  BY <1>6, <1>10 DEF Kits, SameButEvents
<1>12. Answers(k, l, u)
  BY <1>2, <1>6, <1>7, <1>10, <1>11 DEF Answers, SameRest, SameButEvents, w
<1> QED BY <1>12 DEF l, m

\* A hang up on the system's screen.
EndEvent(u) == [t |-> "end", u |-> u]

Hangs(k, l, u) ==
    /\ WellKept(l) /\ PendingUuids(l) = PendingUuids(k) \ {u} /\ Live(l) = Live(k) \ {u}
    /\ l.native = [k.native EXCEPT ![u] = "over"]
    /\ l.unclaimed = k.unclaimed \ {u}
    /\ l.events = IF k.wired THEN Append(k.events, EndEvent(u)) ELSE k.events
    /\ SameButEvents(k, l)

LEMMA HangFacts ==
    ASSUME NEW k, WellKept(k), NEW u \in Live(k)
    PROVE  Hangs(k, Emit(Over(Consume(k, u), u), EndEvent(u)), u)
<1> DEFINE m == ReportEnded(k, u)
           l == Emit(m, EndEvent(u))
<1>1. u \in Uuids
  BY DEF Live
<1>2. /\ WellKept(m) /\ Live(m) = Live(k) \ {u} /\ PendingUuids(m) = PendingUuids(k) \ {u}
      /\ m.native = [k.native EXCEPT ![u] = "over"]
      /\ m.unclaimed = k.unclaimed \ {u} /\ SameRest(k, m)
  BY <1>1, EndedFacts
<1>3. EndEvent(u) \in Events
  BY <1>1 DEF EndEvent, Events
<1>4. Emit(Over(Consume(k, u), u), EndEvent(u)) = l
  BY DEF ReportEnded
<1> HIDE DEF m, l
<1>5. /\ WellKept(l) /\ l = [m EXCEPT !.events = l.events]
      /\ l.events = IF m.wired THEN Append(m.events, EndEvent(u)) ELSE m.events
      /\ PendingUuids(l) = PendingUuids(m) /\ Live(l) = Live(m)
  BY <1>2, <1>3, EmitFacts DEF l
<1>6. m \in Kits
  BY <1>2 DEF WellKept
<1>7. /\ l.native = m.native /\ l.unclaimed = m.unclaimed
      /\ SameButEvents(m, l)
  BY <1>5, <1>6 DEF Kits, SameButEvents
<1>8. Hangs(k, l, u)
  BY <1>2, <1>5, <1>7 DEF Hangs, SameRest, SameButEvents
<1> QED BY <1>4, <1>8

\* A change of what only the app holds.
AllFields == {"native", "pending", "unclaimed", "events", "route", "wired", "uuid", "ended", "byKit",
              "timers", "waits", "speaker"}
Only(k, l, F) == \A f \in AllFields \ F : l[f] = k[f]

Moves(k, l, F) ==
    WellKept(l) /\ PendingUuids(l) = PendingUuids(k) /\ Live(l) = Live(k) /\ Only(k, l, F)

LEMMA MoveFacts ==
    ASSUME NEW k, WellKept(k), NEW l \in Kits, NEW F, {"native", "pending", "unclaimed"} \cap F = {}, Only(k, l, F)
    PROVE  Moves(k, l, F)
<1>1. l.native = k.native /\ l.pending = k.pending /\ l.unclaimed = k.unclaimed
  BY DEF Only, AllFields
<1> QED BY <1>1, SameSystem DEF Moves

LEMMA TimersMove ==
    ASSUME NEW k, WellKept(k), NEW T \in SUBSET Uuids, NEW l, l = [k EXCEPT !.timers = T]
    PROVE  Moves(k, l, {"timers"}) /\ l.timers = T
<1>1. k \in Kits
  BY DEF WellKept
<1>2. l \in Kits /\ Only(k, l, {"timers"}) /\ l.timers = T
  BY <1>1 DEF Kits, Only, AllFields
<1>3. {"native", "pending", "unclaimed"} \cap {"timers"} = {}
  OBVIOUS
<1> QED BY <1>2, <1>3, MoveFacts

LEMMA SpeakerMoves ==
    ASSUME NEW k, WellKept(k), NEW b \in BOOLEAN, NEW l, l = [k EXCEPT !.speaker = b]
    PROVE  Moves(k, l, {"speaker"}) /\ l.speaker = b
<1>1. k \in Kits
  BY DEF WellKept
<1>2. l \in Kits /\ Only(k, l, {"speaker"}) /\ l.speaker = b
  BY <1>1 DEF Kits, Only, AllFields
<1>3. {"native", "pending", "unclaimed"} \cap {"speaker"} = {}
  OBVIOUS
<1> QED BY <1>2, <1>3, MoveFacts

LEMMA ByKitMoves ==
    ASSUME NEW k, WellKept(k), NEW b \in BOOLEAN, NEW l, l = [k EXCEPT !.byKit = b]
    PROVE  Moves(k, l, {"byKit"}) /\ l.byKit = b
<1>1. k \in Kits
  BY DEF WellKept
<1>2. l \in Kits /\ Only(k, l, {"byKit"}) /\ l.byKit = b
  BY <1>1 DEF Kits, Only, AllFields
<1>3. {"native", "pending", "unclaimed"} \cap {"byKit"} = {}
  OBVIOUS
<1> QED BY <1>2, <1>3, MoveFacts

LEMMA EndedMoves ==
    ASSUME NEW k, WellKept(k), NEW b \in BOOLEAN, NEW l, l = [k EXCEPT !.ended = b]
    PROVE  Moves(k, l, {"ended"}) /\ l.ended = b
<1>1. k \in Kits
  BY DEF WellKept
<1>2. l \in Kits /\ Only(k, l, {"ended"}) /\ l.ended = b
  BY <1>1 DEF Kits, Only, AllFields
<1>3. {"native", "pending", "unclaimed"} \cap {"ended"} = {}
  OBVIOUS
<1> QED BY <1>2, <1>3, MoveFacts

LEMMA EventsMove ==
    ASSUME NEW k, WellKept(k), NEW e \in Seq(Events), NEW l, l = [k EXCEPT !.events = e]
    PROVE  Moves(k, l, {"events"}) /\ l.events = e
<1>1. k \in Kits
  BY DEF WellKept
<1>2. l \in Kits /\ Only(k, l, {"events"}) /\ l.events = e
  BY <1>1 DEF Kits, Only, AllFields
<1>3. {"native", "pending", "unclaimed"} \cap {"events"} = {}
  OBVIOUS
<1> QED BY <1>2, <1>3, MoveFacts

LEMMA WiredMoves ==
    ASSUME NEW k, WellKept(k), NEW T \in SUBSET Uuids, NEW l, l = [k EXCEPT !.wired = TRUE, !.timers = T]
    PROVE  Moves(k, l, {"wired", "timers"}) /\ l.wired /\ l.timers = T
<1>1. k \in Kits
  BY DEF WellKept
<1>2. l \in Kits /\ Only(k, l, {"wired", "timers"}) /\ l.wired /\ l.timers = T
  BY <1>1 DEF Kits, Only, AllFields
<1>3. {"native", "pending", "unclaimed"} \cap {"wired", "timers"} = {}
  OBVIOUS
<1> QED BY <1>2, <1>3, MoveFacts

LEMMA UuidMoves ==
    ASSUME NEW k, WellKept(k), NEW u \in Uuids \cup {None}, NEW l, l = [k EXCEPT !.waits = @ \ {u}, !.uuid = u]
    PROVE  Moves(k, l, {"waits", "uuid"}) /\ l.uuid = u /\ l.waits = k.waits \ {u}
<1>1. k \in Kits
  BY DEF WellKept
<1>2. l \in Kits /\ Only(k, l, {"waits", "uuid"}) /\ l.uuid = u /\ l.waits = k.waits \ {u}
  BY <1>1 DEF Kits, Only, AllFields
<1>3. {"native", "pending", "unclaimed"} \cap {"waits", "uuid"} = {}
  OBVIOUS
<1> QED BY <1>2, <1>3, MoveFacts

\* The first event is taken from the queue.
LEMMA DeliveredFacts ==
    ASSUME WellKept(kit), kit.events # << >>
    PROVE  /\ Moves(kit, Delivered, {"events"}) /\ Delivered.events = Tail(kit.events)
           /\ Head(kit.events) \in Events
<1>1. kit \in Kits /\ kit.events \in Seq(Events)
  BY DEF WellKept, Kits
<1> DEFINE e == Tail(kit.events)
<1>2. e \in Seq(Events) /\ Head(kit.events) \in Events
  BY <1>1
<1>3. Delivered = [kit EXCEPT !.events = e]
  BY DEF Delivered
<1> HIDE DEF e
<1>4. Moves(kit, Delivered, {"events"}) /\ Delivered.events = e
  BY <1>2, <1>3, EventsMove
<1> QED BY <1>2, <1>4 DEF e

-----------------------------------------------------------------------------
(* The types.                                                              *)

\* The statuses move as CallLifecycle says.
LEMMA LifeTypes ==
    ASSUME status \in Statuses, dir \in {"none", "in", "out"}, Next \/ UNCHANGED <<status, dir>>
    PROVE  status' \in Statuses /\ dir' \in {"none", "in", "out"}
BY DEF Next, Statuses, Shows, Place, Ring, RingAnswered, Offered, Accepted, Accept, Crossed,
       MediaUp, MediaLost, End, Rest, Vanish

Moved == WellKept(kit') /\ app' \in Apps /\ (Next \/ UNCHANGED <<status, dir>>)

LEMMA StartsMoves ==
    ASSUME WellKept(kit), NEW u \in Uuids \cup {None}, Starts(u)
    PROVE  WellKept(kit') /\ Next
<1>1. NewCallUuid(kit, u) /\ kit' = SyncStarting(kit, u) /\ Place
  BY DEF Starts, NewCallUuid
<1> QED BY <1>1, KeptBySync DEF Next

LEMMA TypesOfCalls ==
    ASSUME Types, NEW u \in Uuids \cup {None},
           CallRings(u) \/ TapCall(u) \/ MicAnswered(u) \/ CallsCross(u) \/ UuidKnown(u)
    PROVE  Moved
<1>1. WellKept(kit) /\ app \in Apps
  BY DEF Types
<1>2. CASE CallRings(u)
  <2>1. NewCallUuid(kit, u) /\ kit' = SyncIncoming(kit, u) /\ app' = app /\ (Ring \/ RingAnswered)
    BY <1>2 DEF CallRings, NewCallUuid
  <2>2. WellKept(kit')
    BY <1>1, <2>1, KeptBySync
  <2> QED BY <1>1, <2>1, <2>2 DEF Moved, Next
<1>3. CASE TapCall(u)
  <2>1. CASE Starts(u) /\ UNCHANGED app
    BY <1>1, <2>1, StartsMoves DEF Moved
  <2>2. CASE app' = [app EXCEPT !.prompt = TRUE] /\ UNCHANGED <<status, dir, kit>>
    <3>1. app' \in Apps
      BY <1>1, <2>2 DEF Apps
    <3> QED BY <1>1, <2>2, <3>1 DEF Moved
  <2> QED BY <1>3, <2>1, <2>2 DEF TapCall
<1>4. CASE MicAnswered(u)
  <2>1. PICK mic \in {"granted", "denied"} :
           /\ app' = [app EXCEPT !.mic = mic, !.prompt = FALSE]
           /\ IF mic = "granted" /\ Ready THEN Starts(u) ELSE u = None /\ UNCHANGED <<status, dir, kit>>
    BY <1>4 DEF MicAnswered
  <2>2. app' \in Apps
    BY <1>1, <2>1 DEF Apps
  <2> QED BY <1>1, <2>1, <2>2, StartsMoves DEF Moved
<1>5. CASE CallsCross(u)
  <2>1. NewCallUuid(kit, u) /\ kit' = SyncAccepted(SyncIncoming(kit, u)) /\ app' = app /\ Crossed
    BY <1>5 DEF CallsCross, NewCallUuid
  <2>2. WellKept(SyncIncoming(kit, u))
    BY <1>1, <2>1, KeptBySync
  <2>3. WellKept(kit')
    BY <2>1, <2>2, KeptBySync
  <2> QED BY <1>1, <2>1, <2>3 DEF Moved, Next
<1>6. CASE UuidKnown(u)
  <2>1. kit' = [kit EXCEPT !.waits = @ \ {u}, !.uuid = u] /\ UNCHANGED <<status, dir, app>>
    BY <1>6 DEF UuidKnown
  <2>2. WellKept(kit')
    BY <1>1, <2>1, UuidMoves DEF Moves
  <2> QED BY <1>1, <2>1, <2>2 DEF Moved
<1> QED BY <1>2, <1>3, <1>4, <1>5, <1>6

\* The events of the system's screen are the ones the lemmas above are about.
LEMMA EventNames ==
    /\ \A u : /\ Push(u) => kit' = Emit([kit EXCEPT !.native[u] = "ringing", !.pending = Append(@, u)], PushEvent(u))
              /\ SystemAnswers(u) =>
                   kit' = Emit([kit EXCEPT !.native[u] = "live",
                                           !.unclaimed = IF u \in PendingUuids(kit) THEN @ \cup {u} ELSE @],
                               AnswerEvent(u))
              /\ SystemEnds(u) => kit' = Emit(Over(Consume(kit, u), u), EndEvent(u))
BY DEF Push, SystemAnswers, SystemEnds, PushEvent, AnswerEvent, EndEvent

LEMMA TimeoutFacts ==
    ASSUME NEW u \in Uuids, WellKept(kit), ClaimTimeout(u)
    PROVE  LET k == ReportEnded(kit, u) IN Moves(k, kit', {"timers"}) /\ kit'.timers = kit.timers \ {u}
<1> DEFINE k == ReportEnded(kit, u)
<1>1. WellKept(k) /\ SameRest(kit, k)
  BY EndedFacts
<1> DEFINE T == k.timers \ {u}
<1>2. k.timers = kit.timers /\ T \in SUBSET Uuids
  BY <1>1 DEF SameRest, SameButEvents, WellKept, Kits
<1>3. kit' = [k EXCEPT !.timers = T]
  <2>1. kit' = [k EXCEPT !.timers = @ \ {u}]
    BY DEF ClaimTimeout
  <2> HIDE DEF k
  <2> QED BY <1>1, <2>1 DEF WellKept, Kits
<1> HIDE DEF k, T
<1>4. Moves(k, kit', {"timers"}) /\ kit'.timers = T
  BY <1>1, <1>2, <1>3, TimersMove
<1> QED BY <1>2, <1>4 DEF k, T

LEMMA TypesOfSystem ==
    ASSUME Types, NEW u \in Uuids, ClaimTimeout(u) \/ Push(u) \/ SystemAnswers(u) \/ SystemEnds(u)
    PROVE  Moved
<1>1. WellKept(kit) /\ app \in Apps
  BY DEF Types
<1>2. UNCHANGED <<status, dir, app>>
  BY DEF ClaimTimeout, Push, SystemAnswers, SystemEnds
<1>3. CASE ClaimTimeout(u)
  BY <1>1, <1>2, <1>3, TimeoutFacts DEF Moves, Moved
<1>4. CASE Push(u)
  <2>1. Pushes(kit, kit', u)
    <3>1. NewUuid(kit, u)
      BY <1>4 DEF Push
    <3>2. kit' = Emit([kit EXCEPT !.native[u] = "ringing", !.pending = Append(@, u)], PushEvent(u))
      BY <1>4, EventNames
    <3> QED BY <1>1, <3>1, <3>2, PushFacts
  <2> QED BY <1>1, <1>2, <2>1 DEF Pushes, Moved
<1>5. CASE SystemAnswers(u)
  <2>1. Answers(kit, kit', u)
    <3>1. u \in Live(kit)
      BY <1>5 DEF SystemAnswers, OnScreen
    <3> QED BY <1>1, <1>5, <3>1, EventNames, AnswerFacts
  <2> QED BY <1>1, <1>2, <2>1 DEF Answers, Moved
<1>6. CASE SystemEnds(u)
  <2>1. Hangs(kit, kit', u)
    <3>1. u \in Live(kit)
      BY <1>6 DEF SystemEnds, OnScreen
    <3> QED BY <1>1, <1>6, <3>1, EventNames, HangFacts
  <2> QED BY <1>1, <1>2, <2>1 DEF Hangs, Moved
<1> QED BY <1>3, <1>4, <1>5, <1>6

LEMMA TypesOfScreen ==
    ASSUME Types, CallProgresses \/ Answer \/ CallEnds \/ Lock
    PROVE  Moved
<1>1. WellKept(kit) /\ app \in Apps
  BY DEF Types
<1>2. CASE CallProgresses
  <2>1. app' = app /\ Next /\ (kit' = kit \/ kit' = SyncActive(kit))
    BY <1>2 DEF CallProgresses, Next
  <2> QED BY <1>1, <2>1, KeptBySync DEF Moved
<1>3. CASE Answer
  <2>1. app' = app /\ Next /\ kit' = SyncAccepted(kit)
    BY <1>3 DEF Answer, Next
  <2> QED BY <1>1, <2>1, KeptBySync DEF Moved
<1>4. CASE CallEnds
  <2>1. app' = app /\ Next /\ kit' = Torn(kit)
    BY <1>4 DEF CallEnds, Next
  <2> QED BY <1>1, <2>1, KeptBySync DEF Moved
<1>5. CASE Lock
  <2>1. app' = [app EXCEPT !.unlocked = FALSE]
    BY <1>5 DEF Lock
  <2>2. app' \in Apps
    BY <1>1, <2>1 DEF Apps
  <2>3. (Next /\ kit' = Torn(kit)) \/ UNCHANGED <<status, dir, kit>>
    BY <1>5 DEF Lock, Next
  <2> QED BY <1>1, <2>2, <2>3, KeptBySync DEF Moved
<1> QED BY <1>2, <1>3, <1>4, <1>5

\* The button of the speaker, and the route that the system's screen changes.
LEMMA ToggleFacts ==
    ASSUME WellKept(kit), ToggleSpeaker
    PROVE  LET l == SetRoute(kit, ~kit.speaker) IN
           Moves(l, kit', {"speaker"}) /\ kit'.speaker = ~kit.speaker
<1> DEFINE l == SetRoute(kit, ~kit.speaker)
           b == ~kit.speaker
<1>1. b \in BOOLEAN
  BY DEF WellKept, Kits
<1>2. WellKept(l)
  BY <1>1, SetRouteFacts
<1>3. kit' = [l EXCEPT !.speaker = b]
  BY DEF ToggleSpeaker
<1> HIDE DEF l, b
<1>4. Moves(l, kit', {"speaker"}) /\ kit'.speaker = b
  BY <1>1, <1>2, <1>3, SpeakerMoves
<1> QED BY <1>4 DEF l, b

LEMMA TypesOfRest ==
    ASSUME Types, ToggleSpeaker \/ SystemSpeaker \/ Mount \/ Unlock
    PROVE  Moved
<1>1. WellKept(kit) /\ app \in Apps /\ kit \in Kits
  BY DEF Types, WellKept
<1>2. CASE ToggleSpeaker
  <2>1. WellKept(kit')
    BY <1>1, <1>2, ToggleFacts DEF Moves
  <2>2. app' \in Apps
    BY <1>1, <1>2, CallKitConstants DEF ToggleSpeaker, Apps
  <2> QED BY <1>2, <2>1, <2>2 DEF ToggleSpeaker, Moved
<1>3. CASE SystemSpeaker
  <2>1. (~kit.route) \in BOOLEAN
    BY <1>1 DEF Kits
  <2>2. WellKept(kit')
    BY <1>1, <1>3, <2>1, SetRouteFacts DEF SystemSpeaker
  <2>3. app' \in Apps
    BY <1>1, <1>3, CallKitConstants DEF SystemSpeaker, Apps
  <2> QED BY <1>3, <2>2, <2>3 DEF SystemSpeaker, Moved
<1>4. CASE Mount
  <2> DEFINE T == kit.timers \cup PendingUuids(kit)
  <2>1. T \in SUBSET Uuids
    BY <1>1, SetShape DEF Kits
  <2>2. kit' = [kit EXCEPT !.timers = T]
    BY <1>1, <1>4 DEF Mount, Kits
  <2> HIDE DEF T
  <2>3. WellKept(kit')
    BY <1>1, <2>1, <2>2, TimersMove DEF Moves
  <2>4. app' \in Apps
    BY <1>1, <1>4 DEF Mount, Apps
  <2> QED BY <1>4, <2>3, <2>4 DEF Mount, Moved
<1>5. CASE Unlock
  <2> DEFINE T == kit.timers \cup PendingUuids(kit)
  <2>1. T \in SUBSET Uuids
    BY <1>1, SetShape DEF Kits
  <2>2. kit' = kit \/ kit' = [kit EXCEPT !.wired = TRUE, !.timers = T]
    BY <1>1, <1>5 DEF Unlock, Kits
  <2> HIDE DEF T
  <2>3. WellKept(kit')
    BY <1>1, <2>1, <2>2, WiredMoves DEF Moves
  <2>4. app' \in Apps
    BY <1>1, <1>5 DEF Unlock, Apps
  <2> QED BY <1>5, <2>3, <2>4 DEF Unlock, Moved
<1> QED BY <1>2, <1>3, <1>4, <1>5

\* What the events do.
LEMMA TypesOfEvents ==
    ASSUME Types, Deliver
    PROVE  Moved
<1>1. WellKept(kit) /\ app \in Apps /\ app' = app /\ kit.events # << >>
  BY DEF Types, Deliver, OnAnswer, OnEnd, OnVoipPush, OnSpeakerRoute, IsNext
<1> DEFINE d == Delivered
           u == Head(kit.events).u
<1>2. Moves(kit, d, {"events"}) /\ Head(kit.events) \in Events
  BY <1>1, DeliveredFacts
<1>3. WellKept(d) /\ d \in Kits
  BY <1>2 DEF Moves, WellKept
<1>4. d.timers \subseteq Uuids
  BY <1>3 DEF Kits
<1> HIDE DEF d, u
<1>5. CASE OnAnswer
  <2>1. Next \/ UNCHANGED <<status, dir>>
    BY <1>5 DEF OnAnswer, Next
  <2>2. kit' = d \/ kit' = [d EXCEPT !.byKit = TRUE]
    BY <1>5 DEF OnAnswer, d, u
  <2>3. WellKept(kit')
    BY <1>3, <2>2, ByKitMoves DEF Moves
  <2> QED BY <1>1, <2>1, <2>3 DEF Moved
<1>6. CASE OnEnd
  <2> DEFINE T == d.timers \ {u}
             g == [d EXCEPT !.timers = T]
             e == [g EXCEPT !.ended = TRUE]
  <2>1. (Next /\ kit' = Torn(e)) \/ ((kit' = e \/ kit' = g) /\ UNCHANGED <<status, dir>>)
    <3>1. g = [d EXCEPT !.timers = @ \ {u}]
      BY <1>3 DEF Kits
    <3> HIDE DEF g
    <3> QED BY <1>6, <3>1 DEF OnEnd, Next, d, u
  <2>2. WellKept(g)
    <3>1. T \in SUBSET Uuids
      BY <1>4
    <3> HIDE DEF T
    <3> QED BY <1>3, <3>1, TimersMove DEF Moves
  <2> HIDE DEF g
  <2>3. WellKept(e)
    BY <2>2, EndedMoves DEF Moves
  <2> HIDE DEF e
  <2> QED BY <1>1, <2>1, <2>2, <2>3, KeptBySync DEF Moved
<1>7. CASE OnVoipPush
  <2> DEFINE T == d.timers \cup ({u} \cap PendingUuids(kit))
  <2>1. kit' = [d EXCEPT !.timers = T] /\ UNCHANGED <<status, dir>>
    <3>1. kit' = [d EXCEPT !.timers = @ \cup ({u} \cap PendingUuids(kit))] /\ UNCHANGED <<status, dir>>
      BY <1>7 DEF OnVoipPush, d, u
    <3> QED BY <1>3, <3>1 DEF Kits
  <2>2. T \in SUBSET Uuids
    BY <1>1, <1>4, SetShape DEF WellKept
  <2> HIDE DEF T
  <2>3. WellKept(kit')
    BY <1>3, <2>1, <2>2, TimersMove DEF Moves
  <2> QED BY <1>1, <2>1, <2>3 DEF Moved
<1>8. CASE OnSpeakerRoute
  <2> DEFINE on == Head(kit.events).on
             r == SetRoute(d, on)
  <2>1. on \in BOOLEAN
    BY <1>2, <1>8 DEF OnSpeakerRoute, IsNext, Events
  <2>2. (kit' = d \/ kit' = [r EXCEPT !.speaker = on]) /\ UNCHANGED <<status, dir>>
    BY <1>8 DEF OnSpeakerRoute, d
  <2> HIDE DEF on
  <2>3. WellKept(r)
    BY <1>3, <2>1, SetRouteFacts
  <2> HIDE DEF r
  <2>4. WellKept(kit')
    BY <1>3, <2>1, <2>2, <2>3, SpeakerMoves DEF Moves
  <2> QED BY <1>1, <2>2, <2>4 DEF Moved
<1> QED BY <1>5, <1>6, <1>7, <1>8 DEF Deliver

LEMMA TypesInit == KitInit => Types
<1> SUFFICES ASSUME KitInit PROVE Types
  OBVIOUS
<1>1. kit \in Kits /\ kit.pending = << >> /\ kit.unclaimed = {}
  <2>1. [u \in Uuids |-> "none"] \in [Uuids -> {"none", "ringing", "dialing", "live", "over"}]
    OBVIOUS
  <2>2. << >> \in Seq(Uuids) /\ << >> \in Seq(Events)
    OBVIOUS
  <2> QED BY <2>1, <2>2 DEF KitInit, Kits
<1>2. WellKept(kit)
  <2>1. PendingUuids(kit) = {} /\ Distinct(kit.pending)
    BY <1>1 DEF PendingUuids, Distinct
  <2> QED BY <1>1, <2>1 DEF WellKept
<1>3. app \in Apps
  <2>1. 0 \in 0..MaxToggles
    BY CallKitConstants
  <2>2. app \in [ mounted : {FALSE}, unlocked : {FALSE}, mic : {"ask"}, prompt : {FALSE}, toggles : {0} ]
    BY DEF KitInit
  <2> QED BY <2>1, <2>2 DEF Apps
<1> QED BY <1>2, <1>3 DEF KitInit, Init, Types, Statuses

LEMMA TypesStep == Types /\ [KitNext]_vars => Types'
<1> SUFFICES ASSUME Types, [KitNext]_vars PROVE Types'
  OBVIOUS
<1>1. Moved => Types'
  BY LifeTypes DEF Types, Moved, WellKept
<1>2. CASE UNCHANGED vars
  <2>1. kit' = kit /\ app' = app /\ UNCHANGED <<status, dir>>
    BY <1>2 DEF vars
  <2>2. Moved
    BY <2>1 DEF Types, Moved
  <2> QED BY <1>1, <2>2
<1>3. CASE \E u \in Uuids \cup {None} :
             CallRings(u) \/ TapCall(u) \/ MicAnswered(u) \/ CallsCross(u) \/ UuidKnown(u)
  BY <1>1, <1>3, TypesOfCalls
<1>4. CASE \E u \in Uuids : ClaimTimeout(u) \/ Push(u) \/ SystemAnswers(u) \/ SystemEnds(u)
  BY <1>1, <1>4, TypesOfSystem
<1>5. CASE CallProgresses \/ Answer \/ CallEnds \/ Lock
  BY <1>1, <1>5, TypesOfScreen
<1>6. CASE ToggleSpeaker \/ SystemSpeaker \/ Mount \/ Unlock
  BY <1>1, <1>6, TypesOfRest
<1>7. CASE Deliver
  BY <1>1, <1>7, TypesOfEvents
<1> QED BY <1>2, <1>3, <1>4, <1>5, <1>6, <1>7 DEF KitNext

\* As many calls wait as the list is long.
LEMMA DistinctCounts ==
    ASSUME NEW S, NEW s \in Seq(S), Distinct(s)
    PROVE  Cardinality(Elems(s)) = Len(s)
<1> DEFINE f == [i \in 1..Len(s) |-> s[i]]
<1>1. Len(s) \in Nat
  OBVIOUS
<1>2. f \in Bijection(1..Len(s), Elems(s))
  BY DEF Distinct, Elems, Bijection, Injection, Surjection, IsInjective
<1> QED BY <1>1, <1>2, FS_CountingElements DEF ExistsBijection

LEMMA TypesOK == Types => TypeOK
<1> SUFFICES ASSUME Types PROVE TypeOK
  OBVIOUS
<1>1. kit \in Kits /\ Distinct(kit.pending) /\ kit.pending \in Seq(Uuids)
  BY DEF Types, WellKept, Kits
<1>2. Cardinality(PendingUuids(kit)) = Len(kit.pending)
  <2>1. Cardinality(Elems(kit.pending)) = Len(kit.pending)
    BY <1>1, DistinctCounts
  <2> QED BY <1>1, <2>1, SetShape
<1> QED BY <1>1, <1>2 DEF Types, WellKept, TypeOK

\* The native calls and the mirror keep their states, and every call waits once, in
\* every window (CallCenter.pending, unclaimedAnswers; callkit.ts).
THEOREM TypeCorrect == KitSpec => []TypeOK
<1>1. KitSpec => []Types
  BY TypesInit, TypesStep, PTL DEF KitSpec
<1> QED BY <1>1, TypesOK, PTL

-----------------------------------------------------------------------------
(* The mirror, where an uuid is known before its call moves on and the loser of a glare *)
(* has no native call.                                                      *)

\* One event may have joined the queue.
LEMMA TellFacts ==
    ASSUME NEW k \in Kits, NEW e \in Events, e.t # "route", NEW l,
           l.events = IF k.wired THEN Append(k.events, e) ELSE k.events
    PROVE  /\ \A t : /\ Told(k, t) \subseteq Told(l, t)
                     /\ \A u \in Told(l, t) : u \in Told(k, t) \/ (e.t = t /\ e.u = u)
           /\ k.wired => e.u \in Told(l, e.t)
<1>1. CASE k.wired
  BY <1>1, ToldAppend
<1>2. CASE ~k.wired
  BY <1>2 DEF Told
<1> QED BY <1>1, <1>2

LEMMA NativeStates ==
    ASSUME NEW k \in Kits
    PROVE  /\ k.native \in [Uuids -> {"none", "ringing", "dialing", "live", "over"}]
           /\ \A u \in Uuids : u \in Live(k) <=> k.native[u] \in {"ringing", "dialing", "live"}
           /\ Reported(k) \subseteq Uuids /\ Current(k) \subseteq Uuids
           /\ PendingUuids(k) \subseteq Uuids /\ Live(k) \subseteq Uuids
           /\ \A t : Told(k, t) \subseteq Uuids
           /\ \A u \in Uuids : u \in Current(k) <=> u = k.uuid
BY SetShape DEF Kits, Live, Shown, Reported, Current, Told

LEMMA AcceptedMirror ==
    ASSUME NEW k, WellKept(k), Held(k), Linked(k), Reported(k) = {},
           \A u \in Current(k) : k.native[u] = "ringing" => ~k.byKit
    PROVE  LET l == SyncAccepted(k) IN Held(l) /\ Linked(l) /\ Rings(l, "connecting")
<1> DEFINE l == SyncAccepted(k)
           rings == k.uuid # None /\ ~k.byKit /\ k.native[k.uuid] = "ringing"
<1>1. k \in Kits
  BY DEF WellKept
<1>2. /\ Accepts(k, l)
      /\ rings => /\ l.native = [k.native EXCEPT ![k.uuid] = "live"]
                  /\ l.events = IF k.wired THEN Append(k.events, AnswerEvent(k.uuid)) ELSE k.events
      /\ ~rings => l = k
  BY AcceptedFacts
<1>3. CASE ~rings
  <2>1. \A u \in Current(k) : k.native[u] # "ringing"
    BY <1>3 DEF Current
  <2>2. Rings(k, "connecting")
    BY <2>1 DEF Rings
  <2> QED BY <1>2, <1>3, <2>2
<1>4. CASE rings
  <2>1. k.uuid \in Uuids /\ k.uuid \in Current(k) /\ k.native[k.uuid] = "ringing"
    BY <1>1, <1>4 DEF Kits, Current
  <2> DEFINE x == k.uuid
  <2>2. /\ PendingUuids(l) = PendingUuids(k) /\ Live(l) = Live(k) /\ l.unclaimed = k.unclaimed
        /\ l.uuid = k.uuid /\ l.waits = k.waits /\ l.timers = k.timers /\ l.byKit = k.byKit /\ l.wired = k.wired
        /\ Reported(l) = {} /\ Current(l) = Current(k)
    BY <1>2 DEF Accepts, SameButEvents, Reported, Current
  <2>3. l.native[x] = "live" /\ \A u \in Uuids : u # x => l.native[u] = k.native[u]
    BY <1>1, <1>2, <1>4, <2>1, NativeStates
  <2>4. AnswerEvent(x) \in Events /\ AnswerEvent(x).t = "answer" /\ AnswerEvent(x).u = x
    BY <2>1 DEF AnswerEvent, Events
  <2>5. l.events = IF k.wired THEN Append(k.events, AnswerEvent(x)) ELSE k.events
    BY <1>2, <1>4
  <2> HIDE DEF l
  <2>6. Told(l, "end") = Told(k, "end") /\ Told(l, "answer") \subseteq Told(k, "answer") \cup {x}
    <3> DEFINE e == AnswerEvent(x)
    <3>1. e \in Events /\ e.t # "route" /\ l.events = IF k.wired THEN Append(k.events, e) ELSE k.events
      BY <2>4, <2>5
    <3>2. e.t = "answer" /\ e.u = x
      BY <2>4
    <3> HIDE DEF e, x
    <3>3. \A t : /\ Told(k, t) \subseteq Told(l, t)
                 /\ \A u \in Told(l, t) : u \in Told(k, t) \/ (e.t = t /\ e.u = u)
      BY <1>1, <3>1, TellFacts
    <3> QED BY <3>2, <3>3
  <2>7. Held(l)
    BY <1>1, <2>1, <2>2, <2>3, <2>6, NativeStates DEF Held
  <2>8. Linked(l)
    BY <2>2, <2>6 DEF Linked
  <2>9. Rings(l, "connecting")
    BY <2>2, <2>3 DEF Rings, Current
  <2> QED BY <2>7, <2>8, <2>9 DEF l
<1> QED BY <1>3, <1>4

LEMMA ActiveMirror ==
    ASSUME NEW k, WellKept(k), Held(k), Linked(k), Reported(k) = {}, NEW s, s # "incoming-ringing", Rings(k, s)
    PROVE  LET l == SyncActive(k) IN Held(l) /\ Linked(l) /\ Rings(l, "active")
<1> DEFINE l == SyncActive(k)
           dials == k.uuid # None /\ k.native[k.uuid] = "dialing"
<1>1. k \in Kits
  BY DEF WellKept
<1>2. /\ Accepts(k, l) /\ l.events = k.events
      /\ dials => l.native = [k.native EXCEPT ![k.uuid] = "live"]
      /\ ~dials => l = k
  BY ActiveFacts
<1>3. CASE ~dials
  <2>1. Rings(k, "active")
    BY DEF Rings
  <2> QED BY <1>2, <1>3, <2>1
<1>4. CASE dials
  <2> DEFINE x == k.uuid
  <2>1. x \in Uuids /\ x \in Current(k) /\ k.native[x] = "dialing"
    BY <1>1, <1>4 DEF Kits, Current
  <2>2. /\ PendingUuids(l) = PendingUuids(k) /\ Live(l) = Live(k) /\ l.unclaimed = k.unclaimed
        /\ l.uuid = k.uuid /\ l.waits = k.waits /\ l.timers = k.timers /\ l.byKit = k.byKit
        /\ Reported(l) = {} /\ Current(l) = Current(k)
    BY <1>2 DEF Accepts, SameButEvents, Reported, Current
  <2>3. l.native[x] = "live" /\ \A u \in Uuids : u # x => l.native[u] = k.native[u]
    BY <1>1, <1>2, <1>4, <2>1, NativeStates
  <2>4. \A t : Told(l, t) = Told(k, t)
    BY <1>2 DEF Told
  <2> HIDE DEF l
  <2>5. Held(l)
    BY <1>1, <2>1, <2>2, <2>3, <2>4, NativeStates DEF Held
  <2>6. Linked(l)
    BY <2>2, <2>4 DEF Linked
  <2>7. Rings(l, "active")
    BY <2>2, <2>3 DEF Rings, Current
  <2> QED BY <2>5, <2>6, <2>7 DEF l
<1> QED BY <1>3, <1>4

LEMMA TornMirror ==
    ASSUME NEW k, WellKept(k), Held(k), k.waits = {}, k.ended => k.uuid \notin Live(k)
    PROVE  LET l == Torn(k) IN Idle(l) /\ ~l.ended
<1> DEFINE r == SetRoute(k, FALSE)
           l == SyncEnded(r)
<1>1. k \in Kits
  BY DEF WellKept
<1>2. /\ WellKept(r) /\ PendingUuids(r) = PendingUuids(k) /\ Live(r) = Live(k)
      /\ r = [k EXCEPT !.route = FALSE, !.events = r.events]
  BY SetRouteFacts
<1>3. Held(r)
  BY RouteMirror
<1> HIDE DEF r
<1>4. r.waits = {} /\ r.uuid = k.uuid /\ r.ended = k.ended
  BY <1>1, <1>2 DEF Kits
<1> DEFINE ends == r.uuid # None /\ ~r.ended
           x == r.uuid
<1>5. /\ WellKept(l) /\ l.uuid = None /\ ~l.ended
      /\ l.events = r.events /\ l.byKit = r.byKit /\ l.timers = r.timers /\ l.waits = r.waits
      /\ ends => /\ x \in Uuids
                 /\ Live(l) = Live(r) \ {x} /\ PendingUuids(l) = PendingUuids(r) \ {x}
                 /\ l.native = IF x \in Live(r) THEN [r.native EXCEPT ![x] = "over"] ELSE r.native
                 /\ l.unclaimed = r.unclaimed \ {x}
      /\ ~ends => /\ Live(l) = Live(r) /\ PendingUuids(l) = PendingUuids(r)
                  /\ l.native = r.native /\ l.unclaimed = r.unclaimed
  BY <1>2, SyncEndedFacts
<1> HIDE DEF l
<1>6. /\ \A t : Told(l, t) = Told(r, t)
      /\ Reported(l) = {} /\ Current(l) = {} /\ Reported(r) = {} /\ Current(r) = {x} \ {None}
      /\ r \in Kits /\ l \in Kits
  BY <1>2, <1>4, <1>5 DEF Told, Reported, Current, WellKept
<1>7. CASE ends
  <2>1. x \notin PendingUuids(r) /\ x \in Uuids /\ x # None
    BY <1>3, <1>5, <1>6, <1>7, SetShape DEF Held
  <2>2. \A u \in Uuids : IF u = x THEN l.native[u] \notin {"ringing", "dialing", "live"}
                                  ELSE l.native[u] = r.native[u]
    BY <1>5, <1>6, <1>7, <2>1, NativeStates
  <2>3. l.native[x] = "over" \/ l.native[x] = r.native[x]
    BY <1>5, <1>6, <1>7, <2>1, NativeStates
  <2>4. /\ PendingUuids(l) = PendingUuids(r) /\ Live(l) = Live(r) \ {x}
        /\ \A u \in PendingUuids(r) : u \in l.unclaimed <=> u \in r.unclaimed
    BY <1>5, <1>7, <2>1
  <2>5. Live(l) \subseteq PendingUuids(l)
    BY <1>3, <1>6, <2>4 DEF Held
  <2> HIDE DEF x
  <2>6. Held(l)
    BY <1>3, <1>4, <1>5, <1>6, <2>1, <2>2, <2>3, <2>4, <2>5, NativeStates DEF Held
  <2> QED BY <1>4, <1>5, <2>6 DEF Idle, Torn, l, r
<1>8. CASE ~ends
  <2>1. Live(l) \subseteq PendingUuids(l)
    <3>1. x = None \/ x \notin Live(r)
      BY <1>2, <1>4, <1>8
    <3> QED BY <1>3, <1>5, <1>6, <1>8, <3>1 DEF Held
  <2>2. Held(l)
    BY <1>3, <1>4, <1>5, <1>6, <1>8, <2>1 DEF Held
  <2> QED BY <1>4, <1>5, <2>2 DEF Idle, Torn, l, r
<1> QED BY <1>7, <1>8

\* A call comes to the mirror: the claim of a waiting one or the report of a new one.
LEMMA IncomingMirror ==
    ASSUME NEW k, WellKept(k), Idle(k), NEW u \in Uuids \cup {None}, NewCallUuid(k, u)
    PROVE  LET l == SyncIncoming(k, u) IN
           /\ WellKept(l) /\ Held(l) /\ Linked(l) /\ ~l.ended /\ l.waits \subseteq {u}
           /\ Rings(l, IF AnsweredEarly(k) THEN "connecting" ELSE "incoming-ringing")
<1> DEFINE n == NewCall(k)
           l == SyncIncoming(k, u)
<1>1. Idle(n) /\ NewFacts(k, n) /\ WellKept(n) /\ k \in Kits
  BY NewIdle DEF NewFacts, WellKept
<1>2. NewCallUuid(n, u)
  BY <1>1, SameUuids
<1> HIDE DEF n
<1>3. n.pending = k.pending /\ n.unclaimed = k.unclaimed /\ ~n.byKit /\ ~n.ended /\ n \in Kits
  BY <1>1 DEF NewFacts, WellKept, Kits
<1>4. WellKept(l)
  BY KeptBySync
<1>5. CASE k.pending = << >>
  <2>1. l = Report(n, "ringing", u)
    BY <1>5 DEF SyncIncoming, n
  <2> HIDE DEF l
  <2>2. Held(l) /\ Linked(l) /\ Rings(l, "incoming-ringing")
    BY <1>1, <1>2, <1>3, <2>1, ReportMirror DEF NewCallUuid
  <2>3. Reports(n, l, "ringing", u)
    BY <1>1, <1>2, <2>1, ReportFacts DEF NewCallUuid
  <2>4. l.waits = n.waits \cup {u} /\ l.ended = n.ended /\ n.waits = {}
    BY <1>1, <1>3, <2>3 DEF Reports, Kits, Idle
  <2>5. ~AnsweredEarly(k)
    BY <1>5 DEF AnsweredEarly
  <2> QED BY <1>3, <1>4, <2>2, <2>4, <2>5 DEF l
<1>6. CASE k.pending # << >>
  <2>1. l = Claim(n)
    BY <1>6 DEF SyncIncoming, n
  <2> HIDE DEF l
  <2>2. /\ Held(l) /\ Linked(l) /\ l.waits = {} /\ l.uuid # None
        /\ IF Head(n.pending) \in n.unclaimed THEN l.native[l.uuid] = "live" /\ l.byKit
                                              ELSE l.native[l.uuid] = "ringing" /\ ~l.byKit
    BY <1>1, <1>3, <1>6, <2>1, ClaimMirror
  <2> DEFINE p == Head(n.pending)
  <2>3. l = [n EXCEPT !.pending = l.pending, !.unclaimed = n.unclaimed \ {p},
                      !.timers = n.timers \ {p}, !.uuid = p, !.byKit = (p \in n.unclaimed)]
    BY <1>1, <1>3, <1>6, <2>1, ClaimFacts
  <2> HIDE DEF p
  <2>4. l.ended = n.ended
    BY <1>3, <2>3 DEF Kits
  <2>5. AnsweredEarly(k) <=> Head(n.pending) \in n.unclaimed
    BY <1>3, <1>6 DEF AnsweredEarly
  <2>6. Reported(l) = {} /\ Current(l) = {l.uuid}
    BY <2>2 DEF Reported, Current
  <2>7. Rings(l, IF AnsweredEarly(k) THEN "connecting" ELSE "incoming-ringing")
    BY <2>2, <2>5, <2>6 DEF Rings
  <2> QED BY <1>3, <1>4, <2>2, <2>4, <2>7 DEF l
<1> QED BY <1>5, <1>6

LEMMA StartingMirror ==
    ASSUME NEW k, WellKept(k), Idle(k), NEW u \in Uuids \cup {None}, NewCallUuid(k, u)
    PROVE  LET l == SyncStarting(k, u) IN Held(l) /\ Linked(l) /\ Rings(l, "starting") /\ ~l.ended
<1> DEFINE n == NewCall(k)
           l == SyncStarting(k, u)
<1>1. Idle(n) /\ NewFacts(k, n) /\ WellKept(n) /\ k \in Kits
  BY NewIdle DEF NewFacts, WellKept
<1>2. NewCallUuid(n, u)
  BY <1>1, SameUuids
<1> HIDE DEF n
<1>3. ~n.byKit /\ ~n.ended /\ n \in Kits
  BY <1>1 DEF NewFacts, WellKept, Kits
<1>4. l = Report(n, "dialing", u)
  BY DEF SyncStarting, n
<1> HIDE DEF l
<1>5. Held(l) /\ Linked(l) /\ Rings(l, "starting")
  BY <1>1, <1>2, <1>3, <1>4, ReportMirror DEF NewCallUuid
<1>6. Reports(n, l, "dialing", u)
  BY <1>1, <1>2, <1>4, ReportFacts DEF NewCallUuid
<1>7. l.ended = n.ended
  BY <1>3, <1>6 DEF Reports, Kits
<1> QED BY <1>3, <1>5, <1>7 DEF l

-----------------------------------------------------------------------------
(* The steps of the mirror.                                                *)

Calm == "late" \notin Windows /\ "glare" \notin Windows

Mirror == Calm /\ Types /\ WiredInv /\ MirrorInv

\* A controller at rest has no call in the mirror.
LEMMA RestIsIdle ==
    ASSUME Mirror
    PROVE  /\ WellKept(kit) /\ kit \in Kits /\ Held(kit) /\ Linked(kit) /\ Rings(kit, status) /\ ~kit.ended
           /\ Prompt => kit.waits = {} /\ Reported(kit) = {}
           /\ Ready => Idle(kit)
BY DEF Mirror, Calm, Types, WellKept, MirrorInv, Prompt, Ready, Idle, Reported

\* Whatever the status, a mirror without a call is in order.
LEMMA IdleStep ==
    ASSUME Idle(kit'), ~kit'.ended
    PROVE  MirrorInv'
BY IdleMirror DEF MirrorInv, Idle

LEMMA StartsMirror ==
    ASSUME Mirror, Ready, NEW u \in Uuids \cup {None}, Starts(u)
    PROVE  MirrorInv'
<1>1. NewCallUuid(kit, u) /\ kit' = SyncStarting(kit, u) /\ Place
  BY DEF Starts, NewCallUuid
<1>2. Held(kit') /\ Linked(kit') /\ Rings(kit', "starting") /\ ~kit'.ended
  BY <1>1, RestIsIdle, StartingMirror
<1>3. status' = "starting"
  BY <1>1 DEF Place, Shows
<1> QED BY <1>2, <1>3 DEF MirrorInv, Talking, AtRest

LEMMA CallsMirror ==
    ASSUME Mirror, NEW u \in Uuids \cup {None},
           CallRings(u) \/ TapCall(u) \/ MicAnswered(u) \/ CallsCross(u) \/ UuidKnown(u)
    PROVE  MirrorInv'
<1>1. /\ WellKept(kit) /\ kit \in Kits /\ Held(kit) /\ Linked(kit) /\ Rings(kit, status) /\ ~kit.ended
      /\ Prompt => kit.waits = {} /\ Reported(kit) = {}
      /\ Ready => Idle(kit)
  BY RestIsIdle
<1>2. CASE UNCHANGED <<status, dir, kit>>
  BY <1>2 DEF Mirror, MirrorInv, Held, Linked, Rings, Talking, Told, Live, PendingUuids, Reported, Current
<1>3. CASE CallRings(u)
  <2>1. /\ NewCallUuid(kit, u) /\ kit' = SyncIncoming(kit, u) /\ Ready
        /\ status' = IF AnsweredEarly(kit) THEN "connecting" ELSE "incoming-ringing"
    BY <1>3 DEF CallRings, NewCallUuid, Ring, RingAnswered, Shows
  <2>2. /\ Held(kit') /\ Linked(kit') /\ ~kit'.ended
        /\ Rings(kit', IF AnsweredEarly(kit) THEN "connecting" ELSE "incoming-ringing")
    BY <1>1, <2>1, IncomingMirror
  <2>3. Talking'
    BY <2>1 DEF Talking, AtRest
  <2> QED BY <2>1, <2>2, <2>3 DEF MirrorInv
<1>4. CASE TapCall(u)
  BY <1>2, <1>4, StartsMirror DEF TapCall
<1>5. CASE MicAnswered(u)
  BY <1>2, <1>5, StartsMirror DEF MicAnswered
<1>6. CASE CallsCross(u)
  <2> DEFINE i == SyncIncoming(kit, u)
  <2>1. /\ Prompt /\ kit.uuid = None /\ u = None /\ kit' = SyncAccepted(i) /\ status' = "connecting"
        /\ NewCallUuid(kit, u)
    BY <1>6 DEF CallsCross, Mirror, Calm, Crossed, Shows, NewCallUuid
  <2>2. Idle(kit)
    BY <1>1, <2>1 DEF Idle
  <2>3. /\ WellKept(i) /\ Held(i) /\ Linked(i) /\ ~i.ended /\ i.waits \subseteq {None}
        /\ \E s : Rings(i, s)
    BY <1>1, <2>1, <2>2, IncomingMirror
  <2> HIDE DEF i
  <2>4. Reported(i) = {} /\ \A v \in Current(i) : i.native[v] = "ringing" => ~i.byKit
    BY <2>3 DEF Reported, Rings
  <2>5. Held(kit') /\ Linked(kit') /\ Rings(kit', "connecting")
    BY <2>1, <2>3, <2>4, AcceptedMirror
  <2>6. ~kit'.ended
    BY <2>1, <2>3, AcceptedFacts DEF Accepts, SameButEvents
  <2>7. Talking'
    BY <2>1 DEF Talking, AtRest
  <2> QED BY <2>1, <2>5, <2>6, <2>7 DEF MirrorInv
<1>7. CASE UuidKnown(u)
  <2>1. u \in kit.waits /\ kit' = [kit EXCEPT !.waits = @ \ {u}, !.uuid = u] /\ status' = status
    BY <1>7 DEF UuidKnown
  <2>2. Moves(kit, kit', {"waits", "uuid"}) /\ kit'.uuid = u /\ kit'.waits = kit.waits \ {u}
    <3>1. WellKept(kit) /\ kit' = [kit EXCEPT !.waits = @ \ {u}, !.uuid = u]
      BY <1>1, <2>1
    <3> QED BY <3>1, UuidMoves, ZenonT(30)
  <2>3. /\ PendingUuids(kit') = PendingUuids(kit) /\ Live(kit') = Live(kit)
        /\ kit'.native = kit.native /\ kit'.unclaimed = kit.unclaimed /\ kit'.timers = kit.timers
        /\ kit'.byKit = kit.byKit /\ kit'.ended = kit.ended /\ \A t : Told(kit', t) = Told(kit, t)
    BY <2>2 DEF Moves, Only, AllFields, Told
  <2>4. /\ kit.uuid = None /\ ~kit.byKit /\ kit.waits = {u} /\ kit'.waits = {} /\ Talking
    BY <1>1, <2>1, <2>2 DEF Held, Mirror, MirrorInv
  <2>5. Reported(kit') = {} /\ Current(kit') = Reported(kit) /\ Current(kit) = {} /\ Reported(kit) \subseteq Live(kit)
    BY <1>1, <2>2, <2>4 DEF Held, Reported, Current
  <2>6. Held(kit')
    BY <1>1, <2>3, <2>4, <2>5 DEF Held
  <2>7. Linked(kit')
    BY <2>3, <2>5 DEF Linked
  <2>8. Rings(kit', status')
    BY <1>1, <2>1, <2>3, <2>4, <2>5 DEF Rings
  <2>9. Talking'
    BY <2>1, <2>4 DEF Talking, AtRest
  <2> QED BY <1>1, <2>3, <2>6, <2>7, <2>8, <2>9 DEF MirrorInv
<1> QED BY <1>3, <1>4, <1>5, <1>6, <1>7

LEMMA TimeoutMirror ==
    ASSUME Mirror, NEW u \in Uuids, ClaimTimeout(u)
    PROVE  MirrorInv'
<1>1. WellKept(kit) /\ kit \in Kits /\ Held(kit) /\ Linked(kit) /\ Rings(kit, status) /\ ~kit.ended
  BY RestIsIdle
<1>2. u \in kit.timers /\ status' = status
  BY DEF ClaimTimeout
<1> DEFINE k == ReportEnded(kit, u)
<1>3. /\ WellKept(k) /\ Live(k) = Live(kit) \ {u} /\ PendingUuids(k) = PendingUuids(kit) \ {u}
      /\ k.native = IF u \in Live(kit) THEN [kit.native EXCEPT ![u] = "over"] ELSE kit.native
      /\ k.unclaimed = kit.unclaimed \ {u} /\ SameRest(kit, k)
  BY <1>1, EndedFacts
<1>4. Moves(k, kit', {"timers"}) /\ kit'.timers = kit.timers \ {u}
  BY <1>1, TimeoutFacts
<1> HIDE DEF k
<1>5. /\ Live(kit') = Live(kit) \ {u} /\ PendingUuids(kit') = PendingUuids(kit) \ {u}
      /\ kit'.native = IF u \in Live(kit) THEN [kit.native EXCEPT ![u] = "over"] ELSE kit.native
      /\ kit'.unclaimed = kit.unclaimed \ {u}
      /\ kit'.uuid = kit.uuid /\ kit'.waits = kit.waits /\ kit'.byKit = kit.byKit /\ kit'.ended = kit.ended
      /\ \A t : Told(kit', t) = Told(kit, t)
  BY <1>3, <1>4 DEF Moves, Only, AllFields, SameRest, SameButEvents, Told
<1>6. Reported(kit') = Reported(kit) /\ Current(kit') = Current(kit) /\ u \notin Reported(kit) \cup Current(kit)
  BY <1>1, <1>2, <1>5 DEF Reported, Current, Held
<1>7. /\ \A v \in Uuids : v # u => kit'.native[v] = kit.native[v]
      /\ kit'.native[u] = "over" \/ kit'.native[u] = kit.native[u]
  BY <1>1, <1>5, NativeStates
<1>8. Held(kit')
  BY <1>1, <1>4, <1>5, <1>6, <1>7, NativeStates DEF Held
<1>9. Linked(kit')
  BY <1>1, <1>5, <1>6 DEF Linked
<1>10. Rings(kit', status')
  BY <1>1, <1>2, <1>5, <1>6, <1>7, NativeStates DEF Rings
<1> QED BY <1>1, <1>2, <1>5, <1>8, <1>9, <1>10 DEF Mirror, MirrorInv, Talking

LEMMA PushMirror ==
    ASSUME Mirror, NEW u \in Uuids, Push(u)
    PROVE  MirrorInv'
<1>1. WellKept(kit) /\ kit \in Kits /\ Held(kit) /\ Linked(kit) /\ Rings(kit, status) /\ ~kit.ended
  BY RestIsIdle
<1>2. NewUuid(kit, u) /\ status' = status
      /\ kit' = Emit([kit EXCEPT !.native[u] = "ringing", !.pending = Append(@, u)], PushEvent(u))
  BY EventNames DEF Push
<1>3. Pushes(kit, kit', u)
  BY <1>1, <1>2, PushFacts
<1>4. /\ u \notin Live(kit) /\ u \notin kit.timers /\ u \notin kit.waits /\ u # kit.uuid
      /\ u \notin Told(kit, "end") /\ u \notin Told(kit, "answer") /\ u \notin PendingUuids(kit)
      /\ u \notin kit.unclaimed
  BY <1>1, <1>2, NewUuidFacts DEF WellKept
<1>5. PushEvent(u) \in Events /\ PushEvent(u).t = "push"
  BY DEF PushEvent, Events
<1>6. Told(kit', "end") = Told(kit, "end") /\ Told(kit', "answer") = Told(kit, "answer")
  <2> DEFINE e == PushEvent(u)
  <2>1. e \in Events /\ e.t # "route" /\ e.t = "push" /\ kit'.events = IF kit.wired THEN Append(kit.events, e) ELSE kit.events
    BY <1>3, <1>5 DEF Pushes
  <2> HIDE DEF e
  <2>2. \A t : /\ Told(kit, t) \subseteq Told(kit', t)
               /\ \A v \in Told(kit', t) : v \in Told(kit, t) \/ (e.t = t /\ e.u = v)
    BY <1>1, <2>1, TellFacts
  <2>3. Told(kit, "end") \subseteq Told(kit', "end") /\ Told(kit, "answer") \subseteq Told(kit', "answer")
    BY <2>2
  <2>4. \A v \in Told(kit', "end") : v \in Told(kit, "end")
    BY <2>1, <2>2
  <2>5. \A v \in Told(kit', "answer") : v \in Told(kit, "answer")
    BY <2>1, <2>2
  <2> QED BY <2>3, <2>4, <2>5
<1>7. /\ Live(kit') = Live(kit) \cup {u} /\ PendingUuids(kit') = PendingUuids(kit) \cup {u}
      /\ kit'.unclaimed = kit.unclaimed /\ kit'.timers = kit.timers
      /\ kit'.uuid = kit.uuid /\ kit'.waits = kit.waits /\ kit'.byKit = kit.byKit /\ kit'.ended = kit.ended
      /\ kit'.native = [kit.native EXCEPT ![u] = "ringing"]
  BY <1>3 DEF Pushes, SameButEvents
<1>8. /\ \A v \in Uuids : v # u => kit'.native[v] = kit.native[v]
      /\ kit'.native[u] = "ringing"
  BY <1>1, <1>7, NativeStates
<1>9. Reported(kit') = Reported(kit) /\ Current(kit') = Current(kit) /\ u \notin Reported(kit) \cup Current(kit)
  BY <1>4, <1>7 DEF Reported, Current
<1>10. Held(kit')
  BY <1>1, <1>4, <1>6, <1>7, <1>8, <1>9, NativeStates DEF Held
<1>11. Linked(kit')
  BY <1>1, <1>6, <1>7, <1>9 DEF Linked
<1>12. Rings(kit', status')
  BY <1>1, <1>2, <1>4, <1>6, <1>7, <1>8, <1>9, NativeStates DEF Rings
<1> QED BY <1>1, <1>2, <1>7, <1>10, <1>11, <1>12 DEF Mirror, MirrorInv, Talking

LEMMA SystemAnswersMirror ==
    ASSUME Mirror, NEW u \in Uuids, SystemAnswers(u)
    PROVE  MirrorInv'
<1>1. WellKept(kit) /\ kit \in Kits /\ Held(kit) /\ Linked(kit) /\ Rings(kit, status) /\ ~kit.ended
  BY RestIsIdle
<1>2. u \in Live(kit) /\ u \notin kit.waits /\ kit.native[u] = "ringing" /\ status' = status
  BY DEF SystemAnswers, OnScreen, Mirror, Calm
<1>3. Answers(kit, kit', u)
  BY <1>1, <1>2, EventNames, AnswerFacts
<1>4. AnswerEvent(u) \in Events /\ AnswerEvent(u).t = "answer" /\ AnswerEvent(u).u = u
  BY DEF AnswerEvent, Events
<1>5. /\ Told(kit', "end") = Told(kit, "end")
      /\ Told(kit, "answer") \subseteq Told(kit', "answer") /\ Told(kit', "answer") \subseteq Told(kit, "answer") \cup {u}
      /\ kit.wired => u \in Told(kit', "answer")
  <2> DEFINE e == AnswerEvent(u)
  <2>1. e \in Events /\ e.t # "route" /\ kit'.events = IF kit.wired THEN Append(kit.events, e) ELSE kit.events
    BY <1>3, <1>4 DEF Answers
  <2>2. e.t = "answer" /\ e.u = u
    BY <1>4
  <2> HIDE DEF e
  <2>3. /\ \A t : /\ Told(kit, t) \subseteq Told(kit', t)
                  /\ \A v \in Told(kit', t) : v \in Told(kit, t) \/ (e.t = t /\ e.u = v)
        /\ kit.wired => e.u \in Told(kit', e.t)
    BY <1>1, <2>1, TellFacts
  <2>4. Told(kit, "end") \subseteq Told(kit', "end") /\ Told(kit, "answer") \subseteq Told(kit', "answer")
    BY <2>3
  <2>5. \A v \in Told(kit', "end") : v \in Told(kit, "end")
    BY <2>2, <2>3
  <2>6. \A v \in Told(kit', "answer") : v \in Told(kit, "answer") \/ v = u
    BY <2>2, <2>3
  <2> QED BY <2>2, <2>3, <2>4, <2>5, <2>6
<1>6. /\ Live(kit') = Live(kit) /\ PendingUuids(kit') = PendingUuids(kit)
      /\ kit'.unclaimed = IF u \in PendingUuids(kit) THEN kit.unclaimed \cup {u} ELSE kit.unclaimed
      /\ kit'.timers = kit.timers
      /\ kit'.uuid = kit.uuid /\ kit'.waits = kit.waits /\ kit'.byKit = kit.byKit /\ kit'.ended = kit.ended
      /\ kit'.native = [kit.native EXCEPT ![u] = "live"]
  BY <1>3 DEF Answers, SameButEvents
<1>7. /\ \A v \in Uuids : v # u => kit'.native[v] = kit.native[v]
      /\ kit'.native[u] = "live"
  BY <1>1, <1>6, NativeStates
<1>8. Reported(kit') = Reported(kit) /\ Current(kit') = Current(kit) /\ u \notin Reported(kit)
  BY <1>2, <1>6 DEF Reported, Current
<1>9. Held(kit')
  BY <1>1, <1>2, <1>5, <1>6, <1>7, <1>8, NativeStates DEF Held
<1>10. Linked(kit')
  BY <1>1, <1>5, <1>6, <1>8 DEF Linked
<1>11. u \in Current(kit) => u \in Told(kit', "answer")
  BY <1>5 DEF Mirror, WiredInv, MirrorInv, Current
<1>12. Rings(kit', status')
  BY <1>1, <1>2, <1>5, <1>6, <1>7, <1>8, <1>11, NativeStates DEF Rings
<1> QED BY <1>1, <1>2, <1>6, <1>9, <1>10, <1>12 DEF Mirror, MirrorInv, Talking

LEMMA SystemEndsMirror ==
    ASSUME Mirror, NEW u \in Uuids, SystemEnds(u)
    PROVE  MirrorInv'
<1>1. WellKept(kit) /\ kit \in Kits /\ Held(kit) /\ Linked(kit) /\ Rings(kit, status) /\ ~kit.ended
  BY RestIsIdle
<1>2. u \in Live(kit) /\ u \notin kit.waits /\ status' = status
  BY DEF SystemEnds, OnScreen, Mirror, Calm
<1>3. Hangs(kit, kit', u)
  BY <1>1, <1>2, EventNames, HangFacts
<1>4. EndEvent(u) \in Events /\ EndEvent(u).t = "end" /\ EndEvent(u).u = u
  BY DEF EndEvent, Events
<1>5. /\ Told(kit', "answer") = Told(kit, "answer")
      /\ Told(kit, "end") \subseteq Told(kit', "end") /\ Told(kit', "end") \subseteq Told(kit, "end") \cup {u}
      /\ kit.wired => u \in Told(kit', "end")
  <2> DEFINE e == EndEvent(u)
  <2>1. e \in Events /\ e.t # "route" /\ kit'.events = IF kit.wired THEN Append(kit.events, e) ELSE kit.events
    BY <1>3, <1>4 DEF Hangs
  <2>2. e.t = "end" /\ e.u = u
    BY <1>4
  <2> HIDE DEF e
  <2>3. /\ \A t : /\ Told(kit, t) \subseteq Told(kit', t)
                  /\ \A v \in Told(kit', t) : v \in Told(kit, t) \/ (e.t = t /\ e.u = v)
        /\ kit.wired => e.u \in Told(kit', e.t)
    BY <1>1, <2>1, TellFacts
  <2>4. Told(kit, "end") \subseteq Told(kit', "end") /\ Told(kit, "answer") \subseteq Told(kit', "answer")
    BY <2>3
  <2>5. \A v \in Told(kit', "answer") : v \in Told(kit, "answer")
    BY <2>2, <2>3
  <2>6. \A v \in Told(kit', "end") : v \in Told(kit, "end") \/ v = u
    BY <2>2, <2>3
  <2> QED BY <2>2, <2>3, <2>4, <2>5, <2>6
<1>6. /\ Live(kit') = Live(kit) \ {u} /\ PendingUuids(kit') = PendingUuids(kit) \ {u}
      /\ kit'.unclaimed = kit.unclaimed \ {u} /\ kit'.timers = kit.timers
      /\ kit'.uuid = kit.uuid /\ kit'.waits = kit.waits /\ kit'.byKit = kit.byKit /\ kit'.ended = kit.ended
      /\ kit'.native = [kit.native EXCEPT ![u] = "over"]
  BY <1>3 DEF Hangs, SameButEvents
<1>7. /\ \A v \in Uuids : v # u => kit'.native[v] = kit.native[v]
      /\ kit'.native[u] = "over"
  BY <1>1, <1>6, NativeStates
<1>8. Reported(kit') = Reported(kit) /\ Current(kit') = Current(kit) /\ u \notin Reported(kit)
  BY <1>2, <1>6 DEF Reported, Current
<1>9. Held(kit')
  BY <1>1, <1>2, <1>5, <1>6, <1>7, <1>8, NativeStates DEF Held
<1>10. Linked(kit')
  <2>1. u \in Current(kit) => u \in Told(kit', "end")
    BY <1>5 DEF Mirror, WiredInv, MirrorInv, Current
  <2> QED BY <1>1, <1>5, <1>6, <1>8, <2>1 DEF Linked
<1>11. Rings(kit', status')
  BY <1>1, <1>2, <1>5, <1>6, <1>7, <1>8, NativeStates DEF Rings
<1> QED BY <1>1, <1>2, <1>6, <1>9, <1>10, <1>11 DEF Mirror, MirrorInv, Talking

LEMMA ScreenMirror ==
    ASSUME Mirror, CallProgresses \/ Answer \/ CallEnds \/ Lock
    PROVE  MirrorInv'
<1>1. /\ WellKept(kit) /\ kit \in Kits /\ Held(kit) /\ Linked(kit) /\ Rings(kit, status) /\ ~kit.ended
      /\ Prompt => kit.waits = {} /\ Reported(kit) = {}
  BY RestIsIdle
<1>2. CASE UNCHANGED <<status, dir, kit>>
  BY <1>2 DEF Mirror, MirrorInv, Held, Linked, Rings, Talking, Told, Live, PendingUuids, Reported, Current
<1>3. CASE Prompt /\ kit' = Torn(kit)
  BY <1>1, <1>3, TornMirror, IdleStep
<1>4. CASE CallEnds
  BY <1>3, <1>4 DEF CallEnds
<1>5. CASE Lock
  BY <1>2, <1>3, <1>5 DEF Lock
<1>6. CASE Answer
  <2>1. Prompt /\ kit' = SyncAccepted(kit) /\ status = "incoming-ringing" /\ status' = "connecting"
    BY <1>6 DEF Answer, Accept, Shows
  <2>2. \A u \in Current(kit) : kit.native[u] = "ringing" => ~kit.byKit
    BY <1>1 DEF Rings
  <2>3. Held(kit') /\ Linked(kit') /\ Rings(kit', "connecting")
    BY <1>1, <2>1, <2>2, AcceptedMirror
  <2>4. ~kit'.ended
    BY <1>1, <2>1, AcceptedFacts DEF Accepts, SameButEvents
  <2> QED BY <2>1, <2>3, <2>4 DEF MirrorInv, Talking, AtRest
<1>7. CASE CallProgresses
  <2>1. CASE MediaUp /\ Prompt /\ kit' = SyncActive(kit)
    <3>1. status # "incoming-ringing" /\ status' = "active"
      BY <2>1 DEF MediaUp, Shows
    <3>2. Held(kit') /\ Linked(kit') /\ Rings(kit', "active")
      BY <1>1, <2>1, <3>1, ActiveMirror
    <3>3. ~kit'.ended
      BY <1>1, <2>1, ActiveFacts DEF Accepts, SameButEvents
    <3> QED BY <3>1, <3>2, <3>3 DEF MirrorInv, Talking, AtRest
  <2>2. CASE (Offered \/ Accepted \/ MediaLost \/ Rest) /\ UNCHANGED kit
    <3>1. /\ status # "incoming-ringing" /\ status' # "incoming-ringing"
          /\ Talking => Talking'
      BY <2>2 DEF Offered, Accepted, MediaLost, Rest, Shows, Talking, AtRest
    <3>2. Rings(kit, status')
      BY <1>1, <3>1 DEF Rings
    <3>3. kit' = kit
      BY <2>2
    <3>4. Held(kit') /\ Linked(kit') /\ Rings(kit', status')
      BY <1>1, <3>2, <3>3 DEF Held, Linked, Rings, Told, Live, PendingUuids, Reported, Current
    <3> QED BY <1>1, <3>1, <3>3, <3>4 DEF Mirror, MirrorInv
  <2> QED BY <1>7, <2>1, <2>2 DEF CallProgresses
<1> QED BY <1>4, <1>5, <1>6, <1>7

\* A step that leaves the calls and the status alone.
LEMMA SideStep ==
    ASSUME Mirror, status' = status, Moves(kit, kit', {"timers", "wired", "route", "speaker", "events"}),
           kit'.timers \subseteq kit.timers \cup PendingUuids(kit),
           Told(kit', "end") = Told(kit, "end"), Told(kit', "answer") = Told(kit, "answer")
    PROVE  MirrorInv'
<1>1. /\ PendingUuids(kit') = PendingUuids(kit)
      /\ kit'.native = kit.native /\ kit'.unclaimed = kit.unclaimed
      /\ kit'.uuid = kit.uuid /\ kit'.waits = kit.waits /\ kit'.byKit = kit.byKit /\ kit'.ended = kit.ended
  BY DEF Moves, Only, AllFields
<1>2. Held(kit') /\ Linked(kit') /\ Rings(kit', status')
  BY <1>1, RestIsIdle, SameMirror
<1> QED BY <1>1, <1>2 DEF Mirror, MirrorInv, Talking

LEMMA OnlyMore ==
    ASSUME NEW k, NEW l, NEW F, NEW G, F \subseteq G, Moves(k, l, F)
    PROVE  Moves(k, l, G)
BY DEF Moves, Only

\* Only the route and the speaker change, and the events that tell of it.
OnlyRoute(k, l) ==
    /\ Moves(k, l, {"timers", "wired", "route", "speaker", "events"}) /\ l.timers = k.timers
    /\ \A t : t # "route" => Told(l, t) = Told(k, t)

LEMMA RouteMoves ==
    ASSUME NEW k, WellKept(k), NEW on \in BOOLEAN
    PROVE  OnlyRoute(k, SetRoute(k, on))
<1> DEFINE l == SetRoute(k, on)
<1>1. k \in Kits
  BY DEF WellKept
<1>2. /\ WellKept(l) /\ PendingUuids(l) = PendingUuids(k) /\ Live(l) = Live(k)
      /\ l = [k EXCEPT !.route = on, !.events = l.events]
      /\ \A t : t # "route" => Told(l, t) = Told(k, t)
  BY SetRouteFacts, RouteMirror
<1> HIDE DEF l
<1>3. Only(k, l, {"timers", "wired", "route", "speaker", "events"}) /\ l.timers = k.timers
  BY <1>1, <1>2 DEF Only, AllFields, Kits
<1> QED BY <1>2, <1>3 DEF Moves, OnlyRoute, l

\* The same, and the speaker of the app.
LEMMA RouteAndSpeaker ==
    ASSUME NEW k, WellKept(k), NEW on \in BOOLEAN, NEW l, l = [SetRoute(k, on) EXCEPT !.speaker = on]
    PROVE  OnlyRoute(k, l)
<1> DEFINE r == SetRoute(k, on)
<1>1. OnlyRoute(k, r)
  BY RouteMoves
<1>2. l = [r EXCEPT !.speaker = on]
  OBVIOUS
<1> HIDE DEF r
<1>3. WellKept(r)
  BY <1>1 DEF Moves, OnlyRoute
<1>4. Moves(r, l, {"speaker"})
  BY <1>2, <1>3, SpeakerMoves
<1>5. Moves(k, l, {"timers", "wired", "route", "speaker", "events"}) /\ l.timers = r.timers
  BY <1>1, <1>4 DEF OnlyRoute, Moves, Only, AllFields
<1>6. l.events = r.events
  BY <1>4 DEF Moves, Only, AllFields
<1> QED BY <1>1, <1>5, <1>6 DEF OnlyRoute, Told

LEMMA RestMirror ==
    ASSUME Mirror, ToggleSpeaker \/ SystemSpeaker \/ Mount \/ Unlock
    PROVE  MirrorInv'
<1>1. WellKept(kit) /\ kit \in Kits
  BY RestIsIdle
<1>2. status' = status
  BY DEF ToggleSpeaker, SystemSpeaker, Mount, Unlock
<1>3. CASE ToggleSpeaker
  <2> DEFINE b == ~kit.speaker
  <2>1. b \in BOOLEAN /\ kit' = [SetRoute(kit, b) EXCEPT !.speaker = b]
    BY <1>1, <1>3 DEF ToggleSpeaker, Kits
  <2> HIDE DEF b
  <2>2. OnlyRoute(kit, kit')
    BY <1>1, <2>1, RouteAndSpeaker
  <2> QED BY <1>2, <2>2, SideStep DEF OnlyRoute
<1>4. CASE SystemSpeaker
  <2> DEFINE b == ~kit.route
  <2>1. b \in BOOLEAN /\ kit' = SetRoute(kit, b)
    BY <1>1, <1>4 DEF SystemSpeaker, Kits
  <2> HIDE DEF b
  <2>2. OnlyRoute(kit, kit')
    BY <1>1, <2>1, RouteMoves
  <2> QED BY <1>2, <2>2, SideStep DEF OnlyRoute
<1>5. CASE Mount \/ Unlock
  <2> DEFINE T == kit.timers \cup PendingUuids(kit)
  <2>1. T \in SUBSET Uuids
    BY <1>1, SetShape DEF Kits
  <2>2. kit' = kit \/ kit' = [kit EXCEPT !.timers = T] \/ kit' = [kit EXCEPT !.wired = TRUE, !.timers = T]
    BY <1>1, <1>5 DEF Mount, Unlock, Kits
  <2>3. CASE kit' = kit
    BY <1>2, <2>3 DEF Mirror, MirrorInv, Held, Linked, Rings, Talking, Told, Live, PendingUuids, Reported, Current
  <2>4. CASE kit' # kit
    <3> HIDE DEF T
    <3>1. (Moves(kit, kit', {"timers"}) \/ Moves(kit, kit', {"wired", "timers"})) /\ kit'.timers = T
      <4>1. CASE kit' = [kit EXCEPT !.timers = T]
        BY <1>1, <2>1, <4>1, TimersMove
      <4>2. CASE kit' = [kit EXCEPT !.wired = TRUE, !.timers = T]
        BY <1>1, <2>1, <4>2, WiredMoves
      <4> QED BY <2>2, <2>4, <4>1, <4>2
    <3>2. Moves(kit, kit', {"timers", "wired", "route", "speaker", "events"})
      BY <3>1, OnlyMore
    <3>3. kit'.events = kit.events
      BY <3>1 DEF Moves, Only, AllFields
    <3>4. Told(kit', "end") = Told(kit, "end") /\ Told(kit', "answer") = Told(kit, "answer")
      BY <3>3 DEF Told
    <3> QED BY <1>2, <3>1, <3>2, <3>4, SideStep DEF T
  <2> QED BY <2>3, <2>4
<1> QED BY <1>3, <1>4, <1>5

\* What the delivery of the first event takes from the queue.
TakesFirst(k, d, h) ==
    /\ Moves(k, d, {"events"}) /\ WellKept(d) /\ d \in Kits /\ h \in Events
    /\ h.t # "route" => h.u \in Uuids /\ h.u \in Told(k, h.t)
    /\ \A t : /\ Told(d, t) \subseteq Told(k, t)
              /\ t # h.t => Told(d, t) = Told(k, t)
              /\ \A u \in Told(k, t) : u \in Told(d, t) \/ u = h.u

LEMMA DeliveredTold ==
    ASSUME Mirror, kit.events # << >>
    PROVE  TakesFirst(kit, Delivered, Head(kit.events))
<1> DEFINE d == Delivered
           h == Head(kit.events)
<1>1. Moves(kit, d, {"events"}) /\ d.events = Tail(kit.events) /\ h \in Events /\ kit \in Kits
  BY RestIsIdle, DeliveredFacts
<1>2. WellKept(d) /\ d \in Kits
  BY <1>1 DEF Moves, WellKept
<1> HIDE DEF d
<1>3. \A t : /\ Told(d, t) \subseteq Told(kit, t)
             /\ \A u \in Told(kit, t) : u \in Told(d, t) \/ (h.t = t /\ h.u = u)
             /\ t = h.t /\ t # "route" => h.u \in Told(kit, t)
  BY <1>1, ToldTail
<1> HIDE DEF h
<1>4. h.t # "route" => h.u \in Uuids
  BY <1>1 DEF Events
<1>5. \A t : t # h.t => Told(d, t) = Told(kit, t)
  BY <1>3
<1> QED BY <1>1, <1>2, <1>3, <1>4, <1>5 DEF TakesFirst, d, h

LEMMA OnAnswerMirror ==
    ASSUME Mirror, OnAnswer
    PROVE  MirrorInv'
<1> DEFINE d == Delivered
           u == Head(kit.events).u
<1>1. /\ WellKept(kit) /\ kit \in Kits /\ Held(kit) /\ Linked(kit) /\ Rings(kit, status) /\ ~kit.ended
  BY RestIsIdle
<1>2. kit.events # << >> /\ Head(kit.events).t = "answer"
  BY DEF OnAnswer, IsNext
<1>3. /\ Moves(kit, d, {"events"}) /\ WellKept(d) /\ d \in Kits
      /\ u \in Uuids /\ u \in Told(kit, "answer")
      /\ Told(d, "end") = Told(kit, "end") /\ Told(d, "answer") \subseteq Told(kit, "answer")
      /\ \A v \in Told(kit, "answer") : v \in Told(d, "answer") \/ v = u
  BY <1>2, DeliveredTold DEF TakesFirst
<1>4. IF u = kit.uuid
      THEN kit' = [d EXCEPT !.byKit = TRUE] /\ status' = IF status = "incoming-ringing" THEN "connecting" ELSE status
      ELSE kit' = d /\ status' = status
  BY DEF OnAnswer, Accept, Shows
<1> HIDE DEF d, u
<1>5. Moves(kit, kit', {"events", "byKit"}) /\ kit'.events = d.events
      /\ IF u = kit.uuid THEN kit'.byKit ELSE kit'.byKit = kit.byKit
  <2>1. CASE u = kit.uuid
    <3>1. Moves(d, kit', {"byKit"}) /\ kit'.byKit = TRUE
      BY <1>3, <1>4, <2>1, ByKitMoves
    <3> QED BY <1>3, <2>1, <3>1 DEF Moves, Only, AllFields
  <2>2. CASE u # kit.uuid
    BY <1>3, <1>4, <2>2 DEF Moves, Only, AllFields
  <2> QED BY <2>1, <2>2
<1>6. /\ PendingUuids(kit') = PendingUuids(kit) /\ Live(kit') = Live(kit)
      /\ kit'.native = kit.native /\ kit'.unclaimed = kit.unclaimed /\ kit'.timers = kit.timers
      /\ kit'.uuid = kit.uuid /\ kit'.waits = kit.waits /\ kit'.ended = kit.ended
      /\ \A t : Told(kit', t) = Told(d, t)
      /\ Reported(kit') = Reported(kit) /\ Current(kit') = Current(kit)
  BY <1>5 DEF Moves, Only, AllFields, Told, Reported, Current
<1>7. u = kit.uuid => kit.waits = {} /\ u # None
  BY <1>1, <1>3, SetShape DEF Held
<1>8. Held(kit')
  <2>1. kit'.waits # {} => kit'.uuid = None /\ ~kit'.byKit
    BY <1>1, <1>5, <1>6, <1>7 DEF Held
  <2> QED BY <1>1, <1>3, <1>6, <2>1 DEF Held
<1>9. Linked(kit')
  BY <1>1, <1>3, <1>6 DEF Linked
<1>10. Rings(kit', status')
  <2>1. CASE u = kit.uuid
    <3>1. Reported(kit) = {} /\ Current(kit) = {u}
      BY <1>7, <2>1 DEF Reported, Current
    <3>2. kit.native[u] # "ringing" /\ status' # "incoming-ringing"
      BY <1>1, <1>3, <1>4, <2>1 DEF Held
    <3> QED BY <1>6, <3>1, <3>2 DEF Rings
  <2>2. CASE u # kit.uuid
    BY <1>1, <1>3, <1>4, <1>5, <1>6, <2>2 DEF Rings, Current
  <2> QED BY <2>1, <2>2
<1>11. Talking => Talking'
  BY <1>4 DEF Talking, AtRest
<1> QED BY <1>1, <1>6, <1>8, <1>9, <1>10, <1>11 DEF Mirror, MirrorInv

LEMMA OnEndMirror ==
    ASSUME Mirror, OnEnd
    PROVE  MirrorInv'
<1> DEFINE d == Delivered
           u == Head(kit.events).u
           T == d.timers \ {u}
           g == [d EXCEPT !.timers = T]
           e == [g EXCEPT !.ended = TRUE]
<1>1. /\ WellKept(kit) /\ kit \in Kits /\ Held(kit) /\ Linked(kit) /\ Rings(kit, status) /\ ~kit.ended
  BY RestIsIdle
<1>2. kit.events # << >> /\ Head(kit.events).t = "end"
  BY DEF OnEnd, IsNext
<1>3. /\ Moves(kit, d, {"events"}) /\ WellKept(d) /\ d \in Kits
      /\ u \in Uuids /\ u \in Told(kit, "end")
      /\ Told(d, "answer") = Told(kit, "answer") /\ Told(d, "end") \subseteq Told(kit, "end")
      /\ \A v \in Told(kit, "end") : v \in Told(d, "end") \/ v = u
  BY <1>2, DeliveredTold DEF TakesFirst
<1>4. IF u = kit.uuid /\ Talking THEN kit' = Torn(e)
      ELSE (u # kit.uuid => kit' = g) /\ status' = status
  <2>1. g = [d EXCEPT !.timers = @ \ {u}]
    BY <1>3 DEF Kits
  <2> HIDE DEF g
  <2> QED BY <2>1 DEF OnEnd, d, u, e
<1>5. Moves(d, g, {"timers"}) /\ g.timers = T
  <2>1. T \in SUBSET Uuids
    BY <1>3 DEF Kits
  <2> HIDE DEF T, d
  <2> QED BY <1>3, <2>1, TimersMove
<1> HIDE DEF d, u, g
<1>6. WellKept(g) /\ Moves(g, e, {"ended"}) /\ e.ended
  <2>1. WellKept(g)
    BY <1>5 DEF Moves
  <2> QED BY <2>1, EndedMoves
<1> HIDE DEF e
<1>7. /\ PendingUuids(g) = PendingUuids(kit) /\ Live(g) = Live(kit)
      /\ g.native = kit.native /\ g.unclaimed = kit.unclaimed /\ g.timers \subseteq kit.timers
      /\ g.uuid = kit.uuid /\ g.waits = kit.waits /\ g.ended = kit.ended /\ g.byKit = kit.byKit
      /\ \A t : Told(g, t) = Told(d, t)
      /\ Reported(g) = Reported(kit) /\ Current(g) = Current(kit)
  BY <1>3, <1>5 DEF Moves, Only, AllFields, Told, Reported, Current
<1>8. Held(g)
  BY <1>1, <1>3, <1>7 DEF Held
<1>9. CASE u = kit.uuid
  <2>1. Talking /\ kit.waits = {}
    BY <1>1, <1>3, <1>9, SetShape DEF Mirror, MirrorInv, Held
  <2>2. /\ PendingUuids(e) = PendingUuids(g) /\ Live(e) = Live(g)
        /\ e.native = g.native /\ e.unclaimed = g.unclaimed /\ e.timers = g.timers
        /\ e.uuid = g.uuid /\ e.waits = g.waits /\ e.byKit = g.byKit
        /\ \A t : Told(e, t) = Told(g, t)
        /\ WellKept(e)
    BY <1>6 DEF Moves, Only, AllFields, Told
  <2>3. Held(e)
    BY <1>8, <2>2, SameMirror
  <2>4. e.uuid \notin Live(e)
    <3>1. kit.native[u] = "over"
      BY <1>1, <1>3 DEF Held
    <3> QED BY <1>1, <1>7, <1>9, <2>2, <3>1, NativeStates
  <2>5. kit' = Torn(e)
    BY <1>4, <1>9, <2>1
  <2> QED BY <1>7, <2>1, <2>2, <2>3, <2>4, <2>5, TornMirror, IdleStep
<1>10. CASE u # kit.uuid
  <2>1. kit' = g /\ status' = status
    BY <1>4, <1>10
  <2>2. Linked(g)
    BY <1>1, <1>3, <1>7, <1>10 DEF Linked, Current
  <2>3. Rings(g, status)
    BY <1>1, <1>3, <1>7 DEF Rings
  <2>4. Held(kit') /\ Linked(kit') /\ Rings(kit', status')
    BY <1>8, <2>1, <2>2, <2>3 DEF Held, Linked, Rings, Told, Live, PendingUuids, Reported, Current
  <2> QED BY <1>1, <1>7, <2>1, <2>4 DEF Mirror, MirrorInv, Talking
<1> QED BY <1>9, <1>10

LEMMA OnOthersMirror ==
    ASSUME Mirror, OnVoipPush \/ OnSpeakerRoute
    PROVE  MirrorInv'
<1> DEFINE d == Delivered
<1>1. WellKept(kit) /\ kit \in Kits /\ kit.events # << >> /\ Head(kit.events).t \in {"push", "route"} /\ status' = status
  BY RestIsIdle DEF OnVoipPush, OnSpeakerRoute, IsNext
<1>2. /\ Moves(kit, d, {"events"}) /\ WellKept(d) /\ d \in Kits /\ Head(kit.events) \in Events
      /\ Told(d, "end") = Told(kit, "end") /\ Told(d, "answer") = Told(kit, "answer")
  BY <1>1, DeliveredTold DEF TakesFirst
<1>3. CASE OnVoipPush
  <2> DEFINE u == Head(kit.events).u
             T == d.timers \cup ({u} \cap PendingUuids(kit))
  <2>1. kit' = [d EXCEPT !.timers = T]
    <3>1. kit' = [d EXCEPT !.timers = @ \cup ({u} \cap PendingUuids(kit))]
      BY <1>3 DEF OnVoipPush
    <3> HIDE DEF d, u
    <3> QED BY <1>2, <3>1 DEF Kits
  <2> HIDE DEF d, u
  <2>2. T \in SUBSET Uuids /\ d.timers = kit.timers
    BY <1>1, <1>2, SetShape DEF Kits, Moves, Only, AllFields
  <2>2a. T \subseteq kit.timers \cup PendingUuids(kit)
    BY <2>2
  <2> HIDE DEF T
  <2>3. Moves(d, kit', {"timers"}) /\ kit'.timers = T
    BY <1>2, <2>1, <2>2, TimersMove
  <2>4. Moves(kit, kit', {"timers", "wired", "route", "speaker", "events"}) /\ kit'.events = d.events
    BY <1>2, <2>3 DEF Moves, Only, AllFields
  <2>5. Told(kit', "end") = Told(kit, "end") /\ Told(kit', "answer") = Told(kit, "answer")
    BY <1>2, <2>4 DEF Told
  <2> QED BY <1>1, <2>2a, <2>3, <2>4, <2>5, SideStep
<1>4. CASE OnSpeakerRoute
  <2> DEFINE on == Head(kit.events).on
  <2>1. on \in BOOLEAN
    BY <1>2, <1>4 DEF OnSpeakerRoute, IsNext, Events
  <2>2. kit' = d \/ kit' = [SetRoute(d, on) EXCEPT !.speaker = on]
    BY <1>4 DEF OnSpeakerRoute
  <2> HIDE DEF d, on
  <2>3. OnlyRoute(d, kit')
    <3>1. CASE kit' = d
      BY <1>2, <3>1 DEF OnlyRoute, Moves, Only, Told, PendingUuids, Live, WellKept
    <3>2. CASE kit' = [SetRoute(d, on) EXCEPT !.speaker = on]
      BY <1>2, <2>1, <3>2, RouteAndSpeaker
    <3> QED BY <2>2, <3>1, <3>2
  <2>4. Moves(kit, kit', {"timers", "wired", "route", "speaker", "events"}) /\ kit'.timers = kit.timers
    BY <1>2, <2>3 DEF OnlyRoute, Moves, Only, AllFields
  <2>5. Told(kit', "end") = Told(kit, "end") /\ Told(kit', "answer") = Told(kit, "answer")
    BY <1>2, <2>3 DEF OnlyRoute
  <2> QED BY <1>1, <2>4, <2>5, SideStep
<1> QED BY <1>3, <1>4

-----------------------------------------------------------------------------
(* The speaker.                                                            *)

\* The last undelivered change of the route tells the route.
RouteTrue(k) ==
    \A i \in 1..Len(k.events) :
        k.events[i].t = "route" /\ (\A j \in 1..Len(k.events) : j > i => k.events[j].t # "route")
            => k.events[i].on = k.route

NoRoute(k) == \A i \in 1..Len(k.events) : k.events[i].t # "route"

SameSound(k, l) ==
    /\ l.route = k.route /\ l.speaker = k.speaker /\ l.wired = k.wired
    /\ RouteTrue(k) => RouteTrue(l)
    /\ NoRoute(l) <=> NoRoute(k)

SpeakerInv ==
    /\ ~Talking => ~kit.route
    /\ RouteTrue(kit)
    /\ Talking /\ NoRoute(kit) => kit.speaker = kit.route

LEMMA SameEvents ==
    ASSUME NEW k, NEW l, l.events = k.events, l.route = k.route
    PROVE  (RouteTrue(k) => RouteTrue(l)) /\ (NoRoute(l) <=> NoRoute(k))
BY DEF RouteTrue, NoRoute

LEMMA QuietAppend ==
    ASSUME NEW k \in Kits, NEW e \in Events, e.t # "route", NEW l, l.route = k.route,
           l.events = IF k.wired THEN Append(k.events, e) ELSE k.events
    PROVE  (RouteTrue(k) => RouteTrue(l)) /\ (NoRoute(l) <=> NoRoute(k))
<1>1. CASE ~k.wired
  BY <1>1, SameEvents
<1>2. CASE k.wired
  <2>1. k.events \in Seq(Events) /\ l.events = Append(k.events, e)
    BY <1>2 DEF Kits
  <2>2. /\ Len(l.events) = Len(k.events) + 1 /\ Len(k.events) \in Nat
        /\ l.events[Len(k.events) + 1] = e
        /\ \A i \in 1..Len(k.events) : l.events[i] = k.events[i]
    BY <2>1
  <2>3. \A i \in 1..Len(l.events) : i \in 1..Len(k.events) \/ i = Len(k.events) + 1
    BY <2>2
  <2>4. \A i \in 1..Len(k.events) : i \in 1..Len(l.events)
    BY <2>2
  <2>5. NoRoute(l) <=> NoRoute(k)
    BY <2>2, <2>3, <2>4 DEF NoRoute
  <2>6. RouteTrue(k) => RouteTrue(l)
    BY <2>2, <2>3, <2>4 DEF RouteTrue
  <2> QED BY <2>5, <2>6
<1> QED BY <1>1, <1>2

Routed(k, l, on) ==
    /\ l.route = on /\ l.speaker = k.speaker /\ l.wired = k.wired
    /\ RouteTrue(k) => RouteTrue(l)
    /\ NoRoute(l) => NoRoute(k) /\ k.route = on

LEMMA SetRouteSound ==
    ASSUME NEW k, WellKept(k), k.wired, NEW on \in BOOLEAN
    PROVE  Routed(k, SetRoute(k, on), on)
<1> DEFINE l == SetRoute(k, on)
<1>1. k \in Kits /\ k.events \in Seq(Events)
  BY DEF WellKept, Kits
<1>2. /\ l = [k EXCEPT !.route = on, !.events = l.events]
      /\ l.events = IF k.route # on /\ k.wired THEN Append(k.events, RouteEvent(on)) ELSE k.events
  BY SetRouteFacts
<1> HIDE DEF l
<1>3. l.route = on /\ l.speaker = k.speaker /\ l.wired = k.wired
  BY <1>1, <1>2 DEF Kits
<1>4. CASE k.route = on
  <2>1. l.events = k.events /\ l.route = k.route
    BY <1>2, <1>3, <1>4
  <2> QED BY <1>3, <1>4, <2>1, SameEvents DEF Routed, l
<1>5. CASE k.route # on
  <2> DEFINE e == RouteEvent(on)
  <2>1. e.t = "route" /\ e.on = on /\ e \in Events
    BY DEF RouteEvent, Events
  <2>2. l.events = Append(k.events, e)
    BY <1>2, <1>5
  <2> HIDE DEF e
  <2>3. /\ Len(l.events) = Len(k.events) + 1 /\ Len(k.events) \in Nat
        /\ l.events[Len(k.events) + 1] = e
        /\ \A i \in 1..Len(k.events) : l.events[i] = k.events[i]
    BY <1>1, <2>1, <2>2
  <2>4. \A i \in 1..Len(l.events) : i = Len(k.events) + 1 \/ Len(k.events) + 1 > i
    BY <2>3
  <2>5. Len(k.events) + 1 \in 1..Len(l.events)
    BY <2>3
  <2>6. RouteTrue(l)
    BY <1>3, <2>1, <2>3, <2>4, <2>5 DEF RouteTrue
  <2>7. ~NoRoute(l)
    BY <2>1, <2>3, <2>5 DEF NoRoute
  <2> QED BY <1>3, <2>6, <2>7 DEF Routed, l
<1> QED BY <1>4, <1>5

LEMMA DeliveredSound ==
    ASSUME WellKept(kit), kit.events # << >>
    PROVE  LET d == Delivered  h == Head(kit.events) IN
           /\ d.route = kit.route /\ d.speaker = kit.speaker /\ d.wired = kit.wired
           /\ RouteTrue(kit) => RouteTrue(d)
           /\ h.t # "route" => (NoRoute(d) <=> NoRoute(kit))
           /\ h.t = "route" /\ NoRoute(d) /\ RouteTrue(kit) => h.on = kit.route
<1> DEFINE d == Delivered
           h == Head(kit.events)
<1>1. Moves(kit, d, {"events"}) /\ d.events = Tail(kit.events) /\ h \in Events
  BY DeliveredFacts
<1>2. kit.events \in Seq(Events)
  BY DEF WellKept, Kits
<1> HIDE DEF d
<1>3. d.route = kit.route /\ d.speaker = kit.speaker /\ d.wired = kit.wired
  BY <1>1 DEF Moves, Only, AllFields
<1>4. /\ Len(d.events) = Len(kit.events) - 1 /\ Len(kit.events) \in Nat /\ Len(kit.events) >= 1
      /\ kit.events[1] = h
      /\ \A i \in 1..Len(d.events) : d.events[i] = kit.events[i + 1]
  BY <1>1, <1>2
<1> HIDE DEF h
<1>5. \A i \in 1..Len(d.events) : i + 1 \in 1..Len(kit.events) /\ i \in Nat
  BY <1>4
<1>6. \A i \in 1..Len(kit.events) :
         i \in Nat /\ (i = 1 \/ (i > 1 /\ i - 1 \in 1..Len(d.events) /\ (i - 1) + 1 = i /\ d.events[i - 1] = kit.events[i]))
  BY <1>4
<1>7. 1 \in 1..Len(kit.events)
  BY <1>4
<1>8. RouteTrue(kit) => RouteTrue(d)
  <2> SUFFICES ASSUME RouteTrue(kit), NEW i \in 1..Len(d.events), d.events[i].t = "route",
                      \A j \in 1..Len(d.events) : j > i => d.events[j].t # "route"
               PROVE  d.events[i].on = d.route
    BY DEF RouteTrue
  <2>1. \A j \in 1..Len(kit.events) : j > i + 1 => kit.events[j].t # "route"
    <3> SUFFICES ASSUME NEW j \in 1..Len(kit.events), j > i + 1 PROVE kit.events[j].t # "route"
      OBVIOUS
    <3>1. j - 1 \in 1..Len(d.events) /\ j - 1 > i /\ d.events[j - 1] = kit.events[j]
      BY <1>4, <1>5, <1>6
    <3> QED BY <3>1
  <2>2. kit.events[i + 1].on = kit.route
    BY <1>4, <1>5, <2>1 DEF RouteTrue
  <2> QED BY <1>3, <1>4, <2>2
<1>9. h.t # "route" => (NoRoute(d) <=> NoRoute(kit))
  <2>1. NoRoute(kit) => NoRoute(d)
    BY <1>4, <1>5 DEF NoRoute
  <2>2. ASSUME NoRoute(d), h.t # "route", NEW i \in 1..Len(kit.events)
        PROVE  kit.events[i].t # "route"
    <3>1. CASE i = 1
      BY <1>4, <2>2, <3>1
    <3>2. CASE i # 1
      BY <1>6, <2>2, <3>2 DEF NoRoute
    <3> QED BY <3>1, <3>2
  <2> QED BY <2>1, <2>2 DEF NoRoute
<1>10. h.t = "route" /\ NoRoute(d) /\ RouteTrue(kit) => h.on = kit.route
  <2> SUFFICES ASSUME h.t = "route", NoRoute(d), RouteTrue(kit) PROVE h.on = kit.route
    OBVIOUS
  <2>1. ASSUME NEW j \in 1..Len(kit.events), j > 1
        PROVE  kit.events[j].t # "route"
    BY <1>6, <2>1 DEF NoRoute
  <2>2. kit.events[1].t = "route" => kit.events[1].on = kit.route
    BY <1>7, <2>1 DEF RouteTrue
  <2> QED BY <1>4, <2>2
<1> QED BY <1>3, <1>8, <1>9, <1>10 DEF d, h

\* What the mirror does at a change of the status.
LEMMA SyncSound ==
    ASSUME NEW k, WellKept(k)
    PROVE  /\ SameSound(k, SyncAccepted(k)) /\ SameSound(k, SyncActive(k)) /\ SameSound(k, SyncEnded(k))
           /\ k.wired => Routed(k, SetRoute(k, FALSE), FALSE) /\ SameSound(SetRoute(k, FALSE), Torn(k))
<1>1. k \in Kits
  BY DEF WellKept
<1>2. ASSUME NEW m, WellKept(m)
      PROVE  SameSound(m, SyncEnded(m))
  <2> DEFINE l == SyncEnded(m)
  <2>1. l.events = m.events /\ l.route = m.route /\ l.wired = m.wired /\ l.speaker = m.speaker
    BY <1>2, SyncEndedFacts
  <2> HIDE DEF l
  <2>2. SameSound(m, l)
    BY <2>1, SameEvents DEF SameSound
  <2> QED BY <2>2 DEF l
<1>3. SameSound(k, SyncActive(k))
  <2> DEFINE l == SyncActive(k)
  <2>1. l.events = k.events /\ l.route = k.route /\ l.wired = k.wired /\ l.speaker = k.speaker
    BY ActiveFacts DEF Accepts, SameButEvents
  <2> HIDE DEF l
  <2>2. SameSound(k, l)
    BY <2>1, SameEvents DEF SameSound
  <2> QED BY <2>2 DEF l
<1>4. SameSound(k, SyncAccepted(k))
  <2> DEFINE l == SyncAccepted(k)
             e == AnswerEvent(k.uuid)
             rings == k.uuid # None /\ ~k.byKit /\ k.native[k.uuid] = "ringing"
  <2>1. /\ Accepts(k, l)
        /\ rings => l.events = IF k.wired THEN Append(k.events, e) ELSE k.events
        /\ ~rings => l = k
    BY AcceptedFacts
  <2>2. l.route = k.route /\ l.wired = k.wired /\ l.speaker = k.speaker
    BY <2>1 DEF Accepts, SameButEvents
  <2>3. rings => e \in Events /\ e.t # "route"
    BY <1>1 DEF AnswerEvent, Events, Kits
  <2> HIDE DEF l, e, rings
  <2>4. SameSound(k, l)
    BY <1>1, <2>1, <2>2, <2>3, QuietAppend, SameEvents DEF SameSound
  <2> QED BY <2>4 DEF l
<1>5. k.wired => Routed(k, SetRoute(k, FALSE), FALSE) /\ SameSound(SetRoute(k, FALSE), Torn(k))
  <2>1. WellKept(SetRoute(k, FALSE))
    BY SetRouteFacts
  <2>2. SameSound(SetRoute(k, FALSE), Torn(k))
    BY <1>2, <2>1 DEF Torn
  <2> QED BY <2>2, SetRouteSound
<1> QED BY <1>2, <1>3, <1>4, <1>5

\* A call that begins has the speaker off.
Begins(k, l) ==
    /\ l.route = k.route /\ l.speaker = FALSE /\ l.wired = k.wired
    /\ RouteTrue(k) => RouteTrue(l)
    /\ NoRoute(l) <=> NoRoute(k)

LEMMA BeginSound ==
    ASSUME NEW k, WellKept(k), NEW u \in Uuids \cup {None}, NewCallUuid(k, u)
    PROVE  Begins(k, SyncIncoming(k, u)) /\ Begins(k, SyncStarting(k, u))
<1> DEFINE n == NewCall(k)
<1>1. NewFacts(k, n) /\ WellKept(n) /\ k \in Kits
  BY NewCallFacts DEF NewFacts, WellKept
<1>2. NewCallUuid(n, u)
  BY <1>1, SameUuids
<1> HIDE DEF n
<1>3. n.events = k.events /\ n.route = k.route /\ n.speaker = FALSE /\ n.wired = k.wired /\ n.pending = k.pending
      /\ n \in Kits
  BY <1>1 DEF NewFacts, WellKept, Kits
<1>4. ASSUME NEW how \in {"ringing", "dialing"}
      PROVE  Begins(k, Report(n, how, u))
  <2> DEFINE l == Report(n, how, u)
  <2>1. Reports(n, l, how, u)
    BY <1>1, <1>2, ReportFacts DEF NewCallUuid
  <2> HIDE DEF l
  <2>2. l.events = k.events /\ l.route = k.route /\ l.speaker = FALSE /\ l.wired = k.wired
    BY <1>3, <2>1 DEF Reports, Kits
  <2>3. Begins(k, l)
    BY <2>2, SameEvents DEF Begins
  <2> QED BY <2>3 DEF l
<1>5. ASSUME k.pending # << >>
      PROVE  Begins(k, Claim(n))
  <2> DEFINE l == Claim(n)
             p == Head(n.pending)
  <2>1. l = [n EXCEPT !.pending = l.pending, !.unclaimed = n.unclaimed \ {p},
                      !.timers = n.timers \ {p}, !.uuid = p, !.byKit = (p \in n.unclaimed)]
    BY <1>1, <1>3, <1>5, ClaimFacts
  <2> HIDE DEF l, p
  <2>2. l.events = k.events /\ l.route = k.route /\ l.speaker = FALSE /\ l.wired = k.wired
    BY <1>3, <2>1 DEF Kits
  <2>3. Begins(k, l)
    BY <2>2, SameEvents DEF Begins
  <2> QED BY <2>3 DEF l
<1> QED BY <1>3, <1>4, <1>5 DEF SyncIncoming, SyncStarting, n

Keeps == WiredInv' /\ ("glare" \notin Windows /\ SpeakerInv => SpeakerInv')

\* The steps keep the speaker in one of these ways.
LEMMA SoundSame ==
    ASSUME WiredInv, SameSound(kit, kit'), Talking' <=> Talking, app'.unlocked => app.unlocked
    PROVE  Keeps
BY DEF Keeps, WiredInv, SameSound, SpeakerInv

LEMMA SoundBegins ==
    ASSUME WiredInv, Begins(kit, kit'), kit \in Kits, app.unlocked, ~Talking
    PROVE  Keeps
<1>1. kit'.wired /\ kit'.route = kit.route /\ kit'.speaker = FALSE /\ (RouteTrue(kit) => RouteTrue(kit'))
  BY DEF WiredInv, Begins
<1>2. SpeakerInv => kit.route = FALSE
  BY DEF SpeakerInv, Kits
<1> QED BY <1>1, <1>2 DEF Keeps, WiredInv, SpeakerInv

LEMMA SoundEnds ==
    ASSUME WiredInv, Talking, NEW k, WellKept(k), k.wired = kit.wired, RouteTrue(kit) => RouteTrue(k),
           kit' = Torn(k), ~Talking', app'.unlocked => app.unlocked
    PROVE  Keeps
<1>1. k.wired
  BY DEF WiredInv
<1>2. Routed(k, SetRoute(k, FALSE), FALSE) /\ SameSound(SetRoute(k, FALSE), kit')
  BY <1>1, SyncSound
<1>3. kit'.route = FALSE /\ kit'.wired /\ (RouteTrue(k) => RouteTrue(kit'))
  BY <1>1, <1>2 DEF Routed, SameSound
<1> QED BY <1>3 DEF Keeps, WiredInv, SpeakerInv

LEMMA SoundStill ==
    ASSUME WiredInv, UNCHANGED <<status, dir, kit>>, app'.unlocked => app.unlocked
    PROVE  Keeps
BY DEF Keeps, WiredInv, SpeakerInv, Talking, RouteTrue, NoRoute

LEMMA CallsSound ==
    ASSUME Types, WiredInv, NEW u \in Uuids \cup {None},
           CallRings(u) \/ TapCall(u) \/ MicAnswered(u) \/ CallsCross(u) \/ UuidKnown(u)
    PROVE  Keeps
<1>1. WellKept(kit) /\ kit \in Kits /\ app \in Apps
  BY DEF Types, WellKept
<1>2. app'.unlocked = app.unlocked
  BY <1>1 DEF CallRings, TapCall, MicAnswered, CallsCross, UuidKnown, Apps
<1>3. ASSUME Ready, Starts(u)
      PROVE  Keeps
  <2>1. NewCallUuid(kit, u) /\ kit' = SyncStarting(kit, u)
    BY <1>3 DEF Starts, NewCallUuid
  <2> QED BY <1>1, <1>3, <2>1, BeginSound, SoundBegins DEF Ready
<1>4. CASE CallRings(u)
  <2>1. NewCallUuid(kit, u) /\ kit' = SyncIncoming(kit, u) /\ Ready
    BY <1>4 DEF CallRings, NewCallUuid
  <2> QED BY <1>1, <2>1, BeginSound, SoundBegins DEF Ready
<1>5. CASE TapCall(u)
  BY <1>2, <1>3, <1>5, SoundStill DEF TapCall
<1>6. CASE MicAnswered(u)
  BY <1>2, <1>3, <1>6, SoundStill DEF MicAnswered
<1>7. CASE CallsCross(u)
  <2> DEFINE i == SyncIncoming(kit, u)
  <2>1. NewCallUuid(kit, u) /\ kit' = SyncAccepted(i) /\ Talking /\ Talking'
        /\ ("glare" \notin Windows => ~kit.route)
    BY <1>7 DEF CallsCross, NewCallUuid, Crossed, Shows, Talking, AtRest
  <2>2. Begins(kit, i) /\ WellKept(i)
    BY <1>1, <2>1, BeginSound, KeptBySync
  <2> HIDE DEF i
  <2>3. SameSound(i, kit')
    BY <2>1, <2>2, SyncSound
  <2>4. Begins(kit, kit')
    BY <2>2, <2>3 DEF Begins, SameSound
  <2>5. kit'.wired /\ kit'.route = kit.route /\ kit'.speaker = FALSE /\ (RouteTrue(kit) => RouteTrue(kit'))
    BY <2>1, <2>4 DEF WiredInv, Begins
  <2>6. "glare" \notin Windows => kit.route = FALSE
    BY <1>1, <2>1 DEF Kits
  <2> QED BY <2>1, <2>5, <2>6 DEF Keeps, WiredInv, SpeakerInv
<1>8. CASE UuidKnown(u)
  <2>1. kit' = [kit EXCEPT !.waits = @ \ {u}, !.uuid = u] /\ status' = status
    BY <1>8 DEF UuidKnown
  <2>2. Moves(kit, kit', {"waits", "uuid"})
    <3>1. WellKept(kit) /\ kit' = [kit EXCEPT !.waits = @ \ {u}, !.uuid = u]
      BY <1>1, <2>1
    <3> QED BY <3>1, UuidMoves
  <2>3. kit'.events = kit.events /\ kit'.route = kit.route /\ kit'.speaker = kit.speaker /\ kit'.wired = kit.wired
    BY <2>2 DEF Moves, Only, AllFields
  <2>4. SameSound(kit, kit')
    BY <2>3, SameEvents DEF SameSound
  <2> QED BY <1>2, <2>1, <2>4, SoundSame DEF Talking
<1> QED BY <1>4, <1>5, <1>6, <1>7, <1>8

LEMMA SystemSound ==
    ASSUME Types, WiredInv, NEW u \in Uuids, ClaimTimeout(u) \/ Push(u) \/ SystemAnswers(u) \/ SystemEnds(u)
    PROVE  Keeps
<1>1. WellKept(kit) /\ kit \in Kits
  BY DEF Types, WellKept
<1>2. status' = status /\ app' = app
  BY DEF ClaimTimeout, Push, SystemAnswers, SystemEnds
<1>3. SUFFICES SameSound(kit, kit')
  BY <1>2, SoundSame DEF Talking
<1>4. CASE ClaimTimeout(u)
  <2> DEFINE k == ReportEnded(kit, u)
  <2>1. SameRest(kit, k)
    BY <1>1, EndedFacts
  <2>2. Moves(k, kit', {"timers"})
    BY <1>1, <1>4, TimeoutFacts
  <2> HIDE DEF k
  <2>3. kit'.events = kit.events /\ kit'.route = kit.route /\ kit'.speaker = kit.speaker /\ kit'.wired = kit.wired
    BY <2>1, <2>2 DEF Moves, Only, AllFields, SameRest, SameButEvents
  <2> QED BY <2>3, SameEvents DEF SameSound
<1>5. ASSUME NEW e, e \in Events, e.t # "route", SameButEvents(kit, kit'),
             kit'.events = IF kit.wired THEN Append(kit.events, e) ELSE kit.events
      PROVE  SameSound(kit, kit')
  <2>1. kit'.route = kit.route /\ kit'.speaker = kit.speaker /\ kit'.wired = kit.wired
    BY <1>5 DEF SameButEvents
  <2>2. (RouteTrue(kit) => RouteTrue(kit')) /\ (NoRoute(kit') <=> NoRoute(kit))
    BY <1>1, <1>5, <2>1, QuietAppend
  <2> QED BY <2>1, <2>2 DEF SameSound
<1>6. CASE Push(u)
  <2>1. Pushes(kit, kit', u)
    <3>1. NewUuid(kit, u)
      BY <1>6 DEF Push
    <3>2. kit' = Emit([kit EXCEPT !.native[u] = "ringing", !.pending = Append(@, u)], PushEvent(u))
      BY <1>6, EventNames
    <3> QED BY <1>1, <3>1, <3>2, PushFacts
  <2>2. PushEvent(u) \in Events /\ PushEvent(u).t # "route"
    BY DEF PushEvent, Events
  <2> QED BY <1>5, <2>1, <2>2 DEF Pushes
<1>7. CASE SystemAnswers(u)
  <2>1. Answers(kit, kit', u)
    <3>1. u \in Live(kit)
      BY <1>7 DEF SystemAnswers, OnScreen
    <3> QED BY <1>1, <1>7, <3>1, EventNames, AnswerFacts
  <2>2. AnswerEvent(u) \in Events /\ AnswerEvent(u).t # "route"
    BY DEF AnswerEvent, Events
  <2> QED BY <1>5, <2>1, <2>2 DEF Answers
<1>8. CASE SystemEnds(u)
  <2>1. Hangs(kit, kit', u)
    <3>1. u \in Live(kit)
      BY <1>8 DEF SystemEnds, OnScreen
    <3> QED BY <1>1, <1>8, <3>1, EventNames, HangFacts
  <2>2. EndEvent(u) \in Events /\ EndEvent(u).t # "route"
    BY DEF EndEvent, Events
  <2> QED BY <1>5, <2>1, <2>2 DEF Hangs
<1> QED BY <1>4, <1>6, <1>7, <1>8

LEMMA ScreenSound ==
    ASSUME Types, WiredInv, CallProgresses \/ Answer \/ CallEnds \/ Lock
    PROVE  Keeps
<1>1. WellKept(kit) /\ kit \in Kits /\ app \in Apps
  BY DEF Types, WellKept
<1>2. app'.unlocked => app.unlocked
  BY <1>1 DEF CallProgresses, Answer, CallEnds, Lock, Apps
<1>3. CASE UNCHANGED <<status, dir, kit>>
  BY <1>2, <1>3, SoundStill
<1>4. CASE Talking /\ ~Talking' /\ kit' = Torn(kit)
  BY <1>1, <1>2, <1>4, SoundEnds
<1>5. CASE CallEnds
  BY <1>4, <1>5 DEF CallEnds, End, Shows, Talking, AtRest
<1>6. CASE Lock
  BY <1>3, <1>4, <1>6 DEF Lock, Vanish, Shows, Talking, AtRest
<1>7. CASE Answer
  <2>1. Talking /\ Talking' /\ kit' = SyncAccepted(kit)
    BY <1>7 DEF Answer, Accept, Shows, Talking, AtRest
  <2> QED BY <1>1, <1>2, <2>1, SyncSound, SoundSame
<1>8. CASE CallProgresses
  <2>1. /\ Talking' <=> Talking
        /\ kit' = kit \/ kit' = SyncActive(kit)
    BY <1>8 DEF CallProgresses, Offered, Accepted, MediaUp, MediaLost, Rest, Shows, Talking, AtRest
  <2>2. SameSound(kit, kit)
    BY SameEvents DEF SameSound
  <2>3. SameSound(kit, kit')
    <3>1. CASE kit' = SyncActive(kit)
      BY <1>1, <3>1, SyncSound
    <3>2. CASE kit' = kit
      BY <3>2, SameEvents DEF SameSound
    <3> QED BY <2>1, <3>1, <3>2
  <2> QED BY <1>2, <2>1, <2>3, SoundSame
<1> QED BY <1>5, <1>6, <1>7, <1>8

LEMMA RestSound ==
    ASSUME Types, WiredInv, ToggleSpeaker \/ SystemSpeaker \/ Mount \/ Unlock
    PROVE  Keeps
<1>1. WellKept(kit) /\ kit \in Kits /\ app \in Apps
  BY DEF Types, WellKept
<1>2. CASE ToggleSpeaker
  <2> DEFINE b == ~kit.speaker
             l == SetRoute(kit, b)
  <2>1. b \in BOOLEAN /\ Talking /\ Talking' /\ app'.unlocked = app.unlocked
    BY <1>1, <1>2 DEF ToggleSpeaker, Kits, Apps, Talking
  <2>2. Moves(l, kit', {"speaker"}) /\ kit'.speaker = b
    BY <1>1, <1>2, ToggleFacts
  <2>3. Routed(kit, l, b)
    BY <1>1, <2>1, SetRouteSound DEF WiredInv
  <2> HIDE DEF l
  <2>4. kit'.events = l.events /\ kit'.route = l.route /\ kit'.wired = l.wired
    BY <2>2 DEF Moves, Only, AllFields
  <2>5. kit'.wired = kit.wired /\ kit'.route = kit'.speaker /\ (RouteTrue(kit) => RouteTrue(kit'))
    BY <2>2, <2>3, <2>4, SameEvents DEF Routed
  <2> QED BY <2>1, <2>5 DEF Keeps, WiredInv, SpeakerInv
<1>3. CASE SystemSpeaker
  <2> DEFINE b == ~kit.route
  <2>1. b \in BOOLEAN /\ Talking /\ Talking' /\ app'.unlocked = app.unlocked /\ kit' = SetRoute(kit, b)
    BY <1>1, <1>3 DEF SystemSpeaker, Kits, Apps, Talking
  <2>2. Routed(kit, kit', b)
    BY <1>1, <2>1, SetRouteSound DEF WiredInv
  <2>3. kit'.wired = kit.wired /\ (RouteTrue(kit) => RouteTrue(kit')) /\ ~NoRoute(kit')
    BY <1>1, <2>2 DEF Routed, Kits
  <2> QED BY <2>1, <2>3 DEF Keeps, WiredInv, SpeakerInv
<1>4. CASE Mount \/ Unlock
  <2> DEFINE T == kit.timers \cup PendingUuids(kit)
  <2>1. T \in SUBSET Uuids
    BY <1>1, SetShape DEF Kits
  <2>2. /\ kit' = kit \/ kit' = [kit EXCEPT !.timers = T] \/ kit' = [kit EXCEPT !.wired = TRUE, !.timers = T]
        /\ status' = status
        /\ app'.unlocked => app.unlocked \/ kit'.wired
    BY <1>1, <1>4 DEF Mount, Unlock, Kits, Apps
  <2> HIDE DEF T
  <2>3. /\ kit'.events = kit.events /\ kit'.route = kit.route /\ kit'.speaker = kit.speaker
        /\ kit.wired => kit'.wired
    <3>1. CASE kit' = kit
      BY <3>1
    <3>2. CASE kit' = [kit EXCEPT !.timers = T]
      BY <1>1, <3>2 DEF Kits
    <3>3. CASE kit' = [kit EXCEPT !.wired = TRUE, !.timers = T]
      BY <1>1, <3>3 DEF Kits
    <3> QED BY <2>2, <3>1, <3>2, <3>3
  <2>4. (RouteTrue(kit) => RouteTrue(kit')) /\ (NoRoute(kit') <=> NoRoute(kit)) /\ (Talking' <=> Talking)
    BY <2>2, <2>3, SameEvents DEF Talking
  <2> QED BY <2>2, <2>3, <2>4 DEF Keeps, WiredInv, SpeakerInv
<1> QED BY <1>2, <1>3, <1>4

LEMMA EventsSound ==
    ASSUME Types, WiredInv, Deliver
    PROVE  Keeps
<1> DEFINE d == Delivered
           h == Head(kit.events)
<1>1. WellKept(kit) /\ kit \in Kits /\ kit.events # << >> /\ app' = app
  BY DEF Types, WellKept, Deliver, OnAnswer, OnEnd, OnVoipPush, OnSpeakerRoute, IsNext
<1>2. /\ d.route = kit.route /\ d.speaker = kit.speaker /\ d.wired = kit.wired
      /\ RouteTrue(kit) => RouteTrue(d)
      /\ h.t # "route" => (NoRoute(d) <=> NoRoute(kit))
      /\ h.t = "route" /\ NoRoute(d) /\ RouteTrue(kit) => h.on = kit.route
      /\ WellKept(d) /\ d \in Kits /\ h \in Events
  BY <1>1, DeliveredSound, DeliveredFacts DEF Moves, WellKept
<1> HIDE DEF d, h
<1>3. h.t # "route" => SameSound(kit, d)
  BY <1>2 DEF SameSound
<1>4. ASSUME NEW l, l.events = d.events, l.route = d.route, l.speaker = d.speaker, l.wired = d.wired, h.t # "route"
      PROVE  SameSound(kit, l)
  BY <1>3, <1>4, SameEvents DEF SameSound
<1>5. CASE OnAnswer
  <2>1. h.t # "route" /\ (kit' = d \/ kit' = [d EXCEPT !.byKit = TRUE]) /\ (Talking' <=> Talking)
    BY <1>5 DEF OnAnswer, IsNext, Accept, Shows, Talking, AtRest, d, h
  <2>2. kit'.events = d.events /\ kit'.route = d.route /\ kit'.speaker = d.speaker /\ kit'.wired = d.wired
    BY <1>2, <2>1 DEF Kits
  <2> QED BY <1>1, <1>4, <2>1, <2>2, SoundSame
<1>6. CASE OnEnd
  <2> DEFINE u == h.u
             T == d.timers \ {u}
             g == [d EXCEPT !.timers = T]
             e == [g EXCEPT !.ended = TRUE]
  <2>1. T \in SUBSET Uuids
    BY <1>2 DEF Kits
  <2>2. h.t # "route"
    BY <1>6 DEF OnEnd, IsNext, h
  <2>3. (Talking /\ ~Talking' /\ kit' = Torn(e)) \/ ((kit' = e \/ kit' = g) /\ status' = status)
    <3>1. g = [d EXCEPT !.timers = @ \ {u}]
      BY <1>2 DEF Kits
    <3> HIDE DEF g
    <3> QED BY <1>6, <3>1 DEF OnEnd, End, Shows, Talking, AtRest, d, h
  <2> HIDE DEF T
  <2>4. Moves(d, g, {"timers"})
    BY <1>2, <2>1, TimersMove
  <2> HIDE DEF g
  <2>5. WellKept(g) /\ Moves(g, e, {"ended"})
    <3>1. WellKept(g)
      BY <2>4 DEF Moves
    <3> QED BY <3>1, EndedMoves
  <2> HIDE DEF e
  <2>6. g.events = d.events /\ g.route = d.route /\ g.speaker = d.speaker /\ g.wired = d.wired
    BY <2>4 DEF Moves, Only, AllFields
  <2>7. e.events = d.events /\ e.route = d.route /\ e.speaker = d.speaker /\ e.wired = d.wired /\ WellKept(e)
    BY <2>5, <2>6 DEF Moves, Only, AllFields
  <2>8. SameSound(kit, g) /\ SameSound(kit, e)
    BY <1>4, <2>2, <2>6, <2>7
  <2>9. CASE Talking /\ ~Talking' /\ kit' = Torn(e)
    BY <1>1, <2>7, <2>8, <2>9, SoundEnds DEF SameSound
  <2>10. CASE (kit' = e \/ kit' = g) /\ status' = status
    <3>1. SameSound(kit, kit')
      <4>1. CASE kit' = e
        BY <2>8, <4>1
      <4>2. CASE kit' = g
        BY <2>8, <4>2
      <4> QED BY <2>10, <4>1, <4>2
    <3> QED BY <1>1, <2>10, <3>1, SoundSame DEF Talking
  <2> QED BY <2>3, <2>9, <2>10
<1>7. CASE OnVoipPush
  <2>1. /\ h.t # "route" /\ status' = status
        /\ kit' = [d EXCEPT !.timers = @ \cup ({h.u} \cap PendingUuids(kit))]
    BY <1>7 DEF OnVoipPush, IsNext, d, h
  <2>2. kit'.events = d.events /\ kit'.route = d.route /\ kit'.speaker = d.speaker /\ kit'.wired = d.wired
    BY <1>2, <2>1 DEF Kits
  <2> QED BY <1>1, <1>4, <2>1, <2>2, SoundSame DEF Talking
<1>8. CASE OnSpeakerRoute
  <2> DEFINE on == h.on
             l == SetRoute(d, on)
  <2>1. on \in BOOLEAN /\ h.t = "route" /\ status' = status
    BY <1>2, <1>8 DEF OnSpeakerRoute, IsNext, Events, h
  <2>2. kit' = IF Talking /\ kit.speaker # on THEN [l EXCEPT !.speaker = on] ELSE d
    BY <1>8 DEF OnSpeakerRoute, d, h
  <2>3. CASE ~(Talking /\ kit.speaker # on)
    <3>1. kit' = d
      BY <2>2, <2>3
    <3>2. Talking /\ NoRoute(kit') /\ RouteTrue(kit) => kit'.speaker = kit'.route
      BY <1>2, <2>1, <2>3, <3>1 DEF NoRoute
    <3>3. RouteTrue(kit) => RouteTrue(kit')
      BY <1>2, <3>1 DEF RouteTrue
    <3> QED BY <1>1, <1>2, <2>1, <3>1, <3>2, <3>3 DEF Keeps, WiredInv, SpeakerInv, Talking
  <2>4. CASE Talking /\ kit.speaker # on
    <3>1. Routed(d, l, on)
      BY <1>2, <2>1, <2>4, SetRouteSound DEF WiredInv
    <3>2. WellKept(l)
      BY <1>2, <2>1, SetRouteFacts
    <3> HIDE DEF l, on
    <3>3. Moves(l, kit', {"speaker"}) /\ kit'.speaker = on
      BY <2>1, <2>2, <2>4, <3>2, SpeakerMoves
    <3>4. kit'.events = l.events /\ kit'.route = l.route /\ kit'.wired = l.wired
      BY <3>3 DEF Moves, Only, AllFields
    <3>5. kit'.wired = kit.wired /\ kit'.speaker = kit'.route /\ (RouteTrue(kit) => RouteTrue(kit'))
      BY <1>2, <3>1, <3>3, <3>4, SameEvents DEF Routed
    <3> QED BY <1>1, <2>1, <2>4, <3>5 DEF Keeps, WiredInv, SpeakerInv, Talking
  <2> QED BY <2>3, <2>4
<1> QED BY <1>5, <1>6, <1>7, <1>8 DEF Deliver

-----------------------------------------------------------------------------
(* The theorems.                                                           *)

LEMMA SoundStep ==
    ASSUME Types, WiredInv, [KitNext]_vars
    PROVE  Keeps
<1>1. CASE UNCHANGED vars
  <2>1. UNCHANGED <<status, dir, kit>> /\ app' = app
    BY <1>1 DEF vars
  <2> QED BY <2>1, SoundStill
<1>2. CASE \E u \in Uuids \cup {None} :
             CallRings(u) \/ TapCall(u) \/ MicAnswered(u) \/ CallsCross(u) \/ UuidKnown(u)
  BY <1>2, CallsSound
<1>3. CASE \E u \in Uuids : ClaimTimeout(u) \/ Push(u) \/ SystemAnswers(u) \/ SystemEnds(u)
  BY <1>3, SystemSound
<1>4. CASE CallProgresses \/ Answer \/ CallEnds \/ Lock
  BY <1>4, ScreenSound
<1>5. CASE ToggleSpeaker \/ SystemSpeaker \/ Mount \/ Unlock
  BY <1>5, RestSound
<1>6. CASE Deliver
  BY <1>6, EventsSound
<1> QED BY <1>1, <1>2, <1>3, <1>4, <1>5, <1>6 DEF KitNext

LEMMA MirrorStep ==
    ASSUME Mirror, [KitNext]_vars
    PROVE  MirrorInv'
<1>1. CASE UNCHANGED vars
  BY <1>1 DEF vars, Mirror, MirrorInv, Held, Linked, Rings, Talking, Told, Live, PendingUuids, Reported, Current
<1>2. CASE \E u \in Uuids \cup {None} :
             CallRings(u) \/ TapCall(u) \/ MicAnswered(u) \/ CallsCross(u) \/ UuidKnown(u)
  BY <1>2, CallsMirror
<1>3. CASE \E u \in Uuids : ClaimTimeout(u) \/ Push(u) \/ SystemAnswers(u) \/ SystemEnds(u)
  BY <1>3, TimeoutMirror, PushMirror, SystemAnswersMirror, SystemEndsMirror
<1>4. CASE CallProgresses \/ Answer \/ CallEnds \/ Lock
  BY <1>4, ScreenMirror
<1>5. CASE ToggleSpeaker \/ SystemSpeaker \/ Mount \/ Unlock
  BY <1>5, RestMirror
<1>6. CASE Deliver
  BY <1>6, OnAnswerMirror, OnEndMirror, OnOthersMirror DEF Deliver
<1> QED BY <1>1, <1>2, <1>3, <1>4, <1>5, <1>6 DEF KitNext

LEMMA InvariantsInit == KitInit => WiredInv /\ SpeakerInv /\ MirrorInv
<1> SUFFICES ASSUME KitInit PROVE WiredInv /\ SpeakerInv /\ MirrorInv
  OBVIOUS
<1>1. /\ kit.native = [u \in Uuids |-> "none"] /\ kit.pending = << >> /\ kit.events = << >> /\ kit.route = FALSE
      /\ kit.uuid = None /\ kit.ended = FALSE /\ kit.waits = {} /\ ~app.unlocked /\ ~Talking
  BY DEF KitInit, Init, Talking, AtRest
<1>2. PendingUuids(kit) = {} /\ Live(kit) = {} /\ \A t : Told(kit, t) = {}
  BY <1>1 DEF PendingUuids, Live, Shown, Told
<1>3. Held(kit)
  BY <1>1, <1>2 DEF Held, Reported, Current
<1>4. Idle(kit)
  BY <1>1, <1>3 DEF Idle
<1>5. Linked(kit) /\ Rings(kit, status)
  BY <1>4, IdleMirror
<1>6. RouteTrue(kit)
  BY <1>1 DEF RouteTrue
<1> QED BY <1>1, <1>3, <1>5, <1>6 DEF WiredInv, SpeakerInv, MirrorInv

\* With nothing on the way the two call screens agree.
LEMMA MirrorShown == Mirror => Mirrored
<1> SUFFICES ASSUME Mirror, Quiet PROVE Mirrored
  BY DEF Mirrored
<1>1. /\ WellKept(kit) /\ kit \in Kits /\ Held(kit) /\ Linked(kit) /\ Rings(kit, status)
      /\ kit.events = << >> /\ kit.waits = {}
  BY RestIsIdle DEF Quiet
<1>2. Reported(kit) = {} /\ \A t : Told(kit, t) = {}
  BY <1>1 DEF Reported, Told
<1>3. Live(kit) \subseteq PendingUuids(kit) \cup Current(kit) /\ Current(kit) \subseteq Live(kit)
  BY <1>1, <1>2 DEF Held, Linked
<1>4. kit.uuid # None => Talking /\ Current(kit) = {kit.uuid}
  BY DEF Mirror, MirrorInv, Current
<1>5. kit.uuid = None => Current(kit) = {}
  BY DEF Current
<1>6. Live(kit) \subseteq PendingUuids(kit) \cup (IF Talking THEN {kit.uuid} ELSE {})
  BY <1>3, <1>4, <1>5
<1>7. kit.uuid # None =>
        /\ kit.uuid \in Live(kit) /\ Talking
        /\ kit.native[kit.uuid] = "ringing" <=> status = "incoming-ringing"
  BY <1>1, <1>2, <1>3, <1>4 DEF Rings
<1> QED BY <1>6, <1>7 DEF Mirrored

\* With nothing on the way, the system shows the call of the controller and those that wait
\* for an offer and no other, ringing on both screens or on neither: where the uuid of a
\* reported call is known before the call moves on and the loser of a glare had no native
\* call (syncCallKit, onAnswerCall, onEndCall of calls.ts; CallCenter).
THEOREM ScreensAgree == ("late" \notin Windows /\ "glare" \notin Windows) => (KitSpec => []Mirrored)
<1> SUFFICES ASSUME Calm PROVE KitSpec => []Mirrored
  BY DEF Calm
<1>1. KitInit => Mirror
  BY TypesInit, InvariantsInit DEF Mirror
<1>2. Mirror /\ [KitNext]_vars => Mirror'
  <2> SUFFICES ASSUME Mirror, [KitNext]_vars PROVE Mirror'
    OBVIOUS
  <2>1. Types' /\ WiredInv'
    BY TypesStep, SoundStep DEF Mirror, Keeps
  <2>2. MirrorInv'
    BY MirrorStep
  <2> QED BY <2>1, <2>2 DEF Mirror, Calm
<1>3. KitSpec => []Mirror
  BY <1>1, <1>2, PTL DEF KitSpec
<1> QED BY <1>3, MirrorShown, PTL

\* With nothing on the way, the speaker button of a call shows the route, whoever changed
\* it and in whatever order the two heard of it: where the loser of a glare had its speaker
\* off (setSpeaker, onSpeakerRoute and teardown of calls.ts).
THEOREM SpeakerTellsTheTruth == "glare" \notin Windows => (KitSpec => []SpeakerIsTruthful)
<1> SUFFICES ASSUME "glare" \notin Windows PROVE KitSpec => []SpeakerIsTruthful
  OBVIOUS
<1> DEFINE Inv == Types /\ WiredInv /\ SpeakerInv
<1>1. KitInit => Inv
  BY TypesInit, InvariantsInit
<1>2. Inv /\ [KitNext]_vars => Inv'
  BY TypesStep, SoundStep DEF Keeps
<1>3. Inv => SpeakerIsTruthful
  <2> SUFFICES ASSUME SpeakerInv, Quiet, Talking PROVE kit.speaker = kit.route
    BY DEF SpeakerIsTruthful
  <2>1. NoRoute(kit)
    BY DEF Quiet, NoRoute
  <2> QED BY <2>1 DEF SpeakerInv
<1>4. KitSpec => []Inv
  BY <1>1, <1>2, PTL DEF KitSpec
<1> QED BY <1>3, <1>4, PTL
=============================================================================
