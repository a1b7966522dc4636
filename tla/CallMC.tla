------------------------------- MODULE CallMC -------------------------------
(* Two phones that call each other, and the scenes of the runs. *)
EXTENDS Call

TwoCalls == <<<<"a", "b">>, <<"b", "a">>>>

Scene(calls, faults, max) == [calls |-> calls, faults |-> faults, max |-> max]

\* One call in every trouble, twice; and two calls that may cross, with one fault.
AllScenes ==
    { Scene({1}, {"ice", "late", "lock", "ack", "media", "crash"}, 2),
      Scene({1, 2}, {"ice", "media", "late"}, 1) }

LockScene == { Scene({1, 2}, {"lock"}, 1) }

CallOfA == INSTANCE CallLifecycle WITH status <- phone["a"].status, dir <- Direction("a")
CallOfB == INSTANCE CallLifecycle WITH status <- phone["b"].status, dir <- Direction("b")

\* The controller keeps the promise its mirrors are written against: a call is never shown
\* active without having been secured, the direction turns only when two calls cross, and
\* no late answer, timer or ICE event revives a call that ended (CallLifecycle).
ImplementsLifecycle == CallOfA!Spec /\ CallOfB!Spec
=============================================================================
