---------------------------- MODULE CallLifecycle ----------------------------
(***************************************************************************)
(* What a call controller shows the rest of the app: a status and the      *)
(* direction of the call, and the only ways they may change.  The mirrors  *)
(* of a call (the call screen, CallKit, the auto lock) rely on nothing     *)
(* else.  Call.tla shows that the controller implements it; CallKit.tla    *)
(* is written over any controller that does.                               *)
(***************************************************************************)

VARIABLES status, dir

shown == <<status, dir>>

Statuses == {"idle", "starting", "outgoing-ringing", "incoming-ringing", "connecting",
             "active", "reconnecting", "ending"}
AtRest == {"idle", "ending"}
Talking == status \notin AtRest

Shows(s, d) == status' = s /\ dir' = d

Init == status = "idle" /\ dir = "none"

\* The user places a call; an offer starts the ringing.
Place == status \in AtRest /\ Shows("starting", "out")
Ring  == status \in AtRest /\ Shows("incoming-ringing", "in")

\* The call was answered on the system's screen before it could ring here.
RingAnswered == status \in AtRest /\ Shows("connecting", "in")

Offered   == status = "starting" /\ Shows("outgoing-ringing", "out")
Accepted  == status = "outgoing-ringing" /\ Shows("connecting", "out")
Accept    == status = "incoming-ringing" /\ Shows("connecting", "in")

\* Both placed a call; this side gives way and answers the other's at once.
Crossed == status \in {"starting", "outgoing-ringing"} /\ Shows("connecting", "in")

MediaUp   == status \in {"connecting", "reconnecting"} /\ Shows("active", dir)
MediaLost == status = "active" /\ Shows("reconnecting", dir)

End    == Talking /\ Shows("ending", "none")
Rest   == status = "ending" /\ Shows("idle", "none")

\* The app lock and the end of the process leave nothing on the screen.
Vanish == Shows("idle", "none")

Next ==
    \/ Place \/ Ring \/ RingAnswered \/ Offered \/ Accepted \/ Accept \/ Crossed
    \/ MediaUp \/ MediaLost \/ End \/ Rest \/ Vanish

Spec == Init /\ [][Next]_shown

=============================================================================
