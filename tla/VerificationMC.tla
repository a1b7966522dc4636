--------------------------- MODULE VerificationMC ---------------------------
(***************************************************************************)
(* Two phones for TLC.  alice has the smaller key; a migration flips that.    *)
(***************************************************************************)
EXTENDS Verification

Keys == [d \in Phone |-> IF d = "alice" THEN <<1, 5, 6>> ELSE <<2, 3, 4>>]

\* Every disruption with a short queue, and with longer queues those under which the pair must
\* still unlock.
AllScenes ==
    { [kinds |-> {"remove", "text"}, mail |-> 1],
      [kinds |-> {"migrate", "text"}, mail |-> 1],
      [kinds |-> {"lose", "restart", "rescan"}, mail |-> 2] }
=============================================================================
