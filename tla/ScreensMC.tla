------------------------------ MODULE ScreensMC ------------------------------
(* Screens with one message row and one kind of request, one or two topics at  *)
(* a time, and none of the interleavings that break a promise of the code.     *)
EXTENDS Screens

MCAsks == {"retention"}

MCMsgs == {"m1"}

MCScenes ==
    { {"lock", "inbound"}, {"lock", "away"}, {"list", "lock"}, {"list", "inbound"}, {"inbound", "messages"},
      {"inbound", "away"}, {"requests"}, {"person"} }

MCWindows == {}
==============================================================================
