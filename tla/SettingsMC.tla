---------------------------- MODULE SettingsMC ------------------------------
EXTENDS Settings

Never == [p \in Phone |-> 0]
Once == [p \in Phone |-> 1]
AsksTwice == [Once EXCEPT !["a"] = 2]
RenamesTwice == [Never EXCEPT !["a"] = 2]

\* A user who asks twice against one who asks once; one request on each side
\* with a crash; two renames with two troubles.
NegotiationOrNames ==
    {[requests |-> AsksTwice, renames |-> Never, troubles |-> 0],
     [requests |-> Once, renames |-> Never, troubles |-> 1],
     [requests |-> Never, renames |-> RenamesTwice, troubles |-> 2]}
=============================================================================
