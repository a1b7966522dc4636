---------------------------- MODULE SendContract ----------------------------
(***************************************************************************)
(* What RelayClient.sendEnvelope promises its callers, seen from the        *)
(* callers and from the relay's store alone: no socket, no queue, no rid.    *)
(* Envelopes are numbered in the order of the calls.                         *)
(***************************************************************************)
EXTENDS Integers, Sequences

CONSTANT NumEnvelopes

VARIABLES promise, accepted

Init ==
    /\ promise = [e \in 1..NumEnvelopes |-> "none"]
    /\ accepted = <<>>

Call(e) ==
    /\ promise[e] = "none"
    /\ \A d \in 1..(e - 1) : promise[d] # "none"
    /\ promise' = [promise EXCEPT ![e] = "pending"]
    /\ UNCHANGED accepted

\* The relay stores an envelope at most once, and never one that was sent
\* before an envelope it already stored.
Accept(e) ==
    /\ promise[e] # "none"
    /\ \A i \in 1..Len(accepted) : accepted[i] < e
    /\ accepted' = Append(accepted, e)
    /\ UNCHANGED promise

\* Success is reported for stored envelopes only.
Resolve(e) ==
    /\ promise[e] = "pending"
    /\ \E i \in 1..Len(accepted) : accepted[i] = e
    /\ promise' = [promise EXCEPT ![e] = "resolved"]
    /\ UNCHANGED accepted

\* A failure says nothing: the envelope may have been stored all the same.
Reject(e) ==
    /\ promise[e] = "pending"
    /\ promise' = [promise EXCEPT ![e] = "rejected"]
    /\ UNCHANGED accepted

Next == \E e \in 1..NumEnvelopes : Call(e) \/ Accept(e) \/ Resolve(e) \/ Reject(e)

Spec == Init /\ [][Next]_<<promise, accepted>>
=============================================================================
