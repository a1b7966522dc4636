------------------------------ MODULE Settings ------------------------------
(***************************************************************************)
(* What two verified phones negotiate and announce over the sealed         *)
(* channel: the retention of their conversation (screenshot protection is  *)
(* negotiated by the same code under other names) and display names;       *)
(* services/messaging.ts and services/profile.ts over db/repos.            *)
(*                                                                         *)
(* A retention change is requested by one phone and applied by both when   *)
(* the other accepts.  Each handler of the screen reads the conversation   *)
(* and writes later, so that envelopes are handled in between.  A rename   *)
(* flags the contact until the relay has accepted the announcement, and    *)
(* every connection announces to the flagged.  The outbound queue is       *)
(* memory; nothing else remembers a request, an accept or a cancel.        *)
(*                                                                         *)
(* Timeline rows are left out.  Envelopes arrive once and in order, which  *)
(* Delivery and RelayClient are about.                                     *)
(***************************************************************************)
EXTENDS Naturals, Sequences, SequencesExt

CONSTANTS
    Value,          \* the retentions that may be chosen
    Default,        \* the retention of a new conversation
    Plans           \* bounds: how often each user asks, and renames the account,
                    \* and how often a process dies or a socket is replaced

Phone == {"a", "b"}

ASSUME SettingsConstants ==
    /\ Default \notin Value
    /\ Plans \subseteq [requests : [Phone -> Nat], renames : [Phone -> Nat], troubles : Nat]

Peer(p) == CHOOSE q \in Phone : q # p

VARIABLES
    plan,       \* the bounds of this behaviour
    value,      \* the retention in force, per phone
    pending,    \* the pending request: its value and whether the peer made it
    task,       \* the handler the user started, between two of its steps
    out,        \* outbound queue of the relay client
    inbox,      \* what the relay holds for the phone
    name,       \* the account's display name, counted
    flagged,    \* name_sync_pending of the only contact
    renaming,   \* renameAccount has stored the name and flagged nobody yet
    syncs,      \* started runs of resendPendingNameSyncs
    copy,       \* the peer's name as this phone knows it
    asked,      \* requests made, in number
    troubles,
    asks,       \* history: values the user asked for
    grants,     \* history: values the user accepted
    crossed,    \* history: a request was made while one of the peer was under way
    overtaken,  \* history: an older name's acceptance cleared the flag
    lost        \* history: what died with a process and nobody sends again

negotiation == <<value, pending, task, asked, asks, grants, crossed>>
naming == <<name, renaming, flagged, syncs, copy>>
vars == <<negotiation, naming, out, inbox, troubles, overtaken, lost, plan>>

-----------------------------------------------------------------------------
Message(t, v) == [t |-> t, v |-> v]
Controls == [t : {"request", "accept", "cancel"}, v : Value \cup {Default}]
Names == [t : {"name"}, v : Nat]

NoRequest == [v |-> Default, incoming |-> FALSE]
Incoming(v) == [v |-> v, incoming |-> TRUE]
Own(v) == [v |-> v, incoming |-> FALSE]
OwnPending(p) == pending[p] # NoRequest /\ ~pending[p].incoming
PeerPending(p) == pending[p] # NoRequest /\ pending[p].incoming

NoTask == [op |-> "none", v |-> Default]
Task(op, v) == [op |-> op, v |-> v]

Init ==
    /\ plan \in Plans
    /\ value = [p \in Phone |-> Default]
    /\ pending = [p \in Phone |-> NoRequest]
    /\ task = [p \in Phone |-> NoTask]
    /\ out = [p \in Phone |-> <<>>]
    /\ inbox = [p \in Phone |-> <<>>]
    /\ name = [p \in Phone |-> 0]
    /\ flagged = [p \in Phone |-> FALSE]
    /\ renaming = [p \in Phone |-> FALSE]
    /\ syncs = [p \in Phone |-> 0]
    /\ copy = [p \in Phone |-> 0]
    /\ asked = [p \in Phone |-> 0]
    /\ troubles = 0
    /\ asks = [p \in Phone |-> {}]
    /\ grants = [p \in Phone |-> {}]
    /\ crossed = FALSE
    /\ overtaken = [p \in Phone |-> FALSE]
    /\ lost = {}

Set(f, p, x) == [f EXCEPT ![p] = x]
Sends(p, m) == out' = [out EXCEPT ![p] = Append(@, m)]

-----------------------------------------------------------------------------
(* Requests.                                                               *)

\* requestRetention up to its first write: nothing to do while the user's own
\* request is pending.
TapRequest(p, v) ==
    /\ task[p] = NoTask
    /\ asked[p] < plan.requests[p]
    /\ ~OwnPending(p)
    /\ v # value[p]
    /\ task' = Set(task, p, Task("request", v))
    /\ asked' = Set(asked, p, asked[p] + 1)
    /\ UNCHANGED <<value, pending, asks, grants, crossed, naming, out, inbox, troubles, overtaken, lost, plan>>

\* The peer has asked and this phone has not answered, or not seen it.
RequestUnderWay(p) ==
    \/ PeerPending(p)
    \/ \E m \in Range(out[Peer(p)]) \cup Range(inbox[p]) : m.t = "request"

Requests(p) ==
    /\ task[p].op = "request"
    /\ pending' = Set(pending, p, Own(task[p].v))
    /\ Sends(p, Message("request", task[p].v))
    /\ asks' = Set(asks, p, asks[p] \cup {task[p].v})
    /\ crossed' = (crossed \/ RequestUnderWay(p))
    /\ task' = Set(task, p, NoTask)
    /\ UNCHANGED <<value, asked, grants, naming, inbox, troubles, overtaken, lost, plan>>

\* The screen passes the value it shows.
TapAccept(p) ==
    /\ task[p] = NoTask
    /\ PeerPending(p)
    /\ task' = Set(task, p, Task("accept", pending[p].v))
    /\ UNCHANGED <<value, pending, asked, asks, grants, crossed, naming, out, inbox, troubles, overtaken, lost, plan>>

\* acceptRetention reads the conversation: some request of the peer must be
\* pending, not necessarily the one that was shown.
ChecksAccept(p) ==
    /\ task[p].op = "accept"
    /\ task' = Set(task, p, IF PeerPending(p) THEN Task("grant", task[p].v) ELSE NoTask)
    /\ UNCHANGED <<value, pending, asked, asks, grants, crossed, naming, out, inbox, troubles, overtaken, lost, plan>>

\* setRetention clears whatever is pending by then.
Grants(p) ==
    /\ task[p].op = "grant"
    /\ value' = Set(value, p, task[p].v)
    /\ pending' = Set(pending, p, NoRequest)
    /\ Sends(p, Message("accept", task[p].v))
    /\ grants' = Set(grants, p, grants[p] \cup {task[p].v})
    /\ task' = Set(task, p, NoTask)
    /\ UNCHANGED <<asked, asks, crossed, naming, inbox, troubles, overtaken, lost, plan>>

\* cancelRetention withdraws or declines, whatever is pending when it writes.
TapCancel(p) ==
    /\ task[p] = NoTask
    /\ pending[p] # NoRequest
    /\ task' = Set(task, p, Task("cancel", Default))
    /\ UNCHANGED <<value, pending, asked, asks, grants, crossed, naming, out, inbox, troubles, overtaken, lost, plan>>

\* Fault: the side of the pending request is not cleared with it.
Cancels_KeepsSide(p) ==
    /\ task[p].op = "cancel"
    /\ pending' = [pending EXCEPT ![p].v = Default]
    /\ Sends(p, Message("cancel", Default))
    /\ task' = Set(task, p, NoTask)
    /\ UNCHANGED <<value, asked, asks, grants, crossed, naming, inbox, troubles, overtaken, lost, plan>>

Cancels(p) ==
    /\ task[p].op = "cancel"
    /\ pending' = Set(pending, p, NoRequest)
    /\ Sends(p, Message("cancel", Default))
    /\ task' = Set(task, p, NoTask)
    /\ UNCHANGED <<value, asked, asks, grants, crossed, naming, inbox, troubles, overtaken, lost, plan>>

-----------------------------------------------------------------------------
(* Names.                                                                  *)

\* renameAccount stores the new name, then flags the contact and starts a run.
StoresName(p) ==
    /\ ~renaming[p]
    /\ name[p] < plan.renames[p]
    /\ name' = Set(name, p, name[p] + 1)
    /\ renaming' = Set(renaming, p, TRUE)
    /\ UNCHANGED <<flagged, syncs, copy, negotiation, out, inbox, troubles, overtaken, lost, plan>>

Flags(p) ==
    /\ renaming[p]
    /\ renaming' = Set(renaming, p, FALSE)
    /\ flagged' = Set(flagged, p, TRUE)
    /\ syncs' = Set(syncs, p, syncs[p] + 1)
    /\ UNCHANGED <<name, copy, negotiation, out, inbox, troubles, overtaken, lost, plan>>

\* resendPendingNameSyncs reads the account and the contacts in two queries
\* that follow each other, and sends the name to a flagged contact.
Announces(p) ==
    /\ syncs[p] > 0
    /\ syncs' = Set(syncs, p, syncs[p] - 1)
    /\ IF flagged[p] THEN Sends(p, Message("name", name[p])) ELSE out' = out
    /\ UNCHANGED <<name, renaming, flagged, copy, negotiation, inbox, troubles, overtaken, lost, plan>>

\* The relay accepts the head of the queue.  For a name the promise clears
\* the flag, also when a newer name is still queued.
ClearsFlag(p, m) == flagged' = IF m.t = "name" THEN Set(flagged, p, FALSE) ELSE flagged

Accepted(p) ==
    /\ out[p] # <<>>
    /\ LET m == Head(out[p]) IN
       /\ inbox' = [inbox EXCEPT ![Peer(p)] = Append(@, m)]
       /\ ClearsFlag(p, m)
       /\ overtaken' = Set(overtaken, p, overtaken[p] \/ (m.t = "name" /\ m.v # name[p]))
    /\ out' = Set(out, p, Tail(out[p]))
    /\ UNCHANGED <<name, renaming, syncs, copy, negotiation, troubles, lost, plan>>

\* The process dies; the next one unlocks, connects and announces.
Unrepeated(m) == m.t # "name"
Unannounced(p) == IF renaming[p] THEN {Message("name", name[p])} ELSE {}

\* Fault: the next process announces nothing.
NextRun_Silent(p) == syncs' = Set(syncs, p, 0)

\* bringOnline: the first connection starts a run.
NextRun(p) == syncs' = Set(syncs, p, 1)

Kill(p) ==
    /\ troubles < plan.troubles
    /\ troubles' = troubles + 1
    /\ lost' = lost \cup {m \in Range(out[p]) : Unrepeated(m)} \cup Unannounced(p)
    /\ out' = Set(out, p, <<>>)
    /\ task' = Set(task, p, NoTask)
    /\ renaming' = Set(renaming, p, FALSE)
    /\ NextRun(p)
    /\ UNCHANGED <<value, pending, asked, asks, grants, crossed, name, flagged, copy, inbox, overtaken, plan>>

\* A new connection of the same process starts a run, too.
Connected(p) ==
    /\ troubles < plan.troubles
    /\ troubles' = troubles + 1
    /\ syncs' = Set(syncs, p, syncs[p] + 1)
    /\ UNCHANGED <<negotiation, name, renaming, flagged, copy, out, inbox, overtaken, lost, plan>>

-----------------------------------------------------------------------------
(* Received envelopes.                                                     *)

\* Fault: a request applies without an accept.
ReceivesRequest_Applies(p, m) ==
    /\ m.t = "request"
    /\ pending' = Set(pending, p, Incoming(m.v))
    /\ value' = Set(value, p, m.v)
    /\ copy' = copy

ReceivesRequest(p, m) ==
    /\ m.t = "request"
    /\ pending' = Set(pending, p, Incoming(m.v))
    /\ UNCHANGED <<value, copy>>

\* Fault: an accept applies only while the request is still pending.
ReceivesAccept_IfPending(p, m) ==
    /\ m.t = "accept"
    /\ value' = IF OwnPending(p) THEN Set(value, p, m.v) ELSE value
    /\ pending' = Set(pending, p, NoRequest)
    /\ copy' = copy

\* An accept applies whatever this phone has pending.
ReceivesAccept(p, m) ==
    /\ m.t = "accept"
    /\ value' = Set(value, p, m.v)
    /\ pending' = Set(pending, p, NoRequest)
    /\ copy' = copy

ReceivesCancel(p, m) ==
    /\ m.t = "cancel"
    /\ pending' = Set(pending, p, NoRequest)
    /\ UNCHANGED <<value, copy>>

ReceivesName(p, m) ==
    /\ m.t = "name"
    /\ copy' = Set(copy, p, m.v)
    /\ UNCHANGED <<value, pending>>

Receive(p) ==
    /\ inbox[p] # <<>>
    /\ LET m == Head(inbox[p]) IN
       \/ ReceivesRequest(p, m)
       \/ ReceivesAccept(p, m)
       \/ ReceivesCancel(p, m)
       \/ ReceivesName(p, m)
    /\ inbox' = Set(inbox, p, Tail(inbox[p]))
    /\ UNCHANGED <<task, asked, asks, grants, crossed, name, renaming, flagged, syncs, out, troubles, overtaken, lost, plan>>

-----------------------------------------------------------------------------
Next ==
    \E p \in Phone :
        \/ \E v \in Value : TapRequest(p, v)
        \/ Requests(p)
        \/ TapAccept(p) \/ ChecksAccept(p) \/ Grants(p)
        \/ TapCancel(p) \/ Cancels(p)
        \/ StoresName(p) \/ Flags(p) \/ Announces(p)
        \/ Accepted(p) \/ Receive(p) \/ Kill(p) \/ Connected(p)

Spec == Init /\ [][Next]_vars

\* Awaits resolve, the relay takes what is queued, the peer comes online.
Fairness ==
    \A p \in Phone :
        /\ WF_vars(Flags(p)) /\ WF_vars(Announces(p))
        /\ WF_vars(Accepted(p)) /\ WF_vars(Receive(p))
        /\ WF_vars(Requests(p) \/ ChecksAccept(p) \/ Grants(p) \/ Cancels(p))

FairSpec == Spec /\ Fairness

-----------------------------------------------------------------------------
(* What has to hold.                                                       *)

\* Types, and: no phone knows a name that was not given yet.
TypeOK ==
    /\ value \in [Phone -> Value \cup {Default}]
    /\ pending \in [Phone -> {NoRequest} \cup [v : Value, incoming : BOOLEAN]]
    /\ \A p \in Phone : task[p].op \in {"none", "request", "accept", "grant", "cancel"}
    /\ \A p \in Phone : Range(out[p]) \cup Range(inbox[p]) \subseteq Controls \cup Names
    /\ \A p \in Phone : name[p] \in 0..plan.renames[p] /\ copy[Peer(p)] \in 0..name[p]
    /\ flagged \in [Phone -> BOOLEAN] /\ renaming \in [Phone -> BOOLEAN]
    /\ syncs \in [Phone -> Nat]
    /\ \A p \in Phone : asked[p] \in 0..plan.requests[p]
    /\ troubles \in 0..plan.troubles

Quiescent ==
    \A p \in Phone :
        /\ out[p] = <<>> /\ inbox[p] = <<>>
        /\ syncs[p] = 0 /\ ~renaming[p] /\ task[p] = NoTask

\* "A change is a request the other side accepts before it applies on either
\* device" (services/messaging.ts:400-401): whatever is in force was asked for
\* on one phone and accepted on the other.
ChangesByConsent ==
    \A p \in Phone : value[p] # Default =>
        \E q \in Phone : value[p] \in asks[q] /\ value[p] \in grants[Peer(q)]

ControlsLost == \E m \in lost : m.t # "name"

\* Both phones keep the same retention once nothing is under way, however
\* requests, withdrawals, declines and acceptances overtake one another, as
\* long as requests did not cross and none of the messages died in a queue.
Agreement ==
    Quiescent /\ ~crossed /\ ~ControlsLost => value["a"] = value["b"]

\* Without these exceptions it does not hold.
AlwaysAgree == Quiescent => value["a"] = value["b"]

\* A request shown as waiting on one phone is waiting on the other.  It does
\* not hold: a decline that meets a withdrawal and a second request clears the
\* latter at the phone that made it.
PendingIsMutual ==
    Quiescent /\ ~crossed /\ ~ControlsLost =>
        \A p \in Phone : OwnPending(p) <=> PeerPending(Peer(p))

\* Two ways to lose a new name: the process dies between storing and flagging,
\* or the acceptance of an older name clears the flag that a newer one had set.
NameLost(p) == overtaken[p] \/ (\E m \in lost : m.t = "name")

\* What services/profile.ts:4-8 promises: once nothing is under way the peer knows
\* the current name or the contact is flagged for the next connection.  It does
\* not hold, for those two.
NameAlwaysKnown ==
    Quiescent => \A p \in Phone : copy[Peer(p)] = name[p] \/ flagged[p]

\* A flagged contact gets the current name in the end, over crashes and
\* reconnections, with the same two exceptions.
NameArrives ==
    \A p \in Phone : flagged[p] ~> (copy[Peer(p)] = name[p] \/ NameLost(p))
=============================================================================
