----------------------------- MODULE ChatLocks ------------------------------
(***************************************************************************)
(* The lock of one chat: lock/chat-locks.ts with the rows it seals and     *)
(* opens, next to the handlers of services/messaging.ts that store         *)
(* messages meanwhile.                                                     *)
(*                                                                         *)
(* A locked chat stores its bodies sealed with a public key; the private   *)
(* key is in the keystore, wrapped by the chat's code.  Enabling stores    *)
(* the key, sets the flag and seals the history in batches; disabling      *)
(* opens the history, clears the flag and deletes the key.  Every writer   *)
(* of a row reads the flag first and writes later.  The app lock and the   *)
(* death of the process stop whatever runs; the next start seals what a    *)
(* crash left open.                                                        *)
(***************************************************************************)
EXTENDS Integers, FiniteSets

CONSTANTS
    NumMessages,    \* messages the chat ever gets, by age
    Batch,          \* SEAL_BATCH
    MaxKeys,        \* bound: how often the lock is enabled
    MaxCrashes      \* bound: how often something is interrupted

ASSUME ChatLocksConstants ==
    /\ NumMessages \in Nat /\ MaxKeys \in Nat /\ MaxCrashes \in Nat
    /\ Batch \in Nat \ {0}

VARIABLES
    body,       \* message rows: no row, a plaintext body or the key it is sealed with
    writer,     \* the handler that stores a message: what it has read of the flag
    pubkey,     \* lock_pubkey of the conversation
    code,       \* the private key in the keystore
    released,   \* the private key in memory
    user,       \* what the user's command does next, and its key
    pass,       \* batches being sealed or opened, by the command and by the start
    keys,       \* keys generated
    crashes,
    raced       \* history: rows written by somebody who crossed a disabling

lockVars == <<body, writer, pubkey, code, released, user, pass, keys, crashes, raced>>

-----------------------------------------------------------------------------
Message == 1..NumMessages
Key == 1..MaxKeys
None == 0
Plain == 0
NoMessage == -1

Sealable == {m \in Message : body[m] = Plain}
SealedRows == {m \in Message : body[m] \in Key}

\* The oldest rows, as many as one batch takes.
Oldest(S) == {m \in S : Cardinality({n \in S : n < m}) < Batch}

Fresh == -2                     \* the message has not come
Stored == -1                    \* the handler is done, or was interrupted

Passes == {"user", "boot"}
NoPass == [key |-> None, rows |-> {}]
Commands == {"idle", "flag", "release", "seal", "open", "unflag", "forget"}
Idle == [does |-> "idle", key |-> None]
Does(what, key) == [does |-> what, key |-> key]

\* A command that takes the lock away.
Disabling == user.does \in {"open", "unflag", "forget"}

LockInit ==
    /\ body = [m \in Message |-> NoMessage]
    /\ writer = [m \in Message |-> Fresh]
    /\ pubkey = None
    /\ code = None
    /\ released = None
    /\ user = Idle
    /\ pass = [w \in Passes |-> NoPass]
    /\ keys = 0
    /\ crashes = 0
    /\ raced = {}

-----------------------------------------------------------------------------
(* sendText, sendImage, doReceiveEnvelope.                                 *)

ReadsConversation(m) ==
    /\ writer[m] = Fresh
    /\ \A n \in 1..(m - 1) : writer[n] # Fresh
    /\ writer' = [writer EXCEPT ![m] = pubkey]
    /\ UNCHANGED <<body, pubkey, code, released, user, pass, keys, crashes, raced>>

Crosses(key) == Disabling \/ key # pubkey

Inserts(m) ==
    /\ writer[m] >= None
    /\ body' = [body EXCEPT ![m] = IF writer[m] = None THEN Plain ELSE writer[m]]
    /\ writer' = [writer EXCEPT ![m] = Stored]
    /\ raced' = IF Crosses(writer[m]) THEN raced \cup {m} ELSE raced
    /\ UNCHANGED <<pubkey, code, released, user, pass, keys, crashes>>

-----------------------------------------------------------------------------
(* sealHistory, as the end of enableChatLock and for every start.          *)

ReadsPlaintext(w) ==
    /\ pass[w].key # None /\ pass[w].rows = {}
    /\ w = "user" => user.does = "seal"
    /\ IF Sealable = {}
         THEN /\ pass' = [pass EXCEPT ![w] = NoPass]
              /\ user' = IF w = "user" THEN Idle ELSE user
         ELSE /\ pass' = [pass EXCEPT ![w].rows = Oldest(Sealable)]
              /\ user' = user
    /\ UNCHANGED <<body, writer, pubkey, code, released, keys, crashes, raced>>

\* updateMessageBody writes the body the batch had, whatever the row is now.
SealsRow(w) ==
    /\ pass[w].key # None
    /\ w = "user" => user.does = "seal"
    /\ \E m \in pass[w].rows :
       /\ body' = [body EXCEPT ![m] = IF @ = NoMessage THEN NoMessage ELSE pass[w].key]
       /\ pass' = [pass EXCEPT ![w].rows = @ \ {m}]
       /\ raced' = IF Crosses(pass[w].key) THEN raced \cup {m} ELSE raced
    /\ UNCHANGED <<writer, pubkey, code, released, user, keys, crashes>>

-----------------------------------------------------------------------------
(* enableChatLock: key, flag, release, history.                            *)

StoresKey ==
    /\ user = Idle
    /\ pubkey = None
    /\ keys < MaxKeys
    /\ keys' = keys + 1
    /\ code' = keys + 1
    /\ user' = Does("flag", keys + 1)
    /\ UNCHANGED <<body, writer, pubkey, released, pass, crashes, raced>>

SetsFlag ==
    /\ user.does = "flag"
    /\ pubkey' = user.key
    /\ user' = Does("release", user.key)
    /\ UNCHANGED <<body, writer, code, released, pass, keys, crashes, raced>>

StartsSealing ==
    /\ user.does = "release"
    /\ released' = user.key
    /\ user' = Does("seal", user.key)
    /\ pass' = [pass EXCEPT !["user"] = [key |-> user.key, rows |-> {}]]
    /\ UNCHANGED <<body, writer, pubkey, code, keys, crashes, raced>>

(* unlockChatWithCode, relockChat.                                         *)

Unlocks ==
    /\ pubkey # None
    /\ code # None
    /\ released # code
    /\ released' = code
    /\ UNCHANGED <<body, writer, pubkey, code, user, pass, keys, crashes, raced>>

RelocksChat ==
    /\ user = Idle
    /\ released # None
    /\ released' = None
    /\ UNCHANGED <<body, writer, pubkey, code, user, pass, keys, crashes, raced>>

-----------------------------------------------------------------------------
(* disableChatLock: history, flag, key.                                    *)

StartsOpening ==
    /\ user = Idle
    /\ released # None
    /\ pubkey # None
    /\ user' = Does("open", released)
    /\ UNCHANGED <<body, writer, pubkey, code, released, pass, keys, crashes, raced>>

\* Fault: a batch that is not full counts as none.
ReadsSealed_FullOnly ==
    /\ user.does = "open"
    /\ pass["user"].rows = {}
    /\ IF Cardinality(SealedRows) < Batch
         THEN user' = Does("unflag", user.key) /\ pass' = pass
         ELSE user' = user /\ pass' = [pass EXCEPT !["user"].rows = Oldest(SealedRows)]
    /\ UNCHANGED <<body, writer, pubkey, code, released, keys, crashes, raced>>

ReadsSealed ==
    /\ user.does = "open"
    /\ pass["user"].rows = {}
    /\ IF SealedRows = {}
         THEN user' = Does("unflag", user.key) /\ pass' = pass
         ELSE user' = user /\ pass' = [pass EXCEPT !["user"].rows = Oldest(SealedRows)]
    /\ UNCHANGED <<body, writer, pubkey, code, released, keys, crashes, raced>>

\* A row sealed with another key does not open: the command ends there.
OpensRow ==
    /\ user.does = "open"
    /\ \E m \in pass["user"].rows :
       IF body[m] \in Key /\ body[m] # user.key
         THEN body' = body /\ user' = Idle /\ pass' = [pass EXCEPT !["user"] = NoPass]
         ELSE /\ body' = [body EXCEPT ![m] = IF @ = NoMessage THEN NoMessage ELSE Plain]
              /\ pass' = [pass EXCEPT !["user"].rows = @ \ {m}]
              /\ user' = user
    /\ UNCHANGED <<writer, pubkey, code, released, keys, crashes, raced>>

ClearsFlag ==
    /\ user.does = "unflag"
    /\ pubkey' = None
    /\ user' = Does("forget", user.key)
    /\ UNCHANGED <<body, writer, code, released, pass, keys, crashes, raced>>

DeletesKey ==
    /\ user.does = "forget"
    /\ code' = None
    /\ released' = None
    /\ user' = Idle
    /\ UNCHANGED <<body, writer, pubkey, pass, keys, crashes, raced>>

\* removeLockAndDeleteMessages, for who forgot the code.
DeletesMessages ==
    /\ user = Idle
    /\ pubkey # None
    /\ body' = [m \in Message |-> NoMessage]
    /\ user' = Does("unflag", pubkey)
    /\ UNCHANGED <<writer, pubkey, code, released, pass, keys, crashes, raced>>

-----------------------------------------------------------------------------
(* The app lock closes the database under everybody, a crash ends the      *)
(* process; the next start runs sealPendingForLockedChats.                 *)

Running == user # Idle \/ (\E w \in Passes : pass[w] # NoPass) \/ (\E m \in Message : writer[m] >= None)

\* Fault: the start seals nothing.
Restarted_NoSealing ==
    /\ writer' = [m \in Message |-> IF writer[m] >= None THEN Stored ELSE writer[m]]
    /\ released' = None
    /\ user' = Idle
    /\ pass' = [user |-> NoPass, boot |-> NoPass]
    /\ UNCHANGED <<body, pubkey, code, keys, raced>>

\* Fault: a batch survives its command.
Restarted_KeepsBatch ==
    /\ writer' = [m \in Message |-> IF writer[m] >= None THEN Stored ELSE writer[m]]
    /\ released' = None
    /\ user' = Idle
    /\ pass' = [user |-> pass["user"], boot |-> [key |-> pubkey, rows |-> {}]]
    /\ UNCHANGED <<body, pubkey, code, keys, raced>>

Restarted ==
    /\ writer' = [m \in Message |-> IF writer[m] >= None THEN Stored ELSE writer[m]]
    /\ released' = None
    /\ user' = Idle
    /\ pass' = [user |-> NoPass, boot |-> [key |-> pubkey, rows |-> {}]]
    /\ UNCHANGED <<body, pubkey, code, keys, raced>>

Crash ==
    /\ Running
    /\ crashes < MaxCrashes
    /\ crashes' = crashes + 1
    /\ Restarted

Restart ==
    /\ ~Running
    /\ crashes' = crashes
    /\ Restarted

-----------------------------------------------------------------------------
LockNext ==
    \/ \E m \in Message : ReadsConversation(m) \/ Inserts(m)
    \/ \E w \in Passes : ReadsPlaintext(w) \/ SealsRow(w)
    \/ StoresKey \/ SetsFlag \/ StartsSealing
    \/ Unlocks \/ RelocksChat
    \/ StartsOpening \/ ReadsSealed \/ OpensRow \/ ClearsFlag \/ DeletesKey
    \/ DeletesMessages
    \/ Crash \/ Restart

LockSpec == LockInit /\ [][LockNext]_lockVars

\* Awaits resolve, and the app is locked and opened again now and then.
Fairness ==
    /\ \A m \in Message : WF_lockVars(Inserts(m))
    /\ \A w \in Passes : WF_lockVars(ReadsPlaintext(w) \/ SealsRow(w))
    /\ WF_lockVars(SetsFlag \/ StartsSealing)
    /\ WF_lockVars(ReadsSealed \/ OpensRow \/ ClearsFlag \/ DeletesKey)
    /\ SF_lockVars(Restart)

FairSpec == LockSpec /\ Fairness

-----------------------------------------------------------------------------
(* What has to hold.                                                       *)

\* Types, and: a batch in hand belongs to the command that runs.
LockTypeOK ==
    /\ body \in [Message -> {NoMessage, Plain} \cup Key]
    /\ writer \in [Message -> {Fresh, Stored, None} \cup Key]
    /\ {pubkey, code, released} \subseteq {None} \cup Key
    /\ user.does \in Commands /\ user.key \in {None} \cup Key
    /\ pass \in [Passes -> [key : {None} \cup Key, rows : SUBSET Message]]
    /\ pass["user"].key # None => user.does = "seal"
    /\ pass["user"].rows # {} => user.does \in {"seal", "open"}
    /\ keys \in 0..MaxKeys /\ crashes \in 0..MaxCrashes
    /\ raced \subseteq Message

\* A sealed body can be opened: the chat is locked with that very key and the
\* keystore has it, at every moment of enabling and disabling and after every
\* crash.  Rows that were written while the lock was being taken away are
\* excepted (see AlwaysReadable).
Readable ==
    \A m \in SealedRows \ raced : body[m] = pubkey /\ body[m] = code

\* The same for all rows.  It does not hold: a message sealed by a handler that
\* read the flag before it was cleared stays sealed with a deleted key.
AlwaysReadable == \A m \in SealedRows : body[m] = pubkey /\ body[m] = code

\* A released key is the key of the chat, so that no body is opened or chat
\* disabled with another.
ReleasedFits == released # None => released = code

\* "A crash mid pass self heals" (lock/chat-locks.ts:141-143): a plaintext row
\* of a locked chat is sealed in the end, or the user takes the lock away.
SelfHeals ==
    \A m \in Message :
        (pubkey # None /\ body[m] = Plain) ~> (pubkey = None \/ body[m] # Plain \/ Disabling)

\* A disabling ends.  It does not hold: the sealing of the start and the
\* opening of the command read each other's rows batch after batch.
DisablingEnds == Disabling ~> ~Disabling

\* "Once lock_pubkey is set the receive path seals concurrent inbound"
\* (141-142): an idle locked chat shows no plaintext.  It does not hold: a
\* handler that read the flag before it was set inserts after the last batch.
LockedIsSealed ==
    pubkey # None /\ ~Running => Sealable = {}
=============================================================================
