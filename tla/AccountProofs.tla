---------------------------- MODULE AccountProofs ----------------------------
(***************************************************************************)
(* Account proved for any keys, any number of attempts, restarts and       *)
(* failing steps.                                                          *)
(*                                                                         *)
(* A theorem names as hypotheses the windows that must be closed for it to *)
(* hold; TLC shows it violated with each of them open.  OneScreen says     *)
(* that the key generation screen is not entered beside itself,            *)
(* ~UnlockInWipe that nobody uses the lock screen while a deletion runs,   *)
(* ~Interrupt that neither a lock nor the death of the process cuts the    *)
(* upgrade of an old store short, ~LateAnswers and ~OpenFails that a       *)
(* statement on a closed connection and the opening of the right database  *)
(* end as they should.  Types, and what may run beside what, need none.    *)
(***************************************************************************)
EXTENDS Account, SequenceTheorems, TLAPS

\* The key generation screen is not opened a second time beside itself.
OneScreen == \A g, h \in Generations : g = h

Quiet == \A g \in Generations : gen[g].pc \notin Working

-----------------------------------------------------------------------------
(* What may run beside what.                                               *)

\* The jobs by the steps they have left.
Suffix(steps, i) == SubSeq(steps, i, Len(steps))
DeleteAt(i) == job.kind = "delete" /\ job.todo = Suffix(DeleteSteps, i)
EraseAt(i) == job.kind = "erase" /\ job.todo = Suffix(EraseSteps, i)
GuardAt(i) == job.kind = "guard" /\ job.todo = Suffix(GuardSteps, i)

JobInv ==
    /\ job.kind = "none" => job = NoJob
    /\ job.kind = "delete" => \E i \in 1..8 : DeleteAt(i)
    /\ job.kind = "erase" => \E i \in 1..5 : EraseAt(i)
    /\ job.kind = "guard" => (\E i \in 1..5 : GuardAt(i)) /\ ~app.up /\ prefs /\ ~Exists
    /\ job.kind \in {"delete", "erase"} => app.up /\ app.onboarded /\ online = "idle" /\ unlock = NoUnlock
    /\ "job" \in lockers => DeleteAt(2) \/ EraseAt(4)

\* Before the app is up nothing runs but the guard.
DownInv ==
    ~app.up => /\ app = Closed /\ conn = None /\ unlock = NoUnlock /\ online = "idle"
               /\ (\A g \in Generations : gen[g] = NoGen) /\ draft = NoDraft /\ lockers = {}

\* Onboarding and the running app exclude each other.
PhaseInv ==
    /\ app.onboarded => Quiet /\ draft = NoDraft
    /\ draft.pin => Quiet
    /\ unlock.pc = "idle" => unlock = NoUnlock
    /\ unlock # NoUnlock => app.onboarded /\ job = NoJob
    /\ app.status = "unlocked" => unlock = NoUnlock
    /\ online # "idle" => app.onboarded

\* The files a generation leaves, and what the draft says of them.
GenInv(g) ==
    LET pc == gen[g].pc
        k == gen[g].key
    IN
    /\ pc \in {"open", "mark", "store", "row", "done"} => k \in Keys
    /\ pc \in {"key", "open"} => conn = None /\ file = NoFile
    /\ pc \in {"open", "mark", "store", "row"} => keystore.bio = k
    /\ pc \in {"mark", "store", "row"} => file.key = k /\ (conn = None \/ conn = k) /\ file.account = "none" /\ file.confirmed = "none"
    /\ pc \in {"mark", "store"} => file.store = "none"
    /\ pc = "row" => file.store = "native"
    /\ pc = "done" /\ draft.key # None => 
         /\ draft.key = k /\ file.key = k /\ file.store = "native" /\ file.account = "native" /\ file.confirmed = "none"
         /\ keystore.bio = k /\ (conn = None \/ conn = k)
    /\ draft.pin => pc = "done" /\ draft.key # None /\ keystore.pin = draft.key

GensInv == \A g \in Generations : GenInv(g)

\* Where the database is, and that the saved preference does not outrun it.
FileInv ==
    /\ Exists => file.key \in Keys
    /\ app.onboarded /\ job.kind # "delete" => Exists
    /\ app.up /\ ~app.onboarded /\ prefs => past.kept
    /\ draft.pin => \E g \in Generations : gen[g].pc = "done"

\* How far a deletion is when it comes to its step i.
Deleted(i) ==
    /\ i > 1 => ~app.relay /\ (past.failures = 0 => ~registered)
    /\ i > 2 => app.status = "locked" /\ conn = None /\ app.key = None /\ ~app.account
    /\ i > 3 => (past.failures = 0 => ~keystore.chat)
    /\ i < 5 => Exists
    /\ i > 4 => file = NoFile \/ (past.kept /\ past.failures > 0)
    /\ i > 5 => keystore.bio = None \/ file = NoFile \/ past.failures > 1
    /\ i > 6 => keystore.pin = None \/ file = NoFile \/ past.failures > 1

DeletionInv == \A i \in 1..8 : DeleteAt(i) => Deleted(i)

CoreInv == JobInv /\ DownInv /\ PhaseInv /\ GensInv /\ FileInv /\ DeletionInv

-----------------------------------------------------------------------------
(* After a deletion.                                                       *)

GoneInv ==
    past.gone =>
        /\ ~app.onboarded /\ Quiet /\ draft = NoDraft /\ ~app.relay /\ ~app.account
        /\ prefs => ~Exists
        /\ Exists => keystore.bio = None /\ keystore.pin = None
        /\ past.failures = 0 => ~registered /\ ~keystore.chat /\ ~prefs

FewFailures == MaxFailures <= 1 => past.failures <= 1

-----------------------------------------------------------------------------
(* The lockout.                                                            *)

\* The wrong PINs a pair of counters stands for.
Worth(c) == IF c.until THEN MaxAttempts ELSE c.failed

\* The installation is one that the next start opens with the lock screen.
Live == app.onboarded \/ (~app.up /\ prefs /\ Exists)

\* The counters are read before an unlock, and saved before the database opens.
ReadFirst ==
    /\ ~app.up => ~tries.read
    /\ ~tries.read => tries.save = << >>
    /\ unlock.pc # "idle" => tries.read /\ ~tries.now.until
    /\ unlock.pc = "open" => tries.save = << >>

\* The owner has just shown that he knows the PIN, or has just chosen it.
Trusted ==
    \/ app.onboarded /\ app.status = "unlocked"
    \/ draft.pin
    \/ job.kind \in {"delete", "erase"}
    \/ app.up /\ ~app.onboarded /\ prefs

\* Every wrong PIN is in the counters of the memory, in the save under way and
\* in the keystore, but the one that is being saved and the one of each restart.
AttemptsInv ==
    /\ AttemptsBounded /\ ReadFirst
    /\ Trusted => past.wrong = 0
    /\ app.onboarded /\ tries.read => past.wrong <= Worth(tries.now) + past.restarts
    /\ tries.save # << >> => past.wrong <= Worth(tries.save[1]) + past.restarts
    /\ Live => past.wrong <= Worth(keystore.lockout) + past.restarts
                                + (IF tries.save = << >> THEN 0 ELSE 1)

-----------------------------------------------------------------------------
(* The database and the keys that open it.                                 *)

\* The copies of the key that an installation is opened with: only the owner's
\* erasing takes them away, and only a deletion that failed leaves others.
KeysInv ==
    /\ job.kind = "erase" => past.erased
    /\ Live /\ Exists /\ ~past.kept =>
          /\ {keystore.bio, keystore.pin} \subseteq {None, file.key}
          /\ past.erased \/ (keystore.pin = file.key /\ file.account # "none")

\* Where a key generation that has come online leaves the connection.
OpenedBy(g) ==
    LET pc == gen[g].pc
        drafted == pc = "done" /\ draft.key # None
    IN
    /\ pc \in {"store", "row"} /\ conn # None => app.status = "unlocked"
    /\ (pc \in {"store", "row"} \/ drafted) /\ app.status = "unlocked" =>
          conn = gen[g].key /\ app.key = conn
    /\ drafted /\ app.status # "unlocked" => conn = None

OpenInv ==
    /\ app.status # "unlocked" => app.key = None
    /\ app.status = "locked" /\ unlock = NoUnlock /\ Quiet /\ ~(past.kept /\ app.onboarded) => conn = None
    /\ ~past.kept /\ unlock.pc = "key" => conn = None
    /\ ~past.kept /\ unlock.pc = "open" /\ conn # None => Readable /\ conn = unlock.key
    /\ ~past.kept /\ app.status = "unlocked" /\ app.onboarded => Readable /\ app.key = conn
    /\ \A g \in Generations : OpenedBy(g)

-----------------------------------------------------------------------------
(* The formats of the file.                                                *)

Sound == Exists /\ file.store = "native" /\ file.account = "native" /\ file.confirmed \in {"none", "native"}

FormatInv ==
    /\ Exists /\ ~Upgrading =>
          /\ file.confirmed \in {"none", file.account}
          /\ file.store = file.account \/ file.account = "none"
    /\ Upgrading =>
          /\ Readable /\ conn # None
          /\ file.account = IF online = "unverify" THEN "native" ELSE "js"
          /\ online = "install" => file.store = "none"
          /\ online \in {"rewrite", "unverify"} => file.store = "native"
          /\ online = "wipe" => file.store = "js"
    /\ online = "prefs" => Sound
    /\ app.relay => app.onboarded /\ Sound

-----------------------------------------------------------------------------
(* The proofs: the types.                                                  *)

Keystores == [bio : MaybeKey, pin : MaybeKey, lockout : Counters, chat : BOOLEAN]
Files == [key : MaybeKey, store : Formats, account : Formats, confirmed : Formats]
Apps == [status : {"locked", "unlocking", "unlocked"}, key : MaybeKey,
         onboarded : BOOLEAN, account : BOOLEAN, relay : BOOLEAN, up : BOOLEAN]
Tries == [now : Counters, read : BOOLEAN, save : {<< >>} \cup {<<c>> : c \in Counters}]
Unlocks == [pc : {"idle", "key", "open"}, by : {"bio", "pin"}, key : MaybeKey]
Onlines == {"idle", "look", "wipe", "install", "rewrite", "unverify", "account", "prefs"}
Gens == [pc : {"idle", "failed", "done"} \cup Working, key : MaybeKey]
Drafts == [key : MaybeKey, pin : BOOLEAN]
StepNames == {"leave", "lock", "chat", "file", "bio", "pin", "lockout", "prefs"}
Jobs == [kind : {"none", "guard", "delete", "erase"}, todo : Seq(StepNames)]
Pasts == [restarts : Nat, failures : Nat, wrong : Nat, erased : BOOLEAN, gone : BOOLEAN,
          kept : BOOLEAN]

Types ==
    /\ keystore \in Keystores /\ prefs \in BOOLEAN /\ registered \in BOOLEAN /\ conn \in MaybeKey
    /\ file \in Files /\ app \in Apps /\ tries \in Tries /\ unlock \in Unlocks
    /\ lockers \subseteq {"auto", "user", "job"} /\ online \in Onlines
    /\ gen \in [Generations -> Gens] /\ draft \in Drafts /\ job \in Jobs /\ past \in Pasts
    /\ "job" \in lockers => Doing("lock")

\* The values that the actions write as they are.
LEMMA Fixed ==
    /\ NoFile \in Files /\ NoUnlock \in Unlocks /\ NoGen \in Gens /\ NoDraft \in Drafts
    /\ NoJob \in Jobs /\ Closed \in Apps /\ NotRead \in Tries /\ Zero \in Counters
    /\ Keys \subseteq MaybeKey /\ None \in MaybeKey
    /\ {DeleteSteps, EraseSteps, GuardSteps} \subseteq Seq(StepNames)
    /\ {"none", "js", "native"} = Formats
<1>1. Zero \in Counters
  BY AccountConstants DEF Zero, Counters
<1>2. NotRead \in Tries
  BY <1>1 DEF NotRead, Tries
<1>3. {DeleteSteps, EraseSteps, GuardSteps} \subseteq Seq(StepNames)
  BY DEF DeleteSteps, EraseSteps, GuardSteps, StepNames
<1>4. NoJob \in Jobs
  BY DEF NoJob, Jobs
<1>5. NoFile \in Files /\ NoUnlock \in Unlocks /\ NoGen \in Gens /\ NoDraft \in Drafts
  BY DEF NoFile, Files, NoUnlock, Unlocks, NoGen, Gens, NoDraft, Drafts, MaybeKey, Formats
<1>6. Closed \in Apps
  BY DEF Closed, Apps, MaybeKey
<1>7. Keys \subseteq MaybeKey /\ None \in MaybeKey /\ {"none", "js", "native"} = Formats
  BY DEF MaybeKey, Formats
<1> QED BY <1>1, <1>2, <1>3, <1>4, <1>5, <1>6, <1>7

LEMMA SubSeqTyped ==
    ASSUME NEW t \in Seq(StepNames), NEW n \in Nat
    PROVE  SubSeq(t, 2 + n, Len(t)) \in Seq(StepNames)
<1>1. \A i \in (2 + n)..Len(t) : t[i] \in StepNames
  OBVIOUS
<1> QED BY <1>1, SubSeqProperties

LEMMA TailTyped ==
    ASSUME NEW t \in Seq(StepNames), t # << >>
    PROVE  Tail(t) \in Seq(StepNames)
BY HeadTailProperties

\* The end of an unlock, either way.
LEMMA UnlockedTypes ==
    ASSUME Types, NEW k \in MaybeKey, Unlocked(k)
    PROVE  /\ app' \in Apps /\ tries' \in Tries /\ unlock' \in Unlocks
           /\ online' \in Onlines /\ past' \in Pasts
<1> USE Fixed
<1>1. app' \in Apps
  BY DEF Types, Unlocked, Apps
<1>2. tries' \in Tries
  BY DEF Types, Unlocked, Counted, Tries
<1>3. unlock' \in Unlocks /\ online' \in Onlines /\ past' \in Pasts
  BY DEF Types, Unlocked, Onlines, Pasts
<1> QED BY <1>1, <1>2, <1>3

LEMMA RefusedTypes ==
    ASSUME Types, Refused
    PROVE  /\ app' \in Apps /\ tries' \in Tries /\ unlock' \in Unlocks
           /\ online' \in Onlines /\ past' \in Pasts
<1> USE Fixed
<1>1. app' \in Apps
  BY DEF Types, Refused, Apps
<1>2. tries' \in Tries
  <2> DEFINE c == IF tries.now.failed + 1 >= MaxAttempts THEN [failed |-> 0, until |-> TRUE]
                  ELSE [failed |-> tries.now.failed + 1, until |-> FALSE]
  <2>1. tries.now \in Counters
    BY DEF Types, Tries
  <2>2. c \in Counters
    BY <2>1, AccountConstants DEF Counters
  <2>3. tries' = tries \/ tries' = [tries EXCEPT !.now = c, !.save = <<c>>]
    BY DEF Refused, Counted
  <2> HIDE DEF c
  <2> QED BY <2>2, <2>3 DEF Types, Tries
<1>3. unlock' \in Unlocks /\ online' \in Onlines
  BY DEF Types, Refused, Onlines
<1>4. past' \in Pasts
  <2>1. past' = past \/ past' = [past EXCEPT !.wrong = @ + 1]
    BY DEF Refused
  <2> QED BY <2>1 DEF Types, Pasts
<1> QED BY <1>1, <1>2, <1>3, <1>4

LEMMA OpenedTypes ==
    ASSUME Types, NEW b \in BOOLEAN, Opened(b)
    PROVE  Types'
<1>1. unlock.key \in MaybeKey
  BY DEF Types, Unlocks
<1>2. Refused \/ Unlocked(unlock.key)
  BY DEF Opened
<1>3. /\ app' \in Apps /\ tries' \in Tries /\ unlock' \in Unlocks
      /\ online' \in Onlines /\ past' \in Pasts
  BY <1>1, <1>2, RefusedTypes, UnlockedTypes
<1> QED BY <1>3 DEF Types, Opened, durable, Doing

LEMMA KeyReleasedTypes ==
    ASSUME Types, NEW b \in BOOLEAN, KeyReleased(b)
    PROVE  Types'
<1>1. PICK k \in MaybeKey : k = IF unlock.by = "bio" THEN keystore.bio ELSE keystore.pin
  BY DEF Types, Keystores
<1>2. \/ Refused /\ UNCHANGED <<conn, file>>
      \/ Unlocked(k) /\ UNCHANGED <<conn, file>>
      \/ /\ conn' = k
         /\ file' = IF Exists THEN file ELSE [NoFile EXCEPT !.key = k]
         /\ unlock' = [unlock EXCEPT !.pc = "open", !.key = k]
         /\ UNCHANGED <<app, tries, online, past>>
  BY <1>1 DEF KeyReleased
<1>3. UNCHANGED <<keystore, prefs, registered, lockers, gen, draft, job>>
  BY DEF KeyReleased
<1>4. /\ app' \in Apps /\ tries' \in Tries /\ unlock' \in Unlocks
      /\ online' \in Onlines /\ past' \in Pasts /\ conn' \in MaybeKey /\ file' \in Files
  <2>1. CASE Refused /\ UNCHANGED <<conn, file>>
    BY <2>1, RefusedTypes DEF Types
  <2>2. CASE Unlocked(k) /\ UNCHANGED <<conn, file>>
    BY <2>2, UnlockedTypes DEF Types
  <2>3. ASSUME conn' = k, file' = (IF Exists THEN file ELSE [NoFile EXCEPT !.key = k]),
               unlock' = [unlock EXCEPT !.pc = "open", !.key = k], UNCHANGED <<app, tries, online, past>>
        PROVE  /\ app' \in Apps /\ tries' \in Tries /\ unlock' \in Unlocks
               /\ online' \in Onlines /\ past' \in Pasts /\ conn' \in MaybeKey /\ file' \in Files
    <3>1. unlock' \in Unlocks
      BY <2>3 DEF Types, Unlocks
    <3>2. file' \in Files
      BY <2>3, Fixed DEF Types, Files
    <3> QED BY <2>3, <3>1, <3>2 DEF Types
  <2> QED BY <1>2, <2>1, <2>2, <2>3
<1> QED BY <1>3, <1>4 DEF Types, Doing

LEMMA TypesStep ==
    ASSUME Types, Next
    PROVE  Types'
<1> USE Fixed
<1>1. CASE Boot
  <2>1. job' \in Jobs
    BY <1>1, SubSeqTyped, TailTyped DEF Types, Boot, Jobs
  <2>2. app' \in Apps
    BY <1>1 DEF Types, Boot, Apps
  <2>3. "job" \in lockers' => Doing("lock")'
    BY <1>1 DEF Types, Doing, NoJob, Boot
  <2> QED BY <1>1, <2>1, <2>2, <2>3 DEF Types, durable, Doing, Boot
<1>2. CASE Restart
  <2>1. file' \in Files
    BY <1>2 DEF Types, Restart, Files
  <2>2. conn' \in MaybeKey
    BY <1>2 DEF Types, Restart
  <2>3. app' \in Apps
    BY <1>2 DEF Types, Restart, Apps
  <2>4. tries' \in Tries
    BY <1>2 DEF Types, Restart, Tries
  <2>5. unlock' \in Unlocks
    BY <1>2 DEF Types, Restart, Unlocks
  <2>6. lockers' \subseteq {"auto", "user", "job"}
    BY <1>2 DEF Types, Restart
  <2>7. online' \in Onlines
    BY <1>2 DEF Types, Restart, Onlines
  <2>8. gen' \in [Generations -> Gens]
    BY <1>2 DEF Types, Restart, Gens, Working
  <2>9. draft' \in Drafts
    BY <1>2 DEF Types, Restart, Drafts
  <2>10. job' \in Jobs
    BY <1>2, SubSeqTyped, TailTyped DEF Types, Restart, Jobs
  <2>11. past' \in Pasts
    BY <1>2 DEF Types, Restart, Pasts
  <2>12. "job" \in lockers' => Doing("lock")'
    BY <1>2 DEF Types, Doing, NoJob, Restart
  <2> QED BY <1>2, <2>1, <2>2, <2>3, <2>4, <2>5, <2>6, <2>7, <2>8, <2>9, <2>10, <2>11, <2>12 DEF
       Types, durable, Doing, Restart
<1>3. CASE SaveLockout
  <2>1. keystore' \in Keystores
    <3>1. Head(tries.save) \in Counters
      BY <1>3 DEF Types, SaveLockout, Tries
    <3>2. PICK c \in Counters : c = Head(tries.save)
      BY <3>1
    <3>3. keystore' = [keystore EXCEPT !.lockout = c]
      BY <1>3, <3>2 DEF SaveLockout
    <3> QED BY <3>3 DEF Types, Keystores
  <2>2. tries' \in Tries
    BY <1>3 DEF Types, SaveLockout, Tries
  <2> QED BY <1>3, <2>1, <2>2 DEF Types, durable, Doing, SaveLockout
<1>4. CASE LockoutEnds
  <2>1. tries' \in Tries
    <3>1. PICK s : s = tries.save
      OBVIOUS
    <3>2. PICK n : n = [tries.now EXCEPT !.until = FALSE]
      OBVIOUS
    <3>3. n \in Counters
      BY <3>2 DEF Types, Tries, Counters
    <3>4. PICK t : t = IF s = << >> THEN << >> ELSE <<[s[1] EXCEPT !.until = FALSE]>>
      OBVIOUS
    <3>5. t \in {<< >>} \cup {<<c>> : c \in Counters}
      <4>1. s # << >> => s[1] \in Counters
        BY <3>1 DEF Types, Tries
      <4>2. s # << >> => [s[1] EXCEPT !.until = FALSE] \in Counters
        BY <4>1 DEF Counters
      <4> QED BY <3>4, <4>2
    <3>6. tries' = [tries EXCEPT !.now = n, !.save = t]
      BY <1>4, <3>1, <3>2, <3>4 DEF LockoutEnds, Types, Tries
    <3> QED BY <3>3, <3>5, <3>6 DEF Types, Tries
  <2>2. keystore' \in Keystores
    <3>1. PICK c : c = [keystore.lockout EXCEPT !.until = FALSE]
      OBVIOUS
    <3>2. c \in Counters
      BY <3>1 DEF Types, Keystores, Counters
    <3>3. keystore' = [keystore EXCEPT !.lockout = c]
      BY <1>4, <3>1 DEF LockoutEnds, Types, Keystores
    <3> QED BY <3>2, <3>3 DEF Types, Keystores
  <2>3. past' \in Pasts
    BY <1>4 DEF Types, LockoutEnds, Pasts
  <2> QED BY <1>4, <2>1, <2>2, <2>3 DEF Types, durable, Doing, LockoutEnds
<1>5. ASSUME NEW by \in {"bio", "pin"}, StartUnlock(by) PROVE Types'
  <2>1. tries' \in Tries
    <3>1. PICK c : c = IF tries.read THEN tries.now ELSE keystore.lockout
      OBVIOUS
    <3>2. c \in Counters
      BY <3>1 DEF Types, Tries, Keystores
    <3>3. tries' = [tries EXCEPT !.now = c, !.read = TRUE]
      BY <1>5, <3>1 DEF StartUnlock
    <3> QED BY <3>2, <3>3 DEF Types, Tries
  <2>2. app' \in Apps
    BY <1>5 DEF Types, StartUnlock, OnLockScreen, NoUnlock, Apps
  <2>3. unlock' \in Unlocks
    BY <1>5 DEF Types, StartUnlock, OnLockScreen, NoUnlock, Unlocks
  <2> QED BY <1>5, <2>1, <2>2, <2>3 DEF Types, durable, Doing, StartUnlock, OnLockScreen, NoUnlock
<1>6. ASSUME NEW b \in BOOLEAN, KeyReleased(b) PROVE Types'
  BY <1>6, KeyReleasedTypes
<1>7. ASSUME NEW b \in BOOLEAN, Opened(b) PROVE Types'
  BY <1>7, OpenedTypes
<1>8. ASSUME NEW c \in {"auto", "user"}, Lock(c) PROVE Types'
  <2>1. lockers' \subseteq {"auto", "user", "job"}
    BY <1>8 DEF Types, Lock
  <2>2. "job" \in lockers' => Doing("lock")'
    BY <1>8 DEF Types, Doing, NoJob, Lock
  <2> QED BY <1>8, <2>1, <2>2 DEF Types, durable, Doing, Lock
<1>9. ASSUME NEW c \in {"auto", "user", "job"}, Locked(c) PROVE Types'
  <2>1. lockers' \subseteq {"auto", "user", "job"}
    BY <1>9 DEF Types, Locked
  <2>2. conn' \in MaybeKey
    BY <1>9 DEF Types, Locked
  <2>3. app' \in Apps
    BY <1>9 DEF Types, Locked, Apps
  <2>4. job' \in Jobs
    <3>1. CASE c = "job"
      <4>1. job.todo \in Seq(StepNames) /\ job.todo # << >>
        BY <1>9, <3>1 DEF Types, Locked, Doing, Jobs
      <4>2. PICK t \in Seq(StepNames) : t = Tail(job.todo)
        BY <4>1, TailTyped
      <4> QED BY <1>9, <3>1, <4>2 DEF Types, Locked, Jobs
    <3>2. CASE c # "job"
      BY <1>9, <3>2 DEF Types, Locked
    <3> QED BY <3>1, <3>2
  <2>5. "job" \in lockers' => Doing("lock")'
    BY <1>9 DEF Types, Doing, NoJob, Locked
  <2> QED BY <1>9, <2>1, <2>2, <2>3, <2>4, <2>5 DEF Types, durable, Doing, Locked
<1>10. CASE Online
  <2>1. app' \in Apps
    BY <1>10 DEF Types, Online, OnlineStep, Apps
  <2>2. online' \in Onlines
    BY <1>10 DEF Types, Online, OnlineStep, Onlines
  <2>3. file' \in Files
    BY <1>10 DEF Types, Online, OnlineStep, Files
  <2> QED BY <1>10, <2>1, <2>2, <2>3 DEF Types, durable, Doing, Online, OnlineStep
<1>11. CASE Register
  <2>1. registered' \in BOOLEAN
    BY <1>11 DEF Types, Register
  <2> QED BY <1>11, <2>1 DEF Types, durable, Doing, Register
<1>12. ASSUME NEW g \in Generations, StartGeneration(g) PROVE Types'
  <2>1. gen' \in [Generations -> Gens]
    BY <1>12 DEF Types, StartGeneration, Gens, Working
  <2>2. draft' \in Drafts
    BY <1>12 DEF Types, StartGeneration, Drafts
  <2>3. past' \in Pasts
    BY <1>12 DEF Types, StartGeneration, Pasts
  <2> QED BY <1>12, <2>1, <2>2, <2>3 DEF Types, durable, Doing, StartGeneration
<1>13. ASSUME NEW g \in Generations, DeleteOld(g) PROVE Types'
  <2>1. gen' \in [Generations -> Gens]
    BY <1>13 DEF Types, DeleteOld, At, NewApp, Gens, Working
  <2>2. conn' \in MaybeKey
    BY <1>13 DEF Types, DeleteOld, At, NewApp
  <2>3. file' \in Files
    BY <1>13 DEF Types, DeleteOld, At, NewApp, Files
  <2> QED BY <1>13, <2>1, <2>2, <2>3 DEF Types, durable, Doing, DeleteOld, At, NewApp
<1>14. ASSUME NEW g \in Generations, Provision(g) PROVE Types'
  <2>1. gen' \in [Generations -> Gens]
    BY <1>14 DEF Types, Provision, At, NewApp, FreshKey, Gens, Working
  <2>2. keystore' \in Keystores
    BY <1>14 DEF Types, Provision, At, NewApp, FreshKey, Keystores
  <2> QED BY <1>14, <2>1, <2>2 DEF Types, durable, Doing, Provision, At, NewApp, FreshKey
<1>15. ASSUME NEW g \in Generations, OpenNew(g) PROVE Types'
  <2>1. gen' \in [Generations -> Gens]
    BY <1>15 DEF Types, OpenNew, At, NewApp, Gens, Working
  <2>2. conn' \in MaybeKey
    BY <1>15 DEF Types, OpenNew, At, NewApp, Gens
  <2>3. file' \in Files
    <3>1. PICK k \in MaybeKey : k = gen[g].key
      BY DEF Types, Gens
    <3>2. file' = file \/ file' = [NoFile EXCEPT !.key = k]
      BY <1>15, <3>1 DEF OpenNew
    <3> QED BY <3>2 DEF Types, Files
  <2> QED BY <1>15, <2>1, <2>2, <2>3 DEF Types, durable, Doing, OpenNew, At, NewApp
<1>16. ASSUME NEW g \in Generations, MarkUnlocked(g) PROVE Types'
  <2>1. gen' \in [Generations -> Gens]
    <3>1. PICK pc : gen' = [gen EXCEPT ![g].pc = pc] /\ pc \in {"idle", "failed", "done"} \cup Working
      BY <1>16 DEF MarkUnlocked, At, Working
    <3>2. [gen[g] EXCEPT !.pc = pc] \in Gens
      BY <3>1 DEF Types, Gens
    <3> QED BY <3>1, <3>2 DEF Types
  <2>2. app' \in Apps
    <3>1. PICK k \in MaybeKey : k = gen[g].key
      BY DEF Types, Gens
    <3>2. app' = app \/ app' = [app EXCEPT !.status = "unlocked", !.key = k]
      BY <1>16, <3>1 DEF MarkUnlocked, NewApp
    <3> QED BY <3>2 DEF Types, Apps
  <2> QED BY <1>16, <2>1, <2>2 DEF Types, durable, Doing, MarkUnlocked, At, NewApp
<1>17. ASSUME NEW g \in Generations, InstallIdentity(g) PROVE Types'
  <2>1. gen' \in [Generations -> Gens]
    <3>1. PICK pc : gen' = [gen EXCEPT ![g].pc = pc] /\ pc \in {"idle", "failed", "done"} \cup Working
      BY <1>17 DEF InstallIdentity, Provisioned, At, Working
    <3>2. [gen[g] EXCEPT !.pc = pc] \in Gens
      BY <3>1 DEF Types, Gens
    <3> QED BY <3>1, <3>2 DEF Types
  <2>2. file' \in Files
    BY <1>17 DEF Types, InstallIdentity, Provisioned, At, NewApp, Files
  <2> QED BY <1>17, <2>1, <2>2 DEF Types, durable, Doing, InstallIdentity, Provisioned, At, NewApp
<1>18. ASSUME NEW g \in Generations, StoreAccount(g) PROVE Types'
  <2>1. gen' \in [Generations -> Gens]
    <3>1. PICK pc : gen' = [gen EXCEPT ![g].pc = pc] /\ pc \in {"idle", "failed", "done"} \cup Working
      BY <1>18 DEF StoreAccount, Provisioned, At, Working
    <3>2. [gen[g] EXCEPT !.pc = pc] \in Gens
      BY <3>1 DEF Types, Gens
    <3> QED BY <3>1, <3>2 DEF Types
  <2>2. file' \in Files
    BY <1>18 DEF Types, StoreAccount, Provisioned, At, NewApp, Files
  <2>3. draft' \in Drafts
    <3>1. gen[g].key \in MaybeKey
      BY DEF Types, Gens
    <3> QED BY <1>18, <3>1 DEF Types, StoreAccount, Drafts
  <2> QED BY <1>18, <2>1, <2>2, <2>3 DEF Types, durable, Doing, StoreAccount, Provisioned, At,
       NewApp
<1>19. CASE SetPin
  <2>1. keystore' \in Keystores
    <3>1. draft.key \in MaybeKey
      BY DEF Types, Drafts
    <3> QED BY <1>19, <3>1 DEF Types, SetPin, Keystores
  <2>2. draft' \in Drafts
    BY <1>19 DEF Types, SetPin, OnPinScreen, Drafts
  <2>3. past' \in Pasts
    BY <1>19 DEF Types, SetPin, OnPinScreen, Pasts
  <2> QED BY <1>19, <2>1, <2>2, <2>3 DEF Types, durable, Doing, SetPin, OnPinScreen
<1>20. CASE Complete
  <2>1. app' \in Apps
    BY <1>20 DEF Types, Complete, Apps
  <2>2. online' \in Onlines
    BY <1>20 DEF Types, Complete, Onlines
  <2>3. draft' \in Drafts
    BY <1>20 DEF Types, Complete, Drafts
  <2>4. past' \in Pasts
    BY <1>20 DEF Types, Complete, Pasts
  <2> QED BY <1>20, <2>1, <2>2, <2>3, <2>4 DEF Types, durable, Doing, Complete
<1>21. CASE SavePrefs
  <2>1. prefs' \in BOOLEAN
    BY <1>21 DEF Types, SavePrefs
  <2> QED BY <1>21, <2>1 DEF Types, durable, Doing, SavePrefs
<1>22. ASSUME NEW kind \in {"delete", "erase"}, StartWipe(kind) PROVE Types'
  <2>1. job' \in Jobs
    BY <1>22, SubSeqTyped, TailTyped DEF Types, StartWipe, Jobs
  <2>2. past' \in Pasts
    BY <1>22 DEF Types, StartWipe, Pasts
  <2>3. "job" \in lockers' => Doing("lock")'
    BY <1>22 DEF Types, Doing, NoJob, StartWipe
  <2> QED BY <1>22, <2>1, <2>2, <2>3 DEF Types, durable, Doing, StartWipe
<1>23. CASE Leave
  <2>1. job' \in Jobs
    BY <1>23, SubSeqTyped, TailTyped DEF Types, Leave, Doing, Next1, Jobs
  <2>2. registered' \in BOOLEAN
    BY <1>23 DEF Types, Leave, Doing, Next1
  <2>3. past' \in Pasts
    <3>1. past' = past \/ past' = [past EXCEPT !.failures = @ + 1]
      BY <1>23 DEF Leave, Types, Pasts
    <3> QED BY <3>1 DEF Types, Pasts
  <2>4. app' \in Apps
    BY <1>23 DEF Types, Leave, Doing, Next1, Apps
  <2>5. "job" \in lockers' => Doing("lock")'
    BY <1>23 DEF Types, Doing, NoJob, Leave, Next1
  <2> QED BY <1>23, <2>1, <2>2, <2>3, <2>4, <2>5 DEF Types, durable, Doing, Leave, Next1
<1>24. CASE JobLock
  <2>1. lockers' \subseteq {"auto", "user", "job"}
    BY <1>24 DEF Types, JobLock
  <2>2. "job" \in lockers' => Doing("lock")'
    BY <1>24 DEF Types, Doing, NoJob, JobLock
  <2> QED BY <1>24, <2>1, <2>2 DEF Types, durable, Doing, JobLock
<1>25. CASE WipeSecret
  <2>1. keystore' \in Keystores
    BY <1>25 DEF Types, WipeSecret, Doing, Next1, Keystores
  <2>2. job' \in Jobs
    BY <1>25, SubSeqTyped, TailTyped DEF Types, WipeSecret, Doing, Next1, Jobs
  <2>3. "job" \in lockers' => Doing("lock")'
    BY <1>25 DEF Types, Doing, NoJob, WipeSecret, Next1
  <2> QED BY <1>25, <2>1, <2>2, <2>3 DEF Types, durable, Doing, WipeSecret, Next1
<1>26. CASE WipeFile
  <2>1. job' \in Jobs
    BY <1>26, SubSeqTyped, TailTyped DEF Types, WipeFile, Doing, Next1, Jobs
  <2>2. conn' \in MaybeKey
    BY <1>26 DEF Types, WipeFile, Doing, Next1
  <2>3. file' \in Files
    BY <1>26 DEF Types, WipeFile, Doing, Next1, Files
  <2>4. "job" \in lockers' => Doing("lock")'
    BY <1>26 DEF Types, Doing, NoJob, WipeFile, Next1
  <2> QED BY <1>26, <2>1, <2>2, <2>3, <2>4 DEF Types, durable, Doing, WipeFile, Next1
<1>27. CASE WipePrefs
  <2>1. job' \in Jobs
    BY <1>27, SubSeqTyped, TailTyped DEF Types, WipePrefs, Doing, Jobs
  <2>2. prefs' \in BOOLEAN
    BY <1>27 DEF Types, WipePrefs, Doing
  <2>3. app' \in Apps
    BY <1>27 DEF Types, WipePrefs, Doing, Apps
  <2>4. past' \in Pasts
    BY <1>27 DEF Types, WipePrefs, Doing, Pasts
  <2>5. "job" \in lockers' => Doing("lock")'
    BY <1>27 DEF Types, Doing, NoJob, WipePrefs
  <2> QED BY <1>27, <2>1, <2>2, <2>3, <2>4, <2>5 DEF Types, durable, Doing, WipePrefs
<1>28. CASE Erased
  <2>1. job' \in Jobs
    BY <1>28, SubSeqTyped, TailTyped DEF Types, Erased, Jobs
  <2>2. "job" \in lockers' => Doing("lock")'
    BY <1>28 DEF Types, Doing, NoJob, Erased
  <2> QED BY <1>28, <2>1, <2>2 DEF Types, durable, Doing, Erased
<1>29. CASE StepFails
  <2>1. job' \in Jobs
    <3>1. job.todo \in Seq(StepNames)
      BY DEF Types, Jobs
    <3>2. PICK n \in {0, 1, 2} : Next1(n) \/ job' = NoJob
      BY <1>29 DEF StepFails
    <3>3. PICK t \in Seq(StepNames) : t = SubSeq(job.todo, 2 + n, Len(job.todo))
      BY <3>1, SubSeqTyped
    <3>4. CASE Next1(n)
      BY <3>3, <3>4 DEF Next1, Types, Jobs
    <3> QED BY <3>2, <3>4
  <2>2. app' \in Apps
    BY <1>29 DEF Types, StepFails, Doing, Next1, Apps
  <2>3. past' \in Pasts
    <3>1. PICK p \in BOOLEAN : Doing("prefs") <=> p
      BY Zenon
    <3>2. PICK q \in BOOLEAN : past.kept \/ Doing("file") \/ Doing("prefs") <=> q
      BY Zenon
    <3>3. past' = [past EXCEPT !.failures = @ + 1, !.gone = p, !.kept = q]
      <4>1. Doing("prefs") = p
        BY <3>1 DEF Doing
      <4>2. (past.kept \/ Doing("file") \/ Doing("prefs")) = q
        BY <3>2 DEF Doing
      <4>3. past' = [past EXCEPT !.failures = @ + 1, !.gone = Doing("prefs"),
                                !.kept = @ \/ Doing("file") \/ Doing("prefs")]
        BY <1>29 DEF StepFails
      <4> QED BY <4>1, <4>2, <4>3
    <3>4. past.failures + 1 \in Nat
      BY DEF Types, Pasts
    <3>5. PICK f \in Nat : f = past.failures + 1
      BY <3>4
    <3>6. past' = [past EXCEPT !.failures = f, !.gone = p, !.kept = q]
      BY <3>3, <3>5
    <3> QED BY <3>6 DEF Types, Pasts
  <2>4. "job" \in lockers' => Doing("lock")'
    BY <1>29 DEF Types, Doing, NoJob, StepFails, Next1
  <2> QED BY <1>29, <2>1, <2>2, <2>3, <2>4 DEF Types, durable, Doing, StepFails, Next1
<1> QED BY <1>1, <1>2, <1>3, <1>4, <1>5, <1>6, <1>7, <1>8, <1>9, <1>10, <1>11, <1>12, <1>13, <1>14,
     <1>15, <1>16, <1>17, <1>18, <1>19, <1>20, <1>21, <1>22, <1>23, <1>24, <1>25, <1>26, <1>27,
     <1>28, <1>29 DEF Next

LEMMA TypesInductive ==
    /\ Init => Types
    /\ Types /\ [Next]_vars => Types'
    /\ Types => TypeOK
<1>1. Init => Types
  <2>1. SUFFICES ASSUME Init PROVE Types
    OBVIOUS
  <2>2. PICK i : /\ file = InitialFile(i)
                 /\ prefs = (i # "new") /\ registered = (i # "new")
                 /\ keystore = LET k == IF i = "new" THEN None ELSE KeyOfOld
                               IN  [bio |-> k, pin |-> k, lockout |-> Zero, chat |-> i # "new"]
    BY <2>1 DEF Init
  <2>3. KeyOfOld \in Keys
    BY AccountConstants DEF KeyOfOld
  <2>4. keystore \in Keystores
    BY <2>2, <2>3, Fixed DEF Keystores
  <2>5. file \in Files
    BY <2>2, <2>3, Fixed DEF InitialFile, Rows, Files
  <2>6. past \in Pasts
    BY <2>1 DEF Init, Pasts
  <2>7. gen \in [Generations -> Gens]
    BY <2>1, Fixed DEF Init
  <2>8. Doing("lock") \in BOOLEAN /\ lockers = {}
    BY <2>1 DEF Init, Doing
  <2> QED BY <2>1, <2>2, <2>4, <2>5, <2>6, <2>7, <2>8, Fixed DEF Types, Init, Onlines
<1>2. Types /\ [Next]_vars => Types'
  <2>1. Types /\ UNCHANGED vars => Types'
    BY DEF Types, vars, Doing
  <2> QED BY <2>1, TypesStep
<1>3. Types => TypeOK
  BY DEF Types, TypeOK, Keystores, Files, Apps, Tries, Unlocks, Onlines, Gens, Drafts, Jobs, Pasts
<1> QED BY <1>1, <1>2, <1>3

\* Every state of every behaviour has the types of its variables.
THEOREM TypeCorrect == Spec => []TypeOK
BY TypesInductive, PTL DEF Spec

-----------------------------------------------------------------------------
(* The steps a job has left.                                               *)

LEMMA SuffixIs ==
    ASSUME NEW s \in Seq(StepNames), NEW i \in 1..Len(s)
    PROVE  /\ Suffix(s, i) \in Seq(StepNames) /\ Suffix(s, i) # << >>
           /\ Len(Suffix(s, i)) = Len(s) + 1 - i
           /\ Head(Suffix(s, i)) = s[i] /\ Tail(Suffix(s, i)) = Suffix(s, i + 1)
           /\ \A n \in Nat : i + 1 + n \in 1..Len(s) =>
                 SubSeq(Suffix(s, i), 2 + n, Len(Suffix(s, i))) = Suffix(s, i + 1 + n)
<1>1. /\ Suffix(s, i) \in Seq(StepNames)
      /\ Len(Suffix(s, i)) = Len(s) + 1 - i
  <2>1. \A j \in i..Len(s) : s[j] \in StepNames
    OBVIOUS
  <2> QED BY <2>1, SubSeqProperties DEF Suffix
<1>2. Head(Suffix(s, i)) = s[i] /\ Tail(Suffix(s, i)) = Suffix(s, i + 1)
  BY HeadTailOfSubSeq DEF Suffix
<1>3. ASSUME NEW n \in Nat, i + 1 + n \in 1..Len(s)
      PROVE  SubSeq(Suffix(s, i), 2 + n, Len(Suffix(s, i))) = Suffix(s, i + 1 + n)
  <2>1. PICK j \in 1..Len(s) : j = Len(s)
    BY <1>3
  <2>2. 2 + n \in 1..j - i + 1 /\ j - i + 1 \in 1..j - i + 1
    BY <1>3, <2>1
  <2>3. SubSeq(SubSeq(s, i, j), 2 + n, j - i + 1) = SubSeq(s, i + (2 + n) - 1, i + (j - i + 1) - 1)
    BY <2>2, SubSeqOfSubSeq
  <2>4. i + (2 + n) - 1 = i + 1 + n /\ i + (j - i + 1) - 1 = j /\ j - i + 1 = Len(s) + 1 - i
    BY <2>1
  <2> QED BY <1>1, <2>1, <2>3, <2>4 DEF Suffix
<1>4. Suffix(s, i) # << >>
  BY <1>1
<1> QED BY <1>1, <1>2, <1>3, <1>4

LEMMA Steps ==
    /\ Len(DeleteSteps) = 8 /\ Len(EraseSteps) = 4 /\ Len(GuardSteps) = 5
    /\ DeleteSteps[1] = "leave" /\ DeleteSteps[2] = "lock" /\ DeleteSteps[3] = "chat"
    /\ DeleteSteps[4] = "file" /\ DeleteSteps[5] = "bio" /\ DeleteSteps[6] = "pin"
    /\ DeleteSteps[7] = "lockout" /\ DeleteSteps[8] = "prefs"
    /\ EraseSteps[1] = "bio" /\ EraseSteps[2] = "pin" /\ EraseSteps[3] = "lockout" /\ EraseSteps[4] = "lock"
    /\ GuardSteps[1] = "bio" /\ GuardSteps[2] = "pin" /\ GuardSteps[3] = "lockout"
    /\ GuardSteps[4] = "chat" /\ GuardSteps[5] = "prefs"
BY DEF DeleteSteps, EraseSteps, GuardSteps

\* Where a deletion stands decides its step, and where it goes from there.
LEMMA DeleteMoves ==
    ASSUME Types, NEW i \in 1..8, DeleteAt(i)
    PROVE  /\ \A s : Doing(s) <=> s = DeleteSteps[i]
           /\ \A n \in Nat : i + 1 + n \in 1..8 /\ Next1(n) => DeleteAt(i + 1 + n)'
           /\ \A j \in 1..8 : DeleteAt(j) => i = j
           /\ i < 8 /\ job' = [job EXCEPT !.todo = Tail(@)] => DeleteAt(i + 1)'
<1>1. PICK t : t = job.todo
  OBVIOUS
<1>2. t = Suffix(DeleteSteps, i) /\ job.kind = "delete"
  BY <1>1 DEF DeleteAt
<1>3. DeleteSteps \in Seq(StepNames) /\ Len(DeleteSteps) = 8
  BY Fixed, Steps
<1>4. /\ t # << >> /\ Len(t) = 9 - i /\ Head(t) = DeleteSteps[i]
      /\ Tail(t) = Suffix(DeleteSteps, i + 1)
      /\ \A n \in Nat : i + 1 + n \in 1..8 => SubSeq(t, 2 + n, Len(t)) = Suffix(DeleteSteps, i + 1 + n)
  <2>1. i \in 1..Len(DeleteSteps)
    BY <1>3
  <2>2. /\ t # << >> /\ Len(t) = Len(DeleteSteps) + 1 - i /\ Head(t) = DeleteSteps[i]
        /\ Tail(t) = Suffix(DeleteSteps, i + 1)
        /\ \A n \in Nat : i + 1 + n \in 1..Len(DeleteSteps) =>
              SubSeq(t, 2 + n, Len(t)) = Suffix(DeleteSteps, i + 1 + n)
    BY <1>2, <1>3, <2>1, SuffixIs
  <2> QED BY <2>2, <1>3
<1>5. \A s : Doing(s) <=> s = DeleteSteps[i]
  BY <1>1, <1>4 DEF Doing
<1>6. ASSUME NEW n \in Nat, i + 1 + n \in 1..8, Next1(n) PROVE DeleteAt(i + 1 + n)'
  BY <1>1, <1>2, <1>4, <1>6 DEF Next1, DeleteAt, Types, Jobs, Suffix
<1>7. ASSUME NEW j \in 1..8, DeleteAt(j) PROVE i = j
  <2>1. Len(t) = 9 - j
    <3>1. j \in 1..Len(DeleteSteps) /\ t = Suffix(DeleteSteps, j)
      BY <1>1, <1>3, <1>7 DEF DeleteAt
    <3>2. Len(Suffix(DeleteSteps, j)) = Len(DeleteSteps) + 1 - j
      BY <1>3, <3>1, SuffixIs
    <3> QED BY <1>3, <3>1, <3>2
  <2> QED BY <1>4, <2>1
<1>8. ASSUME i < 8, job' = [job EXCEPT !.todo = Tail(@)] PROVE DeleteAt(i + 1)'
  BY <1>1, <1>2, <1>4, <1>8 DEF DeleteAt, Types, Jobs, Suffix
<1> QED BY <1>5, <1>6, <1>7, <1>8

LEMMA GuardMoves ==
    ASSUME Types, NEW i \in 1..5, GuardAt(i)
    PROVE  /\ \A s : Doing(s) <=> s = GuardSteps[i]
           /\ \A n \in Nat : i + 1 + n \in 1..5 /\ Next1(n) => GuardAt(i + 1 + n)'
           /\ \A j \in 1..5 : GuardAt(j) => i = j
           /\ i < 5 /\ job' = [job EXCEPT !.todo = Tail(@)] => GuardAt(i + 1)'
<1>1. PICK t : t = job.todo
  OBVIOUS
<1>2. t = Suffix(GuardSteps, i) /\ job.kind = "guard"
  BY <1>1 DEF GuardAt
<1>3. GuardSteps \in Seq(StepNames) /\ Len(GuardSteps) = 5
  BY Fixed, Steps
<1>4. /\ t # << >> /\ Len(t) = 6 - i /\ Head(t) = GuardSteps[i]
      /\ Tail(t) = Suffix(GuardSteps, i + 1)
      /\ \A n \in Nat : i + 1 + n \in 1..5 => SubSeq(t, 2 + n, Len(t)) = Suffix(GuardSteps, i + 1 + n)
  <2>1. i \in 1..Len(GuardSteps)
    BY <1>3
  <2>2. /\ t # << >> /\ Len(t) = Len(GuardSteps) + 1 - i /\ Head(t) = GuardSteps[i]
        /\ Tail(t) = Suffix(GuardSteps, i + 1)
        /\ \A n \in Nat : i + 1 + n \in 1..Len(GuardSteps) =>
              SubSeq(t, 2 + n, Len(t)) = Suffix(GuardSteps, i + 1 + n)
    BY <1>2, <1>3, <2>1, SuffixIs
  <2> QED BY <2>2, <1>3
<1>5. \A s : Doing(s) <=> s = GuardSteps[i]
  BY <1>1, <1>4 DEF Doing
<1>6. ASSUME NEW n \in Nat, i + 1 + n \in 1..5, Next1(n) PROVE GuardAt(i + 1 + n)'
  BY <1>1, <1>2, <1>4, <1>6 DEF Next1, GuardAt, Types, Jobs, Suffix
<1>7. ASSUME NEW j \in 1..5, GuardAt(j) PROVE i = j
  <2>1. Len(t) = 6 - j
    <3>1. j \in 1..Len(GuardSteps) /\ t = Suffix(GuardSteps, j)
      BY <1>1, <1>3, <1>7 DEF GuardAt
    <3>2. Len(Suffix(GuardSteps, j)) = Len(GuardSteps) + 1 - j
      BY <1>3, <3>1, SuffixIs
    <3> QED BY <1>3, <3>1, <3>2
  <2> QED BY <1>4, <2>1
<1>8. ASSUME i < 5, job' = [job EXCEPT !.todo = Tail(@)] PROVE GuardAt(i + 1)'
  BY <1>1, <1>2, <1>4, <1>8 DEF GuardAt, Types, Jobs, Suffix
<1> QED BY <1>5, <1>6, <1>7, <1>8

LEMMA EraseMoves ==
    ASSUME Types, NEW i \in 1..4, EraseAt(i)
    PROVE  /\ \A s : Doing(s) <=> s = EraseSteps[i]
           /\ \A n \in Nat : i + 1 + n \in 1..4 /\ Next1(n) => EraseAt(i + 1 + n)'
           /\ \A j \in 1..4 : EraseAt(j) => i = j
           /\ job' = [job EXCEPT !.todo = Tail(@)] => EraseAt(i + 1)'
<1>1. PICK t : t = job.todo
  OBVIOUS
<1>2. t = Suffix(EraseSteps, i) /\ job.kind = "erase"
  BY <1>1 DEF EraseAt
<1>3. EraseSteps \in Seq(StepNames) /\ Len(EraseSteps) = 4
  BY Fixed, Steps
<1>4. /\ t # << >> /\ Len(t) = 5 - i /\ Head(t) = EraseSteps[i]
      /\ Tail(t) = Suffix(EraseSteps, i + 1)
      /\ \A n \in Nat : i + 1 + n \in 1..4 => SubSeq(t, 2 + n, Len(t)) = Suffix(EraseSteps, i + 1 + n)
  <2>1. i \in 1..Len(EraseSteps)
    BY <1>3
  <2>2. /\ t # << >> /\ Len(t) = Len(EraseSteps) + 1 - i /\ Head(t) = EraseSteps[i]
        /\ Tail(t) = Suffix(EraseSteps, i + 1)
        /\ \A n \in Nat : i + 1 + n \in 1..Len(EraseSteps) =>
              SubSeq(t, 2 + n, Len(t)) = Suffix(EraseSteps, i + 1 + n)
    BY <1>2, <1>3, <2>1, SuffixIs
  <2> QED BY <2>2, <1>3
<1>5. \A s : Doing(s) <=> s = EraseSteps[i]
  BY <1>1, <1>4 DEF Doing
<1>6. ASSUME NEW n \in Nat, i + 1 + n \in 1..4, Next1(n) PROVE EraseAt(i + 1 + n)'
  BY <1>1, <1>2, <1>4, <1>6 DEF Next1, EraseAt, Types, Jobs, Suffix
<1>7. ASSUME NEW j \in 1..4, EraseAt(j) PROVE i = j
  <2>1. Len(t) = 5 - j
    <3>1. j \in 1..Len(EraseSteps) /\ t = Suffix(EraseSteps, j)
      BY <1>1, <1>3, <1>7 DEF EraseAt
    <3>2. Len(Suffix(EraseSteps, j)) = Len(EraseSteps) + 1 - j
      BY <1>3, <3>1, SuffixIs
    <3> QED BY <1>3, <3>1, <3>2
  <2> QED BY <1>4, <2>1
<1>8. ASSUME job' = [job EXCEPT !.todo = Tail(@)] PROVE EraseAt(i + 1)'
  BY <1>1, <1>2, <1>4, <1>8 DEF EraseAt, Types, Jobs, Suffix
<1> QED BY <1>5, <1>6, <1>7, <1>8

\* The step under way tells which job it belongs to and how far that is.
LEMMA Positions ==
    ASSUME Types, JobInv
    PROVE  /\ Doing("leave") => DeleteAt(1)
           /\ Doing("lock") => DeleteAt(2) \/ EraseAt(4)
           /\ Doing("chat") => DeleteAt(3) \/ GuardAt(4)
           /\ Doing("file") => DeleteAt(4)
           /\ Doing("bio") => DeleteAt(5) \/ EraseAt(1) \/ GuardAt(1)
           /\ Doing("pin") => DeleteAt(6) \/ EraseAt(2) \/ GuardAt(2)
           /\ Doing("lockout") => DeleteAt(7) \/ EraseAt(3) \/ GuardAt(3)
           /\ Doing("prefs") => DeleteAt(8) \/ GuardAt(5)
           /\ job.kind = "none" => \A s : ~Doing(s)
<1>1. job.kind \in {"none", "delete", "erase", "guard"}
  BY DEF Types, Jobs
<1>2. CASE job.kind = "none"
  BY <1>2 DEF JobInv, NoJob, Doing
<1>3. CASE job.kind = "delete"
  <2>1. PICK i \in 1..8 : DeleteAt(i)
    BY <1>3 DEF JobInv
  <2>2. \A s : Doing(s) <=> s = DeleteSteps[i]
    BY <2>1, DeleteMoves
  <2> QED BY <1>3, <2>1, <2>2, Steps
<1>4. CASE job.kind = "guard"
  <2>1. PICK i \in 1..5 : GuardAt(i)
    BY <1>4 DEF JobInv
  <2>2. \A s : Doing(s) <=> s = GuardSteps[i]
    BY <2>1, GuardMoves
  <2> QED BY <1>4, <2>1, <2>2, Steps
<1>5. CASE job.kind = "erase"
  <2>1. PICK i \in 1..5 : EraseAt(i)
    BY <1>5 DEF JobInv
  <2>2. CASE i \in 1..4
    <3>1. \A s : Doing(s) <=> s = EraseSteps[i]
      BY <2>1, <2>2, EraseMoves
    <3> QED BY <1>5, <2>1, <2>2, <3>1, Steps
  <2>3. CASE i = 5
    <3>1. job.todo = SubSeq(EraseSteps, 5, 4)
      BY <2>1, <2>3, Steps DEF EraseAt, Suffix
    <3>2. job.todo = << >>
      BY <3>1, SubSeqEmpty
    <3> QED BY <1>5, <3>2 DEF Doing
  <2> QED BY <2>1, <2>2, <2>3
<1> QED BY <1>1, <1>2, <1>3, <1>4, <1>5

\* An unlock, bringOnline and a key generation run on a started app without a job.
LEMMA Alone ==
    ASSUME Types, CoreInv
    PROVE  /\ unlock.pc # "idle" => app.up /\ app.onboarded /\ job = NoJob
           /\ online # "idle" => app.up /\ app.onboarded /\ job = NoJob
           /\ \A g \in Generations : gen[g].pc \in Working => app.up /\ ~app.onboarded /\ job = NoJob
           /\ app.onboarded => app.up
           /\ draft.key # None => app.up /\ ~app.onboarded /\ job = NoJob
           /\ job.kind = "none" => job = NoJob
           /\ job = NoJob => "job" \notin lockers
<1>1. app.onboarded => app.up
  BY DEF CoreInv, DownInv, Closed
<1>2. job.kind \in {"none", "guard", "delete", "erase"}
  BY DEF Types, Jobs
<1>3. app.up /\ (~app.onboarded \/ online # "idle" \/ unlock # NoUnlock) => job = NoJob
  BY <1>2 DEF CoreInv, JobInv
<1>4. unlock.pc # "idle" => app.up /\ app.onboarded /\ job = NoJob
  BY <1>1, <1>3 DEF CoreInv, PhaseInv, NoUnlock
<1>5. online # "idle" => app.up /\ app.onboarded /\ job = NoJob
  BY <1>1, <1>3 DEF CoreInv, PhaseInv
<1>6. ASSUME NEW g \in Generations, gen[g].pc \in Working
      PROVE  app.up /\ ~app.onboarded /\ job = NoJob
  <2>1. app.up
    BY <1>6 DEF CoreInv, DownInv, NoGen, Working
  <2>2. ~app.onboarded
    BY <1>6 DEF CoreInv, PhaseInv, Quiet
  <2> QED BY <1>3, <2>1, <2>2
<1>7. draft.key # None => app.up /\ ~app.onboarded /\ job = NoJob
  BY <1>3 DEF CoreInv, DownInv, PhaseInv, NoDraft
<1>8. job.kind = "none" => job = NoJob
  BY DEF CoreInv, JobInv
<1>9. job = NoJob => "job" \notin lockers
  BY DEF CoreInv, JobInv, NoJob, DeleteAt, EraseAt
<1> QED BY <1>1, <1>4, <1>5, <1>6, <1>7, <1>8, <1>9

LEMMA NoJobLeft ==
    ASSUME job' = NoJob, "job" \notin lockers'
    PROVE  JobInv'
BY DEF JobInv, NoJob

LEMMA JobGoesOn ==
    ASSUME Types, JobInv, job.kind \in {"delete", "erase"}, job'.kind = job.kind,
           (\E i \in 1..8 : DeleteAt(i)') \/ (\E i \in 1..5 : EraseAt(i)'),
           app'.up = app.up, app'.onboarded = app.onboarded, UNCHANGED <<online, unlock>>,
           "job" \in lockers' => DeleteAt(2)' \/ EraseAt(4)'
    PROVE  JobInv'
BY DEF JobInv, DeleteAt, EraseAt

LEMMA GuardGoesOn ==
    ASSUME Types, JobInv, NEW i \in 1..5, GuardAt(i)', job.kind = "guard",
           UNCHANGED <<app, prefs, file, lockers>>, "job" \notin lockers
    PROVE  JobInv'
BY DEF JobInv, GuardAt, Exists

\* What a job may run beside.
LEMMA JobInvStep ==
    ASSUME Types, CoreInv, OneScreen, ~UnlockInWipe, Next
    PROVE  JobInv'
<1>0. ASSUME UNCHANGED <<job, app, prefs, file, online, unlock, lockers>> PROVE JobInv'
  BY <1>0 DEF Types, CoreInv, JobInv, DeleteAt, EraseAt, GuardAt, Exists
<1>1. CASE Boot
  <2>1. job = NoJob /\ "job" \notin lockers
    BY <1>1, Alone DEF Boot
  <2>2. CASE prefs /\ ~Exists
    <3>1. Suffix(GuardSteps, 1) = GuardSteps
      BY Fixed, SubSeqFull DEF Suffix
    <3>2. GuardAt(1)'
      BY <1>1, <2>2, <3>1 DEF Boot, GuardAt, Suffix
    <3> QED BY <1>1, <2>1, <2>2, <3>2 DEF Boot, JobInv, Exists, durable
  <2>3. CASE ~(prefs /\ ~Exists)
    BY <1>1, <2>1, <2>3, NoJobLeft DEF Boot
  <2> QED BY <2>2, <2>3
<1>2. CASE Restart
  BY <1>2, NoJobLeft DEF Restart
<1>3. CASE SaveLockout
  BY <1>0, <1>3 DEF SaveLockout, durable
<1>4. CASE LockoutEnds
  BY <1>0, <1>4 DEF LockoutEnds, durable
<1>5. ASSUME NEW by \in {"bio", "pin"}, StartUnlock(by) PROVE JobInv'
  <2>1. job = NoJob /\ "job" \notin lockers
    BY <1>5, Alone DEF StartUnlock, OnLockScreen, NoUnlock
  <2> QED BY <1>5, <2>1, NoJobLeft DEF StartUnlock, OnLockScreen, NoUnlock, durable
<1>6. ASSUME NEW b \in BOOLEAN, KeyReleased(b) PROVE JobInv'
  <2>1. job = NoJob /\ "job" \notin lockers
    BY <1>6, Alone DEF KeyReleased, Refused, Unlocked, Counted, NoUnlock, Working
  <2> QED BY <1>6, <2>1, NoJobLeft DEF KeyReleased, Refused, Unlocked, Counted, NoUnlock, durable
<1>7. ASSUME NEW b \in BOOLEAN, Opened(b) PROVE JobInv'
  <2>1. job = NoJob /\ "job" \notin lockers
    BY <1>7, Alone DEF Opened, Refused, Unlocked, Counted, NoUnlock, Answered, Readable, Working
  <2> QED BY <1>7, <2>1, NoJobLeft DEF Opened, Refused, Unlocked, Counted, NoUnlock, Answered, Readable, durable
<1>8. ASSUME NEW c \in {"auto", "user"}, Lock(c) PROVE JobInv'
  BY <1>8 DEF Types, CoreInv, JobInv, DeleteAt, EraseAt, GuardAt, Exists, Lock, durable
<1>9. ASSUME NEW c \in {"auto", "user", "job"}, Locked(c) PROVE JobInv'
  <2>1. CASE c = "job"
    <3>1. DeleteAt(2) \/ EraseAt(4)
      BY <1>9, <2>1 DEF Locked, CoreInv, JobInv
    <3>2. job' = [job EXCEPT !.todo = Tail(@)] /\ "job" \notin lockers'
      BY <1>9, <2>1 DEF Locked
    <3>3. DeleteAt(3)' \/ EraseAt(5)'
      <4>1. DeleteAt(2) => DeleteAt(3)'
        BY <3>2, DeleteMoves
      <4>2. EraseAt(4) => EraseAt(5)'
        BY <3>2, EraseMoves
      <4> QED BY <3>1, <4>1, <4>2
    <3>4. job'.kind = job.kind /\ job.kind \in {"delete", "erase"}
      BY <3>1, <3>2 DEF Types, Jobs, DeleteAt, EraseAt
    <3>5. app'.up = app.up /\ app'.onboarded = app.onboarded /\ UNCHANGED <<online, unlock>>
      BY <1>9 DEF Locked, Types, Apps
    <3>6. JobInv
      BY DEF CoreInv
    <3> QED BY <3>2, <3>3, <3>4, <3>5, <3>6, JobGoesOn
  <2>2. CASE c # "job"
    <3>1. UNCHANGED <<job, prefs, file, online, unlock>>
      BY <1>9, <2>2 DEF Locked, durable
    <3>2. app'.up = app.up /\ app'.onboarded = app.onboarded /\ ("job" \in lockers' => "job" \in lockers)
      BY <1>9 DEF Locked, Types, Apps
    <3> QED BY <3>1, <3>2 DEF CoreInv, JobInv, DeleteAt, EraseAt, GuardAt, Exists
  <2> QED BY <2>1, <2>2
<1>10. CASE Online
  <2>1. job = NoJob /\ "job" \notin lockers
    BY <1>10, Alone DEF Online, OnlineStep, Readable, Working
  <2> QED BY <1>10, <2>1, NoJobLeft DEF Online, OnlineStep, Readable, durable
<1>11. CASE Register
  BY <1>0, <1>11 DEF Register, durable
<1>12. ASSUME NEW g \in Generations, StartGeneration(g) PROVE JobInv'
  BY <1>0, <1>12 DEF StartGeneration, durable
<1>13. ASSUME NEW g \in Generations, DeleteOld(g) PROVE JobInv'
  BY <1>13 DEF Types, CoreInv, JobInv, DeleteAt, EraseAt, GuardAt, Exists, DeleteOld, At, NewApp,
     durable
<1>14. ASSUME NEW g \in Generations, Provision(g) PROVE JobInv'
  BY <1>0, <1>14 DEF Provision, At, NewApp, FreshKey, durable
<1>15. ASSUME NEW g \in Generations, OpenNew(g) PROVE JobInv'
  <2>1. job = NoJob /\ "job" \notin lockers
    BY <1>15, Alone DEF OpenNew, At, NewApp, Working
  <2> QED BY <1>15, <2>1, NoJobLeft DEF OpenNew, At, NewApp, durable
<1>16. ASSUME NEW g \in Generations, MarkUnlocked(g) PROVE JobInv'
  <2>1. job = NoJob /\ "job" \notin lockers
    BY <1>16, Alone DEF MarkUnlocked, At, NewApp, Answered, Readable, Working
  <2> QED BY <1>16, <2>1, NoJobLeft DEF MarkUnlocked, At, NewApp, Answered, Readable, durable
<1>17. ASSUME NEW g \in Generations, InstallIdentity(g) PROVE JobInv'
  BY <1>17 DEF Types, CoreInv, JobInv, DeleteAt, EraseAt, GuardAt, Exists, InstallIdentity,
     Provisioned, At, NewApp, Readable, durable
<1>18. ASSUME NEW g \in Generations, StoreAccount(g) PROVE JobInv'
  BY <1>18 DEF Types, CoreInv, JobInv, DeleteAt, EraseAt, GuardAt, Exists, StoreAccount,
     Provisioned, At, NewApp, Readable, durable
<1>19. CASE SetPin
  BY <1>0, <1>19 DEF SetPin, OnPinScreen, durable
<1>20. CASE Complete
  BY <1>20 DEF Types, CoreInv, JobInv, DeleteAt, EraseAt, GuardAt, Exists, Complete,
     OnCompleteScreen, durable
<1>21. CASE SavePrefs
  BY <1>21 DEF Types, CoreInv, JobInv, DeleteAt, EraseAt, GuardAt, Exists, SavePrefs, durable
<1>22. ASSUME NEW kind \in {"delete", "erase"}, StartWipe(kind) PROVE JobInv'
  <2>1. "job" \notin lockers /\ app.up /\ app.onboarded /\ unlock = NoUnlock /\ online = "idle"
    BY <1>22, Alone DEF StartWipe, InTabs, CoreInv, PhaseInv
  <2>2. Suffix(DeleteSteps, 1) = DeleteSteps /\ Suffix(EraseSteps, 1) = EraseSteps
    BY Fixed, SubSeqFull DEF Suffix
  <2>3. \/ kind = "delete" /\ DeleteAt(1)'
        \/ kind = "erase" /\ EraseAt(1)'
    BY <1>22, <2>2 DEF StartWipe, DeleteAt, EraseAt, Suffix
  <2>4. job'.kind = kind /\ UNCHANGED <<app, online, unlock, lockers>>
    BY <1>22 DEF StartWipe
  <2> QED BY <2>1, <2>3, <2>4 DEF JobInv
<1>23. CASE Leave
  <2>1. DeleteAt(1) /\ Next1(0)
    BY <1>23, Positions DEF Leave, CoreInv
  <2>2. DeleteAt(2)'
    BY <2>1, DeleteMoves
  <2>3. job'.kind = job.kind /\ job.kind = "delete" /\ "job" \notin lockers
    BY <1>23, <2>1, <2>2, DeleteMoves, Steps DEF Types, DeleteAt, Leave, Doing
  <2>4. app'.up = app.up /\ app'.onboarded = app.onboarded /\ UNCHANGED <<online, unlock, lockers>>
    BY <1>23 DEF Leave, Types, Apps
  <2> QED BY <2>2, <2>3, <2>4, JobGoesOn DEF CoreInv
<1>24. CASE JobLock
  <2>1. DeleteAt(2) \/ EraseAt(4)
    BY <1>24, Positions DEF JobLock, CoreInv
  <2> QED BY <1>24, <2>1 DEF JobLock, durable, CoreInv, JobInv, DeleteAt, EraseAt, GuardAt, Exists
<1>25. CASE WipeSecret
  <2>1. PICK s \in {"bio", "pin", "lockout", "chat"} : Doing(s)
    BY <1>25 DEF WipeSecret
  <2>2. "job" \notin lockers /\ Next1(0) /\ UNCHANGED <<app, prefs, file, online, unlock, lockers>>
    BY <1>25, <2>1 DEF WipeSecret, Types, Doing
  <2>3. \/ \E i \in {3, 5, 6, 7} : DeleteAt(i)
        \/ \E i \in {1, 2, 3} : EraseAt(i)
        \/ \E i \in {1, 2, 3, 4} : GuardAt(i)
    BY <2>1, Positions DEF CoreInv
  <2>4. ASSUME NEW i \in {3, 5, 6, 7}, DeleteAt(i) PROVE JobInv'
    <3>1. DeleteAt(i + 1)' /\ i + 1 \in 1..8
      BY <2>2, <2>4, DeleteMoves
    <3> QED BY <2>2, <2>4, <3>1, JobGoesOn DEF CoreInv, DeleteAt
  <2>5. ASSUME NEW i \in {1, 2, 3}, EraseAt(i) PROVE JobInv'
    <3>1. EraseAt(i + 1)' /\ i + 1 \in 1..5
      BY <2>2, <2>5, EraseMoves
    <3> QED BY <2>2, <2>5, <3>1, JobGoesOn DEF CoreInv, EraseAt
  <2>6. ASSUME NEW i \in {1, 2, 3, 4}, GuardAt(i) PROVE JobInv'
    <3>1. GuardAt(i + 1)' /\ i + 1 \in 1..5
      BY <2>2, <2>6, GuardMoves
    <3> QED BY <2>2, <2>6, <3>1, GuardGoesOn DEF CoreInv, GuardAt
  <2> QED BY <2>3, <2>4, <2>5, <2>6
<1>26. CASE WipeFile
  <2>1. DeleteAt(4) /\ Next1(0)
    BY <1>26, Positions DEF WipeFile, CoreInv
  <2>2. DeleteAt(5)'
    BY <2>1, DeleteMoves
  <2>3. "job" \notin lockers' /\ UNCHANGED <<app, online, unlock>>
    BY <1>26 DEF WipeFile, Types, Doing
  <2> QED BY <2>1, <2>2, <2>3, JobGoesOn DEF CoreInv, DeleteAt
<1>27. CASE WipePrefs
  BY <1>27, NoJobLeft DEF WipePrefs, Types, Doing
<1>28. CASE Erased
  BY <1>28, NoJobLeft DEF Erased, Types, Doing
<1>29. CASE StepFails
  <2>1. "job" \notin lockers' /\ UNCHANGED <<online, unlock>>
    BY <1>29 DEF StepFails, Types, Doing
  <2>2. CASE Doing("prefs")
    BY <1>29, <2>1, <2>2, NoJobLeft DEF StepFails, Doing
  <2>3. CASE ~Doing("prefs")
    <3>1. PICK s \in {"chat", "file", "lockout", "bio", "pin"}, n \in 0..2 :
             /\ Doing(s) /\ Next1(n) /\ n = IF s = "bio" THEN 2 ELSE IF s = "pin" THEN 1 ELSE 0
      BY <1>29, <2>3 DEF StepFails
    <3>2. PICK i \in {3, 4, 5, 6, 7} : DeleteAt(i)
      BY <1>29, <3>1, Positions DEF StepFails, CoreInv, EraseAt, GuardAt
    <3>3. i + 1 + n \in 1..8
      <4>1. s = DeleteSteps[i]
        BY <3>1, <3>2, DeleteMoves
      <4> QED BY <3>1, <4>1, Steps
    <3>4. DeleteAt(i + 1 + n)'
      BY <3>1, <3>2, <3>3, DeleteMoves
    <3>5. UNCHANGED app
      BY <1>29, <2>3 DEF StepFails
    <3> QED BY <2>1, <3>2, <3>3, <3>4, <3>5, JobGoesOn DEF CoreInv, DeleteAt
  <2> QED BY <2>2, <2>3
<1> QED BY <1>1, <1>2, <1>3, <1>4, <1>5, <1>6, <1>7, <1>8, <1>9, <1>10, <1>11, <1>12, <1>13, <1>14,
     <1>15, <1>16, <1>17, <1>18, <1>19, <1>20, <1>21, <1>22, <1>23, <1>24, <1>25, <1>26, <1>27,
     <1>28, <1>29 DEF Next

\* Before the start is done nothing runs.
LEMMA DownInvStep ==
    ASSUME Types, CoreInv, Next
    PROVE  DownInv'
<1>0. ASSUME UNCHANGED <<app, conn, unlock, online, gen, draft, lockers>> PROVE DownInv'
  BY <1>0 DEF Types, CoreInv, DownInv, Closed, NoUnlock, NoGen, NoDraft
<1>1. CASE Boot
  BY <1>1 DEF Boot, durable, CoreInv, DownInv, Types, Apps, Closed
<1>2. CASE Restart
  BY <1>2 DEF Restart, Upgrading, durable, DownInv
<1>3. CASE SaveLockout
  BY <1>0, <1>3 DEF SaveLockout, durable
<1>4. CASE LockoutEnds
  BY <1>0, <1>4 DEF LockoutEnds, durable
<1>5. ASSUME NEW by \in {"bio", "pin"}, StartUnlock(by) PROVE DownInv'
  <2>1. app.up
    BY <1>5, Alone DEF StartUnlock, OnLockScreen, NoUnlock
  <2>2. app'.up
    BY <1>5, <2>1 DEF StartUnlock, OnLockScreen, NoUnlock, durable, Types, Apps
  <2> QED BY <2>2 DEF DownInv
<1>6. ASSUME NEW b \in BOOLEAN, KeyReleased(b) PROVE DownInv'
  <2>1. app.up
    BY <1>6, Alone DEF KeyReleased, Refused, Unlocked, Counted, NoUnlock, Working
  <2>2. app'.up
    BY <1>6, <2>1 DEF KeyReleased, Refused, Unlocked, Counted, NoUnlock, durable, Types, Apps
  <2> QED BY <2>2 DEF DownInv
<1>7. ASSUME NEW b \in BOOLEAN, Opened(b) PROVE DownInv'
  <2>1. app.up
    BY <1>7, Alone DEF Opened, Refused, Unlocked, Counted, NoUnlock, Answered, Readable, Working
  <2>2. app'.up
    BY <1>7, <2>1 DEF Opened, Refused, Unlocked, Counted, NoUnlock, Answered, Readable, durable, Types, Apps
  <2> QED BY <2>2 DEF DownInv
<1>8. ASSUME NEW c \in {"auto", "user"}, Lock(c) PROVE DownInv'
  <2>1. app.up
    BY <1>8, Alone DEF Lock
  <2>2. app'.up
    BY <1>8, <2>1 DEF Lock, durable, Types, Apps
  <2> QED BY <2>2 DEF DownInv
<1>9. ASSUME NEW c \in {"auto", "user", "job"}, Locked(c) PROVE DownInv'
  <2>1. app.up
    BY <1>9, Alone DEF Locked, Upgrading, CoreInv, DownInv
  <2>2. app'.up
    BY <1>9, <2>1 DEF Locked, Upgrading, durable, Types, Apps
  <2> QED BY <2>2 DEF DownInv
<1>10. CASE Online
  <2>1. app.up
    BY <1>10, Alone DEF Online, OnlineStep, Readable, Working
  <2>2. app'.up
    BY <1>10, <2>1 DEF Online, OnlineStep, Readable, durable, Types, Apps
  <2> QED BY <2>2 DEF DownInv
<1>11. CASE Register
  BY <1>0, <1>11 DEF Register, durable
<1>12. ASSUME NEW g \in Generations, StartGeneration(g) PROVE DownInv'
  <2>1. app.up
    BY <1>12, Alone DEF StartGeneration
  <2>2. app'.up
    BY <1>12, <2>1 DEF StartGeneration, durable, Types, Apps
  <2> QED BY <2>2 DEF DownInv
<1>13. ASSUME NEW g \in Generations, DeleteOld(g) PROVE DownInv'
  <2>1. app.up
    BY <1>13, Alone DEF DeleteOld, At, NewApp, Working
  <2>2. app'.up
    BY <1>13, <2>1 DEF DeleteOld, At, NewApp, durable, Types, Apps
  <2> QED BY <2>2 DEF DownInv
<1>14. ASSUME NEW g \in Generations, Provision(g) PROVE DownInv'
  <2>1. app.up
    BY <1>14, Alone DEF Provision, At, NewApp, FreshKey, Working
  <2>2. app'.up
    BY <1>14, <2>1 DEF Provision, At, NewApp, FreshKey, durable, Types, Apps
  <2> QED BY <2>2 DEF DownInv
<1>15. ASSUME NEW g \in Generations, OpenNew(g) PROVE DownInv'
  <2>1. app.up
    BY <1>15, Alone DEF OpenNew, At, NewApp, Working
  <2>2. app'.up
    BY <1>15, <2>1 DEF OpenNew, At, NewApp, durable, Types, Apps
  <2> QED BY <2>2 DEF DownInv
<1>16. ASSUME NEW g \in Generations, MarkUnlocked(g) PROVE DownInv'
  <2>1. app.up
    BY <1>16, Alone DEF MarkUnlocked, At, NewApp, Answered, Readable, Working
  <2>2. app'.up
    BY <1>16, <2>1 DEF MarkUnlocked, At, NewApp, Answered, Readable, durable, Types, Apps
  <2> QED BY <2>2 DEF DownInv
<1>17. ASSUME NEW g \in Generations, InstallIdentity(g) PROVE DownInv'
  <2>1. app.up
    BY <1>17, Alone DEF InstallIdentity, Provisioned, At, NewApp, Readable, Working
  <2>2. app'.up
    BY <1>17, <2>1 DEF InstallIdentity, Provisioned, At, NewApp, Readable, durable, Types, Apps
  <2> QED BY <2>2 DEF DownInv
<1>18. ASSUME NEW g \in Generations, StoreAccount(g) PROVE DownInv'
  <2>1. app.up
    BY <1>18, Alone DEF StoreAccount, Provisioned, At, NewApp, Readable, Working
  <2>2. app'.up
    BY <1>18, <2>1 DEF StoreAccount, Provisioned, At, NewApp, Readable, durable, Types, Apps
  <2> QED BY <2>2 DEF DownInv
<1>19. CASE SetPin
  <2>1. app.up
    BY <1>19, Alone DEF SetPin, OnPinScreen
  <2>2. app'.up
    BY <1>19, <2>1 DEF SetPin, OnPinScreen, durable, Types, Apps
  <2> QED BY <2>2 DEF DownInv
<1>20. CASE Complete
  <2>1. app.up
    BY <1>20, Alone DEF Complete, OnCompleteScreen, CoreInv, PhaseInv, DownInv, NoDraft
  <2>2. app'.up
    BY <1>20, <2>1 DEF Complete, OnCompleteScreen, durable, Types, Apps
  <2> QED BY <2>2 DEF DownInv
<1>21. CASE SavePrefs
  BY <1>0, <1>21 DEF SavePrefs, durable
<1>22. ASSUME NEW kind \in {"delete", "erase"}, StartWipe(kind) PROVE DownInv'
  BY <1>0, <1>22 DEF StartWipe, InTabs, durable
<1>23. CASE Leave
  <2>1. app.up
    BY <1>23, Positions DEF Leave, Doing, Next1, CoreInv, JobInv, DeleteAt
  <2>2. app'.up
    BY <1>23, <2>1 DEF Leave, Doing, Next1, durable, Types, Apps
  <2> QED BY <2>2 DEF DownInv
<1>24. CASE JobLock
  <2>1. app.up
    BY <1>24, Positions DEF JobLock, Doing, CoreInv, JobInv, DeleteAt, EraseAt
  <2>2. app'.up
    BY <1>24, <2>1 DEF JobLock, Doing
  <2> QED BY <2>2 DEF DownInv
<1>25. CASE WipeSecret
  BY <1>0, <1>25 DEF WipeSecret, Doing, Next1, durable
<1>26. CASE WipeFile
  <2>1. app.up
    BY <1>26, Positions DEF WipeFile, Doing, Next1, CoreInv, JobInv, DeleteAt
  <2>2. app'.up
    BY <1>26, <2>1 DEF WipeFile, Doing, Next1, durable, Types, Apps
  <2> QED BY <2>2 DEF DownInv
<1>27. CASE WipePrefs
  BY <1>27 DEF Types, CoreInv, DownInv, Closed, NoUnlock, NoGen, NoDraft, WipePrefs, Doing, durable
<1>28. CASE Erased
  BY <1>0, <1>28 DEF Erased, durable
<1>29. CASE StepFails
  <2>1. app.up
    BY <1>29, Positions DEF StepFails, Doing, Next1, CoreInv, JobInv
  <2>2. app'.up
    BY <1>29, <2>1 DEF StepFails, Doing, Next1, durable, Types, Apps
  <2> QED BY <2>2 DEF DownInv
<1> QED BY <1>1, <1>2, <1>3, <1>4, <1>5, <1>6, <1>7, <1>8, <1>9, <1>10, <1>11, <1>12, <1>13, <1>14,
     <1>15, <1>16, <1>17, <1>18, <1>19, <1>20, <1>21, <1>22, <1>23, <1>24, <1>25, <1>26, <1>27,
     <1>28, <1>29 DEF Next

LEMMA PhaseKept ==
    ASSUME Types, CoreInv, UNCHANGED <<gen, draft, unlock, online>>,
           app'.onboarded => app.onboarded, app'.status = "unlocked" => app.status = "unlocked",
           unlock # NoUnlock => app'.onboarded /\ job' = NoJob,
           online # "idle" => app'.onboarded
    PROVE  PhaseInv'
BY DEF CoreInv, PhaseInv, Quiet, Working

LEMMA JobAlone ==
    ASSUME Types, CoreInv, job # NoJob
    PROVE  unlock = NoUnlock /\ online = "idle" /\ draft.key = None
BY Alone DEF CoreInv, PhaseInv

\* Onboarding and the running app stay apart.
LEMMA PhaseInvStep ==
    ASSUME Types, CoreInv, OneScreen, ~UnlockInWipe, Next
    PROVE  PhaseInv'
<1>0. ASSUME UNCHANGED <<app, gen, draft, unlock, job, online>> PROVE PhaseInv'
  BY <1>0 DEF Types, CoreInv, PhaseInv, Quiet, Working
<1>1. CASE Boot
  <2>1. /\ app = Closed /\ unlock = NoUnlock /\ online = "idle" /\ draft = NoDraft
        /\ \A g \in Generations : gen[g] = NoGen
    BY <1>1 DEF Boot, CoreInv, DownInv
  <2>2. app'.status = "locked" /\ UNCHANGED <<unlock, online, draft, gen>>
    <3>1. app'.status = app.status /\ UNCHANGED <<unlock, online, draft, gen>>
      BY <1>1 DEF Boot, Types, Apps
    <3> QED BY <2>1, <3>1 DEF Closed
  <2> QED BY <2>1, <2>2 DEF PhaseInv, Quiet, NoGen, NoDraft, Working
<1>2. CASE Restart
  BY <1>2 DEF Restart, Upgrading, PhaseInv, Quiet, NoGen, NoDraft, Working, Closed
<1>3. CASE SaveLockout
  BY <1>0, <1>3 DEF SaveLockout, durable
<1>4. CASE LockoutEnds
  BY <1>0, <1>4 DEF LockoutEnds, durable
<1>5. ASSUME NEW by \in {"bio", "pin"}, StartUnlock(by) PROVE PhaseInv'
  <2>1. CASE app' = app /\ unlock' = unlock
    BY <1>5, <2>1 DEF StartUnlock, OnLockScreen, NoUnlock, durable, CoreInv, PhaseInv, Quiet
  <2>2. CASE ~(app' = app /\ unlock' = unlock)
    <3>1. app' = [app EXCEPT !.status = "unlocking"] /\ unlock' = [NoUnlock EXCEPT !.pc = "key", !.by = by]
      BY <1>5, <2>2 DEF StartUnlock, OnLockScreen, NoUnlock
    <3>2. app'.onboarded = app.onboarded /\ app'.status = "unlocking" /\ unlock'.pc = "key"
      BY <3>1 DEF Types, Apps, NoUnlock
    <3>3. job = NoJob /\ app.onboarded /\ UNCHANGED <<gen, draft, online, job>>
      BY <1>5 DEF StartUnlock, OnLockScreen, NoUnlock
    <3> QED BY <3>2, <3>3 DEF CoreInv, PhaseInv, Quiet
  <2> QED BY <2>1, <2>2
<1>6. ASSUME NEW b \in BOOLEAN, KeyReleased(b) PROVE PhaseInv'
  <2>1. app.onboarded /\ UNCHANGED <<gen, draft, job>> /\ job = NoJob /\ unlock.pc = "key"
    BY <1>6, Alone DEF KeyReleased
  <2>2. CASE Refused \/ \E k : Unlocked(k)
    <3>1. app'.onboarded = app.onboarded /\ unlock' = NoUnlock
      BY <2>2 DEF Types, Apps, Refused, Unlocked
    <3> QED BY <2>1, <3>1 DEF CoreInv, PhaseInv, Quiet
  <2>3. CASE ~(Refused \/ \E k : Unlocked(k))
    <3>1. PICK k : unlock' = [unlock EXCEPT !.pc = "open", !.key = k] /\ UNCHANGED <<app, online>>
      BY <1>6, <2>3 DEF KeyReleased
    <3>2. unlock'.pc = "open" /\ unlock # NoUnlock
      BY <2>1, <3>1 DEF Types, Unlocks, NoUnlock
    <3> QED BY <2>1, <3>1, <3>2 DEF CoreInv, PhaseInv, Quiet
  <2> QED BY <2>2, <2>3
<1>7. ASSUME NEW b \in BOOLEAN, Opened(b) PROVE PhaseInv'
  <2>1. app.onboarded /\ UNCHANGED <<gen, draft, job>> /\ job = NoJob
    BY <1>7, Alone DEF Opened
  <2>2. Refused \/ \E k : Unlocked(k)
    BY <1>7 DEF Opened
  <2>3. PhaseInv'
    <3>1. app'.onboarded = app.onboarded /\ unlock' = NoUnlock
      BY <2>2 DEF Types, Apps, Refused, Unlocked
    <3> QED BY <2>1, <3>1 DEF CoreInv, PhaseInv, Quiet
  <2> QED BY <2>3
<1>8. ASSUME NEW c \in {"auto", "user"}, Lock(c) PROVE PhaseInv'
  BY <1>0, <1>8 DEF Lock, durable
<1>9. ASSUME NEW c \in {"auto", "user", "job"}, Locked(c) PROVE PhaseInv'
  BY <1>9, Alone DEF Types, CoreInv, PhaseInv, Quiet, Working, Locked, Upgrading, durable
<1>10. CASE Online
  <2>1. app.onboarded
    BY <1>10, Alone DEF Online, OnlineStep, Readable
  <2>2. app'.onboarded = app.onboarded /\ app'.status = app.status
    BY <1>10 DEF Online, OnlineStep, Readable, Types, Apps
  <2> QED BY <1>10, <2>1, <2>2 DEF Online, CoreInv, PhaseInv, Quiet
<1>11. CASE Register
  BY <1>0, <1>11 DEF Register, durable
<1>12. ASSUME NEW g \in Generations, StartGeneration(g) PROVE PhaseInv'
  BY <1>12, Alone DEF Types, CoreInv, PhaseInv, Quiet, Working, StartGeneration, durable
<1>13. ASSUME NEW g \in Generations, DeleteOld(g) PROVE PhaseInv'
  BY <1>13, Alone DEF Types, CoreInv, PhaseInv, Quiet, Working, DeleteOld, At, NewApp, durable
<1>14. ASSUME NEW g \in Generations, Provision(g) PROVE PhaseInv'
  BY <1>14, Alone DEF Types, CoreInv, PhaseInv, Quiet, Working, Provision, At, NewApp, FreshKey,
     durable
<1>15. ASSUME NEW g \in Generations, OpenNew(g) PROVE PhaseInv'
  BY <1>15, Alone DEF Types, CoreInv, PhaseInv, Quiet, Working, OpenNew, At, NewApp, durable
<1>16. ASSUME NEW g \in Generations, MarkUnlocked(g) PROVE PhaseInv'
  <2>1. gen[g].pc \in Working
    BY <1>16 DEF MarkUnlocked, At, NewApp, Answered, Readable, Working
  <2>2. ~app.onboarded /\ ~draft.pin
    BY <2>1 DEF CoreInv, PhaseInv, Quiet
  <2>3. app'.onboarded = app.onboarded /\ UNCHANGED <<unlock, online, draft, job>>
    BY <1>16 DEF MarkUnlocked, At, NewApp, Answered, Readable, Types, Apps
  <2> QED BY <1>16, <2>2, <2>3 DEF CoreInv, PhaseInv, Quiet
<1>17. ASSUME NEW g \in Generations, InstallIdentity(g) PROVE PhaseInv'
  BY <1>17, Alone DEF Types, CoreInv, PhaseInv, Quiet, Working, InstallIdentity, Provisioned, At,
     NewApp, Readable, durable
<1>18. ASSUME NEW g \in Generations, StoreAccount(g) PROVE PhaseInv'
  BY <1>18, Alone DEF Types, CoreInv, PhaseInv, Quiet, Working, StoreAccount, Provisioned, At,
     NewApp, Readable, durable
<1>19. CASE SetPin
  <2>1. ~app.onboarded /\ UNCHANGED <<app, unlock, online, gen, job>>
    BY <1>19 DEF SetPin, OnPinScreen
  <2>2. Quiet
    BY <1>19 DEF SetPin, OnPinScreen, OneScreen, Quiet, Working
  <2> QED BY <2>1, <2>2 DEF CoreInv, PhaseInv, Quiet
<1>20. CASE Complete
  BY <1>20, Alone DEF Types, CoreInv, PhaseInv, Quiet, Working, Complete, OnCompleteScreen, durable
<1>21. CASE SavePrefs
  BY <1>0, <1>21 DEF SavePrefs, durable
<1>22. ASSUME NEW kind \in {"delete", "erase"}, StartWipe(kind) PROVE PhaseInv'
  BY <1>22, Alone DEF Types, CoreInv, PhaseInv, Quiet, Working, StartWipe, InTabs, durable
<1>23. CASE Leave
  <2>1. job # NoJob
    BY <1>23 DEF Leave, Doing, Next1, Doing, NoJob
  <2>2. UNCHANGED <<gen, draft, unlock, online>> /\ (app'.onboarded => app.onboarded)
        /\ app'.status = app.status
    BY <1>23 DEF Leave, Doing, Next1, Types, Apps
  <2> QED BY <2>1, <2>2, PhaseKept, JobAlone
<1>24. CASE JobLock
  BY <1>0, <1>24 DEF JobLock, Doing, durable
<1>25. CASE WipeSecret
  <2>1. job # NoJob
    BY <1>25 DEF WipeSecret, Doing, Next1, Doing, NoJob
  <2>2. UNCHANGED <<gen, draft, unlock, online>> /\ (app'.onboarded => app.onboarded)
        /\ app'.status = app.status
    BY <1>25 DEF WipeSecret, Doing, Next1, Types, Apps
  <2> QED BY <2>1, <2>2, PhaseKept, JobAlone
<1>26. CASE WipeFile
  <2>1. job # NoJob
    BY <1>26 DEF WipeFile, Doing, Next1, Doing, NoJob
  <2>2. UNCHANGED <<gen, draft, unlock, online>> /\ (app'.onboarded => app.onboarded)
        /\ app'.status = app.status
    BY <1>26 DEF WipeFile, Doing, Next1, Types, Apps
  <2> QED BY <2>1, <2>2, PhaseKept, JobAlone
<1>27. CASE WipePrefs
  <2>1. job # NoJob
    BY <1>27 DEF WipePrefs, Doing, Doing, NoJob
  <2>2. UNCHANGED <<gen, draft, unlock, online>> /\ (app'.onboarded => app.onboarded)
        /\ app'.status = app.status
    BY <1>27 DEF WipePrefs, Doing, Types, Apps
  <2> QED BY <2>1, <2>2, PhaseKept, JobAlone
<1>28. CASE Erased
  BY <1>28, Alone DEF Types, CoreInv, PhaseInv, Quiet, Working, Erased, durable
<1>29. CASE StepFails
  <2>1. job # NoJob
    BY <1>29 DEF StepFails, Doing, Next1, Doing, NoJob
  <2>2. UNCHANGED <<gen, draft, unlock, online>> /\ (app'.onboarded => app.onboarded)
        /\ app'.status = app.status
    BY <1>29 DEF StepFails, Doing, Next1, Types, Apps
  <2> QED BY <2>1, <2>2, PhaseKept, JobAlone
<1> QED BY <1>1, <1>2, <1>3, <1>4, <1>5, <1>6, <1>7, <1>8, <1>9, <1>10, <1>11, <1>12, <1>13, <1>14,
     <1>15, <1>16, <1>17, <1>18, <1>19, <1>20, <1>21, <1>22, <1>23, <1>24, <1>25, <1>26, <1>27,
     <1>28, <1>29 DEF Next

LEMMA NoScreen ==
    ASSUME Types, CoreInv, app.onboarded \/ ~app.up \/ job # NoJob
    PROVE  Quiet /\ draft = NoDraft
<1>1. ~app.up => Quiet /\ draft = NoDraft
  BY DEF CoreInv, DownInv, Quiet, NoGen, Working
<1>2. app.onboarded => Quiet /\ draft = NoDraft
  BY DEF CoreInv, PhaseInv
<1>3. job # NoJob => app.onboarded \/ ~app.up
  BY Alone DEF CoreInv, JobInv, Types, Jobs
<1> QED BY <1>1, <1>2, <1>3

LEMMA GensQuiet ==
    ASSUME Types, GensInv, Quiet, draft = NoDraft, UNCHANGED <<gen, draft>>
    PROVE  GensInv'
BY DEF GensInv, GenInv, Quiet, Working, NoDraft

LEMMA GensKept ==
    ASSUME Types, GensInv, UNCHANGED <<gen, draft, file>>, conn' \in {conn, None},
           keystore'.bio = keystore.bio, keystore'.pin = keystore.pin
    PROVE  GensInv'
BY DEF GensInv, GenInv

LEMMA OneGen ==
    ASSUME OneScreen, NEW g \in Generations, GenInv(g)'
    PROVE  GensInv'
BY DEF GensInv, OneScreen

\* What a key generation has written so far is what it goes on with.
LEMMA GensInvStep ==
    ASSUME Types, CoreInv, OneScreen, Next
    PROVE  GensInv'
<1>0. ASSUME UNCHANGED <<gen, keystore, conn, file, draft>> PROVE GensInv'
  BY <1>0 DEF Types, CoreInv, GensInv, GenInv
<1>1. CASE Boot
  BY <1>0, <1>1 DEF Boot, durable
<1>2. CASE Restart
  BY <1>2 DEF Restart, GensInv, GenInv, NoGen, NoDraft
<1>3. CASE SaveLockout
  <2>1. keystore'.bio = keystore.bio /\ keystore'.pin = keystore.pin /\ UNCHANGED <<gen, draft, file, conn>>
    BY <1>3 DEF SaveLockout, Types, Keystores
  <2> QED BY <2>1, GensKept DEF CoreInv
<1>4. CASE LockoutEnds
  <2>1. keystore'.bio = keystore.bio /\ keystore'.pin = keystore.pin /\ UNCHANGED <<gen, draft, file, conn>>
    BY <1>4 DEF LockoutEnds, Types, Keystores
  <2> QED BY <2>1, GensKept DEF CoreInv
<1>5. ASSUME NEW by \in {"bio", "pin"}, StartUnlock(by) PROVE GensInv'
  BY <1>0, <1>5 DEF StartUnlock, OnLockScreen, NoUnlock, durable
<1>6. ASSUME NEW b \in BOOLEAN, KeyReleased(b) PROVE GensInv'
  <2>1. app.onboarded /\ UNCHANGED <<gen, draft>>
    BY <1>6, Alone DEF KeyReleased, Refused, Unlocked, Counted, NoUnlock
  <2> QED BY <2>1, NoScreen, GensQuiet DEF CoreInv
<1>7. ASSUME NEW b \in BOOLEAN, Opened(b) PROVE GensInv'
  BY <1>0, <1>7 DEF Opened, Refused, Unlocked, Counted, NoUnlock, Answered, Readable, durable
<1>8. ASSUME NEW c \in {"auto", "user"}, Lock(c) PROVE GensInv'
  BY <1>0, <1>8 DEF Lock, durable
<1>9. ASSUME NEW c \in {"auto", "user", "job"}, Locked(c) PROVE GensInv'
  BY <1>9, GensKept DEF Locked, Upgrading, durable, CoreInv
<1>10. CASE Online
  <2>1. app.onboarded /\ UNCHANGED <<gen, draft>>
    BY <1>10, Alone DEF Online, OnlineStep, Readable
  <2> QED BY <2>1, NoScreen, GensQuiet DEF CoreInv
<1>11. CASE Register
  BY <1>0, <1>11 DEF Register, durable
<1>12. ASSUME NEW g \in Generations, StartGeneration(g) PROVE GensInv'
  <2>1. gen'[g] = [pc |-> "delete", key |-> None] /\ ~draft'.pin
    BY <1>12 DEF StartGeneration, Types, Drafts
  <2>8. GenInv(g)'
    BY <2>1 DEF GenInv
  <2> QED BY <2>8, OneGen
<1>13. ASSUME NEW g \in Generations, DeleteOld(g) PROVE GensInv'
  <2>1. GenInv(g) /\ gen[g].pc \in Working /\ gen[g] \in Gens
    BY <1>13 DEF DeleteOld, At, NewApp, CoreInv, GensInv, Types, Working
  <2>2. ~draft.pin
    BY <2>1 DEF CoreInv, PhaseInv, Quiet
  <2>3. gen'[g].pc = "key" /\ conn' = None /\ file' = NoFile /\ UNCHANGED draft
    BY <1>13 DEF DeleteOld, At, NewApp, Types
  <2>8. GenInv(g)'
    BY <2>2, <2>3 DEF GenInv
  <2> QED BY <2>8, OneGen
<1>14. ASSUME NEW g \in Generations, Provision(g) PROVE GensInv'
  <2>1. GenInv(g) /\ gen[g].pc \in Working /\ gen[g] \in Gens
    BY <1>14 DEF Provision, At, NewApp, FreshKey, CoreInv, GensInv, Types, Working
  <2>2. ~draft.pin
    BY <2>1 DEF CoreInv, PhaseInv, Quiet
  <2>3. CASE gen'[g].pc = "failed"
    BY <1>14, <2>1, <2>2, <2>3, OneGen DEF Provision, At, NewApp, FreshKey, GenInv
  <2>4. CASE gen'[g].pc # "failed"
    <3>1. PICK k \in FreshKey : gen' = [gen EXCEPT ![g] = [pc |-> "open", key |-> k]]
                                 /\ keystore' = [keystore EXCEPT !.bio = k]
      BY <1>14, <2>4 DEF Provision, At, Types, Gens
    <3>2. k \in Keys
      BY DEF FreshKey
    <3>3. gen'[g] = [pc |-> "open", key |-> k] /\ keystore'.bio = k
      BY <3>1 DEF Types, Keystores
    <3>4. UNCHANGED <<file, conn, draft>> /\ gen[g].pc = "key"
      BY <1>14 DEF Provision, At, NewApp, FreshKey
    <3> QED BY <2>1, <2>2, <3>2, <3>3, <3>4, OneGen DEF GenInv
  <2>8. GenInv(g)'
    BY <2>3, <2>4 DEF GensInv
  <2> QED BY <2>8, OneGen
<1>15. ASSUME NEW g \in Generations, OpenNew(g) PROVE GensInv'
  <2>1. GenInv(g) /\ gen[g].pc \in Working /\ gen[g] \in Gens
    BY <1>15 DEF OpenNew, At, NewApp, CoreInv, GensInv, Types, Working
  <2>2. ~draft.pin
    BY <2>1 DEF CoreInv, PhaseInv, Quiet
  <2>3. gen'[g].pc = "mark" /\ gen'[g].key = gen[g].key /\ UNCHANGED <<keystore, draft>>
    BY <1>15 DEF OpenNew, At, NewApp, Types, Gens
  <2>4. conn = None /\ file = NoFile
    BY <1>15, <2>1 DEF OpenNew, At, NewApp, GenInv
  <2>5. conn' = gen[g].key /\ file' = [NoFile EXCEPT !.key = gen[g].key]
    BY <1>15, <2>4 DEF OpenNew, At, NewApp, Exists
  <2>6. /\ file'.key = gen[g].key /\ file'.account = "none"
        /\ file'.confirmed = "none" /\ file'.store = "none"
    BY <2>5 DEF NoFile
  <2>8. GenInv(g)'
    BY <1>15, <2>1, <2>2, <2>3, <2>5, <2>6 DEF OpenNew, At, NewApp, GenInv
  <2> QED BY <2>8, OneGen
<1>16. ASSUME NEW g \in Generations, MarkUnlocked(g) PROVE GensInv'
  <2>1. GenInv(g) /\ gen[g].pc \in Working /\ gen[g] \in Gens
    BY <1>16 DEF MarkUnlocked, At, NewApp, Answered, Readable, CoreInv, GensInv, Types, Working
  <2>2. ~draft.pin
    BY <2>1 DEF CoreInv, PhaseInv, Quiet
  <2>3. gen'[g].pc \in {"store", "failed"} /\ gen'[g].key = gen[g].key /\ UNCHANGED <<keystore, draft, file, conn>>
    BY <1>16 DEF MarkUnlocked, At, NewApp, Answered, Readable, Types, Gens
  <2>8. GenInv(g)'
    BY <1>16, <2>1, <2>2, <2>3 DEF MarkUnlocked, At, NewApp, Answered, Readable, GenInv
  <2> QED BY <2>8, OneGen
<1>17. ASSUME NEW g \in Generations, InstallIdentity(g) PROVE GensInv'
  <2>1. GenInv(g) /\ gen[g].pc \in Working /\ gen[g] \in Gens
    BY <1>17 DEF InstallIdentity, Provisioned, At, NewApp, Readable, CoreInv, GensInv, Types, Working
  <2>2. ~draft.pin
    BY <2>1 DEF CoreInv, PhaseInv, Quiet
  <2>3. UNCHANGED <<keystore, draft, conn>> /\ gen'[g].key = gen[g].key
    BY <1>17 DEF InstallIdentity, Provisioned, At, NewApp, Readable, Types, Gens
  <2>4. CASE Readable
    <3>1. /\ gen'[g].pc = "row" /\ file'.key = file.key /\ file'.store = "native"
          /\ file'.account = file.account /\ file'.confirmed = file.confirmed
      BY <1>17, <2>4 DEF InstallIdentity, Provisioned, At, NewApp, Readable, Types, Gens, Files
    <3> QED BY <1>17, <2>1, <2>2, <2>3, <3>1, OneGen DEF InstallIdentity, Provisioned, At, NewApp, Readable, GenInv
  <2>5. CASE ~Readable
    <3>1. gen'[g].pc = "failed"
      BY <1>17, <2>5 DEF InstallIdentity, Provisioned, At, NewApp, Readable, Types, Gens
    <3> QED BY <2>2, <2>3, <3>1, OneGen DEF GenInv
  <2>8. GenInv(g)'
    BY <2>4, <2>5 DEF GensInv
  <2> QED BY <2>8, OneGen
<1>18. ASSUME NEW g \in Generations, StoreAccount(g) PROVE GensInv'
  <2>1. GenInv(g) /\ gen[g].pc \in Working /\ gen[g] \in Gens
    BY <1>18 DEF StoreAccount, Provisioned, At, NewApp, Readable, CoreInv, GensInv, Types, Working
  <2>2. ~draft.pin
    BY <2>1 DEF CoreInv, PhaseInv, Quiet
  <2>3. UNCHANGED <<keystore, conn>> /\ gen'[g].key = gen[g].key
    BY <1>18 DEF StoreAccount, Provisioned, At, NewApp, Readable, Types, Gens
  <2>4. CASE Readable
    <3>1. /\ gen'[g].pc = "done" /\ file'.key = file.key /\ file'.store = file.store
          /\ file'.account = "native" /\ file'.confirmed = file.confirmed
      BY <1>18, <2>4 DEF StoreAccount, Provisioned, At, NewApp, Readable, Types, Gens, Files
    <3>2. draft'.key = gen[g].key /\ ~draft'.pin
      BY <1>18, <2>4 DEF StoreAccount, Provisioned, At, NewApp, Readable
    <3> QED BY <1>18, <2>1, <2>3, <3>1, <3>2, OneGen DEF StoreAccount, Provisioned, At, NewApp, Readable, GenInv
  <2>5. CASE ~Readable
    <3>1. gen'[g].pc = "failed" /\ UNCHANGED draft
      BY <1>18, <2>5 DEF StoreAccount, Provisioned, At, NewApp, Readable, Types, Gens
    <3> QED BY <2>2, <2>3, <3>1, OneGen DEF GenInv
  <2>8. GenInv(g)'
    BY <2>4, <2>5 DEF GensInv
  <2> QED BY <2>8, OneGen
<1>19. CASE SetPin
  <2>1. PICK g \in Generations : gen[g].pc = "done"
    BY <1>19 DEF SetPin, OnPinScreen
  <2>2. GenInv(g) /\ draft.key # None
    BY <1>19 DEF SetPin, OnPinScreen, CoreInv, GensInv
  <2>3. UNCHANGED <<gen, file, conn>> /\ keystore'.bio = keystore.bio /\ keystore'.pin = draft.key
        /\ draft'.key = draft.key /\ draft'.pin
    BY <1>19 DEF SetPin, OnPinScreen, Types, Keystores, Drafts
  <2>4. GenInv(g)'
    BY <2>1, <2>2, <2>3 DEF GenInv
  <2> QED BY <2>4, OneGen
<1>20. CASE Complete
  <2>1. UNCHANGED <<gen, file, conn, keystore>> /\ draft' = NoDraft
    BY <1>20 DEF Complete, OnCompleteScreen, durable
  <2> QED BY <2>1 DEF CoreInv, GensInv, GenInv, NoDraft
<1>21. CASE SavePrefs
  BY <1>0, <1>21 DEF SavePrefs, durable
<1>22. ASSUME NEW kind \in {"delete", "erase"}, StartWipe(kind) PROVE GensInv'
  BY <1>0, <1>22 DEF StartWipe, InTabs, durable
<1>23. CASE Leave
  BY <1>0, <1>23 DEF Leave, Doing, Next1, durable
<1>24. CASE JobLock
  BY <1>0, <1>24 DEF JobLock, Doing, durable
<1>25. CASE WipeSecret
  <2>1. job # NoJob /\ UNCHANGED <<gen, draft>>
    BY <1>25 DEF WipeSecret, Doing, Next1, Doing, NoJob
  <2> QED BY <2>1, NoScreen, GensQuiet DEF CoreInv
<1>26. CASE WipeFile
  <2>1. job # NoJob /\ UNCHANGED <<gen, draft>>
    BY <1>26 DEF WipeFile, Doing, Next1, Doing, NoJob
  <2> QED BY <2>1, NoScreen, GensQuiet DEF CoreInv
<1>27. CASE WipePrefs
  BY <1>0, <1>27 DEF WipePrefs, Doing, durable
<1>28. CASE Erased
  BY <1>0, <1>28 DEF Erased, durable
<1>29. CASE StepFails
  BY <1>0, <1>29 DEF StepFails, Doing, Next1, durable
<1> QED BY <1>1, <1>2, <1>3, <1>4, <1>5, <1>6, <1>7, <1>8, <1>9, <1>10, <1>11, <1>12, <1>13, <1>14,
     <1>15, <1>16, <1>17, <1>18, <1>19, <1>20, <1>21, <1>22, <1>23, <1>24, <1>25, <1>26, <1>27,
     <1>28, <1>29 DEF Next

LEMMA FileKept ==
    ASSUME Types, CoreInv, UNCHANGED <<draft, prefs>>, Exists => Exists' /\ file'.key = file.key,
           ~Exists => ~Exists', UNCHANGED gen \/ ~draft.pin, job'.kind = job.kind,
           app'.onboarded = app.onboarded, app'.up = app.up, past'.kept = past.kept
    PROVE  FileInv'
BY DEF CoreInv, FileInv

LEMMA EndOfUnlock ==
    ASSUME Types, Refused \/ \E k : Unlocked(k)
    PROVE  app'.onboarded = app.onboarded /\ app'.up = app.up /\ past'.kept = past.kept
BY DEF Types, Apps, Pasts, Refused, Unlocked

\* Where the database is.
LEMMA FileInvStep ==
    ASSUME Types, CoreInv, OneScreen, Next
    PROVE  FileInv'
<1>0. ASSUME UNCHANGED <<file, gen, draft, app, job, prefs, past>> PROVE FileInv'
  BY <1>0 DEF Types, CoreInv, FileInv, Exists
<1>1. CASE Boot
  <2>1. ~app.onboarded /\ draft = NoDraft /\ job = NoJob /\ UNCHANGED <<file, draft, prefs, past>>
    BY <1>1 DEF Boot, durable, CoreInv, DownInv, Closed
  <2>2. CASE prefs /\ ~Exists
    BY <1>1, <2>1, <2>2 DEF Boot, CoreInv, FileInv, Exists, NoDraft
  <2>3. CASE ~(prefs /\ ~Exists)
    <3>1. app'.onboarded = prefs
      BY <1>1, <2>3 DEF Boot, Types, Apps
    <3> QED BY <2>1, <2>3, <3>1 DEF CoreInv, FileInv, Exists, NoDraft
  <2> QED BY <2>2, <2>3
<1>2. CASE Restart
  <2>1. ~app'.onboarded /\ ~app'.up /\ ~draft'.pin
    BY <1>2 DEF Restart, Upgrading, Closed, NoDraft
  <2>2. Exists' => Exists /\ file' = file
    BY <1>2 DEF Restart, Upgrading, Exists
  <2> QED BY <2>1, <2>2 DEF CoreInv, FileInv
<1>3. CASE SaveLockout
  BY <1>0, <1>3 DEF SaveLockout, durable
<1>4. CASE LockoutEnds
  BY <1>4, Alone DEF Types, CoreInv, FileInv, Exists, LockoutEnds, durable
<1>5. ASSUME NEW by \in {"bio", "pin"}, StartUnlock(by) PROVE FileInv'
  <2>1. app'.onboarded = app.onboarded /\ app'.up = app.up /\ past'.kept = past.kept
    BY <1>5 DEF StartUnlock, OnLockScreen, NoUnlock, Types, Apps
  <2> QED BY <1>5, <2>1, FileKept DEF StartUnlock, OnLockScreen, NoUnlock, durable, Exists
<1>6. ASSUME NEW b \in BOOLEAN, KeyReleased(b) PROVE FileInv'
  <2>1. UNCHANGED <<gen, draft, prefs, job>>
    BY <1>6 DEF KeyReleased
  <2>2. CASE Refused \/ \E k : Unlocked(k)
    <3>1. app'.onboarded = app.onboarded /\ app'.up = app.up /\ past'.kept = past.kept
      BY <2>2, EndOfUnlock
    <3>2. UNCHANGED file
      <4>1. Exists
        BY <1>6, Alone DEF KeyReleased, CoreInv, FileInv, NoJob
      <4> QED BY <1>6, <4>1 DEF KeyReleased
    <3> QED BY <2>1, <3>1, <3>2, FileKept DEF Exists
  <2>3. CASE ~(Refused \/ \E k : Unlocked(k))
    <3>1. Exists /\ UNCHANGED <<file, app, past>>
      <4>1. Exists
        BY <1>6, Alone DEF KeyReleased, CoreInv, FileInv, NoJob
      <4>2. UNCHANGED <<app, past>> /\ file' = file
        BY <1>6, <2>3, <4>1 DEF KeyReleased
      <4> QED BY <4>1, <4>2
    <3> QED BY <2>1, <3>1, FileKept DEF Exists
  <2> QED BY <2>2, <2>3
<1>7. ASSUME NEW b \in BOOLEAN, Opened(b) PROVE FileInv'
  <2>1. app'.onboarded = app.onboarded /\ app'.up = app.up /\ past'.kept = past.kept
    BY <1>7, EndOfUnlock DEF Opened
  <2>2. UNCHANGED <<draft, prefs, gen, job, file>>
    BY <1>7 DEF Opened, durable
  <2> QED BY <2>1, <2>2, FileKept DEF Exists
<1>8. ASSUME NEW c \in {"auto", "user"}, Lock(c) PROVE FileInv'
  BY <1>0, <1>8 DEF Lock, durable
<1>9. ASSUME NEW c \in {"auto", "user", "job"}, Locked(c) PROVE FileInv'
  BY <1>9, Alone DEF Types, CoreInv, FileInv, Exists, Locked, Upgrading, durable
<1>10. CASE Online
  <2>1. app'.onboarded = app.onboarded /\ app'.up = app.up /\ UNCHANGED <<draft, prefs, gen, job, past>>
    BY <1>10 DEF Online, OnlineStep, Readable, Types, Apps
  <2>2. file' = file \/ (Exists /\ file'.key = file.key)
    BY <1>10 DEF Online, OnlineStep, Readable, Types, Files
  <2>3. Exists /\ file'.key = file.key => Exists'
    BY AccountConstants DEF CoreInv, FileInv, Exists, NoFile
  <2> QED BY <2>1, <2>2, <2>3, FileKept DEF Exists
<1>11. CASE Register
  BY <1>0, <1>11 DEF Register, durable
<1>12. ASSUME NEW g \in Generations, StartGeneration(g) PROVE FileInv'
  BY <1>12, Alone DEF Types, CoreInv, FileInv, Exists, StartGeneration, durable
<1>13. ASSUME NEW g \in Generations, DeleteOld(g) PROVE FileInv'
  <2>1. ~draft.pin /\ ~app.onboarded /\ app.up
    BY <1>13, Alone DEF DeleteOld, At, NewApp, Working, CoreInv, PhaseInv, Quiet
  <2>2. UNCHANGED <<draft, prefs, job, past>>
    BY <1>13 DEF DeleteOld, At, NewApp
  <2>3. UNCHANGED app /\ ~Exists'
    BY <1>13 DEF DeleteOld, At, NewApp, Exists
  <2> QED BY <2>1, <2>2, <2>3 DEF CoreInv, FileInv
<1>14. ASSUME NEW g \in Generations, Provision(g) PROVE FileInv'
  BY <1>14, Alone DEF Types, CoreInv, FileInv, Exists, Provision, At, NewApp, FreshKey, durable
<1>15. ASSUME NEW g \in Generations, OpenNew(g) PROVE FileInv'
  <2>1. ~draft.pin /\ ~app.onboarded /\ app.up
    BY <1>15, Alone DEF OpenNew, At, NewApp, Working, CoreInv, PhaseInv, Quiet
  <2>2. UNCHANGED <<draft, prefs, job, past>>
    BY <1>15 DEF OpenNew, At, NewApp
  <2>3. UNCHANGED app /\ (file' = file \/ file'.key = gen[g].key)
    BY <1>15 DEF OpenNew, At, NewApp, NoFile
  <2>4. gen[g].key \in Keys
    BY <1>15 DEF OpenNew, At, NewApp, CoreInv, GensInv, GenInv
  <2> QED BY <2>1, <2>2, <2>3, <2>4 DEF CoreInv, FileInv, Exists
<1>16. ASSUME NEW g \in Generations, MarkUnlocked(g) PROVE FileInv'
  <2>1. ~draft.pin /\ ~app.onboarded /\ app.up
    BY <1>16, Alone DEF MarkUnlocked, At, NewApp, Answered, Readable, Working, CoreInv, PhaseInv, Quiet
  <2>2. UNCHANGED <<draft, prefs, job, past>>
    BY <1>16 DEF MarkUnlocked, At, NewApp, Answered, Readable
  <2>3. UNCHANGED file /\ app'.onboarded = app.onboarded /\ app'.up = app.up
    BY <1>16 DEF MarkUnlocked, At, NewApp, Answered, Readable, Types, Apps
  <2> QED BY <2>1, <2>2, <2>3 DEF CoreInv, FileInv, Exists
<1>17. ASSUME NEW g \in Generations, InstallIdentity(g) PROVE FileInv'
  <2>1. ~draft.pin /\ ~app.onboarded /\ app.up
    BY <1>17, Alone DEF InstallIdentity, Provisioned, At, NewApp, Readable, Working, CoreInv, PhaseInv, Quiet
  <2>2. UNCHANGED <<draft, prefs, job, past>>
    BY <1>17 DEF InstallIdentity, Provisioned, At, NewApp, Readable
  <2>3. UNCHANGED app /\ (file' = file \/ (Exists /\ file'.key = file.key))
    BY <1>17 DEF InstallIdentity, Provisioned, At, NewApp, Readable, Types, Files
  <2> QED BY <2>1, <2>2, <2>3 DEF CoreInv, FileInv, Exists
<1>18. ASSUME NEW g \in Generations, StoreAccount(g) PROVE FileInv'
  <2>1. ~app.onboarded /\ app.up
    BY <1>18, Alone DEF StoreAccount, Provisioned, At, NewApp, Readable, Working
  <2>2. UNCHANGED <<prefs, job, past, app>> /\ ~draft'.pin
    BY <1>18 DEF StoreAccount, Provisioned, At, NewApp, Readable, Working, CoreInv, PhaseInv, Quiet
  <2>3. file' = file \/ (Exists /\ file'.key = file.key)
    BY <1>18 DEF StoreAccount, Provisioned, At, NewApp, Readable, Types, Files
  <2> QED BY <2>1, <2>2, <2>3 DEF CoreInv, FileInv, Exists
<1>19. CASE SetPin
  BY <1>19, Alone DEF Types, CoreInv, FileInv, Exists, SetPin, OnPinScreen, durable
<1>20. CASE Complete
  <2>1. PICK g \in Generations : gen[g].pc = "done"
    BY <1>20 DEF Complete, OnCompleteScreen, CoreInv, FileInv
  <2>2. file.key \in Keys
    BY <1>20, <2>1 DEF Complete, OnCompleteScreen, CoreInv, GensInv, GenInv
  <2>3. Exists
    BY <2>2, AccountConstants DEF Exists, NoFile
  <2>4. app'.onboarded /\ ~draft'.pin /\ UNCHANGED file
    BY <1>20 DEF Complete, OnCompleteScreen, Types, Apps, NoDraft, durable
  <2> QED BY <2>2, <2>3, <2>4 DEF FileInv, Exists
<1>21. CASE SavePrefs
  BY <1>21, Alone DEF Types, CoreInv, FileInv, Exists, SavePrefs, durable
<1>22. ASSUME NEW kind \in {"delete", "erase"}, StartWipe(kind) PROVE FileInv'
  <2>1. UNCHANGED <<draft, prefs, app, file, gen>> /\ past'.kept = past.kept
    BY <1>22 DEF StartWipe, InTabs, durable, Types, Pasts
  <2>2. job.kind = "none"
    BY <1>22 DEF StartWipe, InTabs, NoJob
  <2> QED BY <2>1, <2>2 DEF CoreInv, FileInv, Exists
<1>23. CASE Leave
  BY <1>23, Alone DEF Types, CoreInv, FileInv, Exists, Leave, Doing, Next1, durable
<1>24. CASE JobLock
  BY <1>0, <1>24 DEF JobLock, Doing, durable
<1>25. CASE WipeSecret
  BY <1>25, Alone DEF Types, CoreInv, FileInv, Exists, WipeSecret, Doing, Next1, durable
<1>26. CASE WipeFile
  <2>1. job.kind = "delete" /\ job'.kind = job.kind /\ ~Exists'
    BY <1>26, Positions DEF WipeFile, Doing, Next1, CoreInv, DeleteAt, Types, Jobs, Exists
  <2> QED BY <1>26, <2>1 DEF WipeFile, Doing, Next1, CoreInv, FileInv
<1>27. CASE WipePrefs
  BY <1>27, Alone DEF Types, CoreInv, FileInv, Exists, WipePrefs, Doing, durable
<1>28. CASE Erased
  BY <1>28, Alone DEF Types, CoreInv, FileInv, Exists, Erased, durable
<1>29. CASE StepFails
  <2>1. UNCHANGED <<draft, prefs, gen, file>>
    BY <1>29 DEF StepFails, Doing, Next1, durable
  <2>2. CASE Doing("prefs")
    <3>1. ~app'.onboarded /\ past'.kept
      BY <1>29, <2>2 DEF StepFails, Doing, Next1, Types, Apps, Pasts
    <3> QED BY <2>1, <3>1 DEF CoreInv, FileInv, Exists
  <2>3. CASE ~Doing("prefs")
    <3>1. app' = app /\ job'.kind = "delete" /\ (past.kept => past'.kept)
      BY <1>29, <2>3 DEF StepFails, Doing, Next1, Types, Pasts, Jobs
    <3> QED BY <2>1, <3>1 DEF CoreInv, FileInv, Exists
  <2> QED BY <2>2, <2>3
<1> QED BY <1>1, <1>2, <1>3, <1>4, <1>5, <1>6, <1>7, <1>8, <1>9, <1>10, <1>11, <1>12, <1>13, <1>14,
     <1>15, <1>16, <1>17, <1>18, <1>19, <1>20, <1>21, <1>22, <1>23, <1>24, <1>25, <1>26, <1>27,
     <1>28, <1>29 DEF Next

LEMMA DeleteOnce ==
    ASSUME NEW i \in 1..8, NEW j \in 1..8, DeleteAt(i)', DeleteAt(j)'
    PROVE  i = j
<1>1. DeleteSteps \in Seq(StepNames) /\ Len(DeleteSteps) = 8
  BY Fixed, Steps
<1>2. Suffix(DeleteSteps, i) = Suffix(DeleteSteps, j)
  BY DEF DeleteAt, Suffix
<1>3. /\ Len(Suffix(DeleteSteps, i)) = Len(DeleteSteps) + 1 - i
      /\ Len(Suffix(DeleteSteps, j)) = Len(DeleteSteps) + 1 - j
  BY <1>1, SuffixIs
<1> QED BY <1>1, <1>2, <1>3

LEMMA NoDeletion ==
    ASSUME job'.kind # "delete"
    PROVE  DeletionInv'
BY DEF DeletionInv, DeleteAt

LEMMA DeletionAt ==
    ASSUME NEW i \in 1..8, DeleteAt(i)', Deleted(i)'
    PROVE  DeletionInv'
BY DeleteOnce DEF DeletionInv

LEMMA DeletionKept ==
    ASSUME Types, CoreInv, UNCHANGED job,
           \A i \in 1..8 : DeleteAt(i) /\ Deleted(i) => Deleted(i)'
    PROVE  DeletionInv'
BY DEF CoreInv, DeletionInv, DeleteAt, Suffix

\* What a deletion has done by the step it is at.
LEMMA DeletionInvStep ==
    ASSUME Types, CoreInv, OneScreen, ~UnlockInWipe, Next
    PROVE  DeletionInv'
<1>0. ASSUME UNCHANGED <<job, app, past, registered, conn, keystore, file>> PROVE DeletionInv'
  BY <1>0 DEF Types, CoreInv, DeletionInv, DeleteAt, Deleted, Exists
<1>1. CASE Boot
  <2>1. job'.kind # "delete"
    BY <1>1 DEF Boot, NoJob
  <2> QED BY <2>1, NoDeletion
<1>2. CASE Restart
  <2>1. job' = NoJob
    BY <1>2, Alone DEF Restart, Upgrading
  <2> QED BY <2>1, NoDeletion DEF NoJob
<1>3. CASE SaveLockout
  <2>1. /\ keystore'.bio = keystore.bio /\ keystore'.pin = keystore.pin /\ keystore'.chat = keystore.chat
        /\ UNCHANGED <<job, app, registered, conn, file>>
        /\ past'.failures = past.failures /\ past'.kept = past.kept
    BY <1>3 DEF SaveLockout, Types, Keystores, Pasts
  <2> QED BY <2>1, DeletionKept DEF Deleted, Exists
<1>4. CASE LockoutEnds
  <2>1. /\ keystore'.bio = keystore.bio /\ keystore'.pin = keystore.pin /\ keystore'.chat = keystore.chat
        /\ UNCHANGED <<job, app, registered, conn, file>>
        /\ past'.failures = past.failures /\ past'.kept = past.kept
    BY <1>4 DEF LockoutEnds, Types, Keystores, Pasts
  <2> QED BY <2>1, DeletionKept DEF Deleted, Exists
<1>5. ASSUME NEW by \in {"bio", "pin"}, StartUnlock(by) PROVE DeletionInv'
  <2>1. job' = NoJob
    BY <1>5, Alone DEF StartUnlock, OnLockScreen, NoUnlock
  <2> QED BY <2>1, NoDeletion DEF NoJob
<1>6. ASSUME NEW b \in BOOLEAN, KeyReleased(b) PROVE DeletionInv'
  <2>1. job' = NoJob
    BY <1>6, Alone DEF KeyReleased, Refused, Unlocked, Counted, NoUnlock, Working
  <2> QED BY <2>1, NoDeletion DEF NoJob
<1>7. ASSUME NEW b \in BOOLEAN, Opened(b) PROVE DeletionInv'
  <2>1. job' = NoJob
    BY <1>7, Alone DEF Opened, Refused, Unlocked, Counted, NoUnlock, Answered, Readable, Working
  <2> QED BY <2>1, NoDeletion DEF NoJob
<1>8. ASSUME NEW c \in {"auto", "user"}, Lock(c) PROVE DeletionInv'
  BY <1>0, <1>8 DEF Lock, durable
<1>9. ASSUME NEW c \in {"auto", "user", "job"}, Locked(c) PROVE DeletionInv'
  <2>1. /\ app'.status = "locked" /\ conn' = None /\ app'.key = None /\ ~app'.account
        /\ app'.relay = app.relay /\ UNCHANGED <<keystore, registered, file, past>>
    BY <1>9 DEF Locked, Upgrading, durable, Types, Apps
  <2>2. CASE c # "job"
    BY <1>9, <2>1, <2>2, DeletionKept DEF Locked, Deleted, Exists
  <2>3. CASE c = "job"
    <3>1. job' = [job EXCEPT !.todo = Tail(@)]
      BY <1>9, <2>3 DEF Locked
    <3>2. CASE job.kind = "delete"
      <4>1. DeleteAt(2) /\ Deleted(2)
        BY <1>9, <2>3, <3>2 DEF Locked, CoreInv, JobInv, EraseAt, DeletionInv
      <4>2. DeleteAt(3)'
        BY <3>1, <4>1, DeleteMoves
      <4> QED BY <2>1, <4>1, <4>2, DeletionAt DEF Deleted, Exists
    <3>3. CASE job.kind # "delete"
      BY <3>1, <3>3, NoDeletion DEF Types, Jobs
    <3> QED BY <3>2, <3>3
  <2> QED BY <2>2, <2>3
<1>10. CASE Online
  <2>1. job' = NoJob
    BY <1>10, Alone DEF Online, OnlineStep, Readable, Working
  <2> QED BY <2>1, NoDeletion DEF NoJob
<1>11. CASE Register
  BY <1>11, DeletionKept DEF Register, Deleted, Exists
<1>12. ASSUME NEW g \in Generations, StartGeneration(g) PROVE DeletionInv'
  <2>1. job' = NoJob
    BY <1>12, Alone DEF StartGeneration
  <2> QED BY <2>1, NoDeletion DEF NoJob
<1>13. ASSUME NEW g \in Generations, DeleteOld(g) PROVE DeletionInv'
  <2>1. job' = NoJob
    BY <1>13, Alone DEF DeleteOld, At, NewApp, Working
  <2> QED BY <2>1, NoDeletion DEF NoJob
<1>14. ASSUME NEW g \in Generations, Provision(g) PROVE DeletionInv'
  <2>1. job' = NoJob
    BY <1>14, Alone DEF Provision, At, NewApp, FreshKey, Working
  <2> QED BY <2>1, NoDeletion DEF NoJob
<1>15. ASSUME NEW g \in Generations, OpenNew(g) PROVE DeletionInv'
  <2>1. job' = NoJob
    BY <1>15, Alone DEF OpenNew, At, NewApp, Working
  <2> QED BY <2>1, NoDeletion DEF NoJob
<1>16. ASSUME NEW g \in Generations, MarkUnlocked(g) PROVE DeletionInv'
  <2>1. job' = NoJob
    BY <1>16, Alone DEF MarkUnlocked, At, NewApp, Answered, Readable, Working
  <2> QED BY <2>1, NoDeletion DEF NoJob
<1>17. ASSUME NEW g \in Generations, InstallIdentity(g) PROVE DeletionInv'
  <2>1. job' = NoJob
    BY <1>17, Alone DEF InstallIdentity, Provisioned, At, NewApp, Readable, Working
  <2> QED BY <2>1, NoDeletion DEF NoJob
<1>18. ASSUME NEW g \in Generations, StoreAccount(g) PROVE DeletionInv'
  <2>1. job' = NoJob
    BY <1>18, Alone DEF StoreAccount, Provisioned, At, NewApp, Readable, Working
  <2> QED BY <2>1, NoDeletion DEF NoJob
<1>19. CASE SetPin
  <2>1. job' = NoJob
    BY <1>19, Alone DEF SetPin, OnPinScreen
  <2> QED BY <2>1, NoDeletion DEF NoJob
<1>20. CASE Complete
  <2>1. job' = NoJob
    BY <1>20, NoScreen DEF Complete, OnCompleteScreen, NoDraft
  <2> QED BY <2>1, NoDeletion DEF NoJob
<1>21. CASE SavePrefs
  BY <1>0, <1>21 DEF SavePrefs, durable
<1>22. ASSUME NEW kind \in {"delete", "erase"}, StartWipe(kind) PROVE DeletionInv'
  <2>1. CASE kind = "delete"
    <3>1. Suffix(DeleteSteps, 1) = DeleteSteps
      BY Fixed, SubSeqFull DEF Suffix
    <3>2. DeleteAt(1)'
      BY <1>22, <2>1, <3>1 DEF StartWipe, DeleteAt, Suffix
    <3>3. Exists /\ UNCHANGED file
      BY <1>22 DEF StartWipe, durable, InTabs, CoreInv, FileInv, NoJob
    <3> QED BY <3>2, <3>3, DeletionAt DEF Deleted, Exists
  <2>2. CASE kind # "delete"
    BY <1>22, <2>2, NoDeletion DEF StartWipe
  <2> QED BY <2>1, <2>2
<1>23. CASE Leave
  <2>1. DeleteAt(1) /\ Deleted(1)
    BY <1>23, Positions DEF Leave, CoreInv, DeletionInv
  <2>2. DeleteAt(2)'
    BY <1>23, <2>1, DeleteMoves DEF Leave
  <2>3. ~app'.relay /\ UNCHANGED <<file, conn, keystore>>
    BY <1>23 DEF Leave, Types, Apps
  <2>4. past'.failures = 0 => ~registered'
    BY <1>23 DEF Leave, Types, Pasts
  <2> QED BY <2>1, <2>2, <2>3, <2>4, DeletionAt DEF Deleted, Exists
<1>24. CASE JobLock
  BY <1>0, <1>24 DEF JobLock, Doing, durable
<1>25. CASE WipeSecret
  <2>1. UNCHANGED <<app, past, registered, conn, file>> /\ Next1(0)
    BY <1>25 DEF WipeSecret
  <2>2. PICK s \in {"bio", "pin", "lockout", "chat"} :
           /\ Doing(s)
           /\ keystore'.bio = IF s = "bio" THEN None ELSE keystore.bio
           /\ keystore'.pin = IF s = "pin" THEN None ELSE keystore.pin
           /\ keystore'.chat = IF s = "chat" THEN FALSE ELSE keystore.chat
    BY <1>25 DEF WipeSecret, Types, Keystores
  <2>3. CASE job.kind = "delete"
    <3>1. PICK i \in {3, 5, 6, 7} : DeleteAt(i)
      BY <2>2, <2>3, Positions DEF CoreInv, EraseAt, GuardAt
    <3>2. DeleteAt(i + 1)' /\ i + 1 \in 1..8
      BY <2>1, <3>1, DeleteMoves
    <3>3. s = DeleteSteps[i] /\ Deleted(i)
      BY <2>2, <3>1, DeleteMoves DEF CoreInv, DeletionInv
    <3>4. Deleted(i + 1)'
      BY <2>1, <2>2, <3>1, <3>3, Steps DEF Deleted, Exists
    <3> QED BY <3>2, <3>4, DeletionAt
  <2>4. CASE job.kind # "delete"
    BY <2>1, <2>4, NoDeletion DEF Next1, Types, Jobs
  <2> QED BY <2>3, <2>4
<1>26. CASE WipeFile
  <2>1. DeleteAt(4) /\ Deleted(4)
    BY <1>26, Positions DEF WipeFile, CoreInv, DeletionInv
  <2>2. DeleteAt(5)'
    BY <1>26, <2>1, DeleteMoves DEF WipeFile
  <2>3. Deleted(5)'
    BY <1>26, <2>1 DEF WipeFile, Deleted, Exists
  <2> QED BY <2>2, <2>3, DeletionAt
<1>27. CASE WipePrefs
  <2>1. job' = NoJob
    BY <1>27, Alone DEF WipePrefs, Doing
  <2> QED BY <2>1, NoDeletion DEF NoJob
<1>28. CASE Erased
  <2>1. job' = NoJob
    BY <1>28, Alone DEF Erased
  <2> QED BY <2>1, NoDeletion DEF NoJob
<1>29. CASE StepFails
  <2>1. UNCHANGED <<keystore, registered, conn, file>> /\ past'.failures = past.failures + 1
        /\ past.failures \in Nat
    BY <1>29 DEF StepFails, durable, Types, Pasts
  <2>2. CASE Doing("prefs")
    BY <1>29, <2>2, NoDeletion DEF StepFails, Doing, NoJob
  <2>3. CASE ~Doing("prefs")
    <3>1. PICK s \in {"chat", "file", "lockout", "bio", "pin"}, n \in 0..2 :
             /\ Doing(s) /\ Next1(n) /\ n = IF s = "bio" THEN 2 ELSE IF s = "pin" THEN 1 ELSE 0
      BY <1>29, <2>3 DEF StepFails
    <3>2. PICK i \in {3, 4, 5, 6, 7} : DeleteAt(i)
      BY <1>29, <3>1, Positions DEF StepFails, CoreInv, EraseAt, GuardAt
    <3>3. s = DeleteSteps[i] /\ Deleted(i)
      BY <3>1, <3>2, DeleteMoves DEF CoreInv, DeletionInv
    <3>4. DeleteAt(i + 1 + n)' /\ i + 1 + n \in 1..8 /\ (i + 1 + n = i + 1 \/ (i \in {5, 6} /\ i + 1 + n = 8))
      BY <3>1, <3>2, <3>3, DeleteMoves, Steps
    <3>5. UNCHANGED app /\ (past.kept => past'.kept) /\ (s = "file" => past'.kept)
      BY <1>29, <2>3, <3>1 DEF StepFails, Types, Pasts
    <3>6. Deleted(i + 1 + n)'
      BY <2>1, <3>2, <3>3, <3>4, <3>5, Steps DEF Deleted, Exists
    <3> QED BY <3>4, <3>6, DeletionAt
  <2> QED BY <2>2, <2>3
<1> QED BY <1>1, <1>2, <1>3, <1>4, <1>5, <1>6, <1>7, <1>8, <1>9, <1>10, <1>11, <1>12, <1>13, <1>14,
     <1>15, <1>16, <1>17, <1>18, <1>19, <1>20, <1>21, <1>22, <1>23, <1>24, <1>25, <1>26, <1>27,
     <1>28, <1>29 DEF Next

LEMMA CoreInit ==
    ASSUME Init
    PROVE  CoreInv
<1>1. /\ conn = None /\ app = Closed /\ unlock = NoUnlock /\ lockers = {} /\ online = "idle"
      /\ gen = [g \in Generations |-> NoGen] /\ draft = NoDraft /\ job = NoJob
  BY DEF Init
<1>2. /\ ~app.onboarded /\ ~app.up /\ app.status = "locked" /\ ~draft.pin
      /\ Quiet /\ job.kind = "none"
  BY <1>1 DEF Closed, NoDraft, NoGen, NoJob, Quiet, Working
<1>3. Exists => file.key \in Keys
  <2>1. KeyOfOld \in Keys
    BY AccountConstants DEF KeyOfOld
  <2> QED BY <2>1 DEF Init, InitialFile, Rows, Exists
<1>4. JobInv /\ DownInv /\ PhaseInv
  BY <1>1, <1>2 DEF JobInv, DownInv, PhaseInv
<1>5. GensInv
  BY <1>1, <1>2 DEF GensInv, GenInv, NoGen, NoDraft
<1>6. FileInv /\ DeletionInv
  BY <1>2, <1>3 DEF FileInv, DeletionInv, DeleteAt
<1> QED BY <1>4, <1>5, <1>6 DEF CoreInv

LEMMA CoreStep ==
    ASSUME Types, CoreInv, OneScreen, ~UnlockInWipe, [Next]_vars
    PROVE  CoreInv'
<1>1. CASE Next
  <2>1. JobInv' /\ DownInv'
    BY <1>1, JobInvStep, DownInvStep
  <2>2. PhaseInv' /\ GensInv'
    BY <1>1, PhaseInvStep, GensInvStep
  <2>3. FileInv' /\ DeletionInv'
    BY <1>1, FileInvStep, DeletionInvStep
  <2> QED BY <2>1, <2>2, <2>3 DEF CoreInv
<1>2. CASE UNCHANGED vars
  BY <1>2, ZenonT(30) DEF vars, CoreInv, JobInv, DownInv, PhaseInv, GensInv, GenInv, FileInv, DeletionInv, Deleted,
     DeleteAt, EraseAt, GuardAt, Suffix, Quiet, Exists
<1> QED BY <1>1, <1>2

LEMMA NotGone ==
    ASSUME ~past'.gone
    PROVE  GoneInv'
BY DEF GoneInv

LEMMA GoneKept ==
    ASSUME Types, GoneInv, past'.gone = past.gone, past'.failures = past.failures,
           UNCHANGED <<gen, draft>>, prefs' => prefs, registered' => registered,
           file' = file \/ ~Exists', ~app'.onboarded, ~app'.relay, ~app'.account,
           keystore'.bio \in {keystore.bio, None}, keystore'.pin \in {keystore.pin, None},
           keystore'.chat => keystore.chat
    PROVE  GoneInv'
BY DEF GoneInv, Quiet, Exists

LEMMA FewFailuresStep ==
    ASSUME Types, FewFailures, MaxFailures \in {0, 1}, Next
    PROVE  FewFailures'
<1>0. ASSUME UNCHANGED <<past>> PROVE FewFailures'
  BY <1>0 DEF Types, FewFailures, Pasts
<1>1. CASE Boot
  BY <1>0, <1>1 DEF Boot, durable
<1>2. CASE Restart
  BY <1>2 DEF Restart, Upgrading, FewFailures, Types, Pasts
<1>3. CASE SaveLockout
  BY <1>0, <1>3 DEF SaveLockout, durable
<1>4. CASE LockoutEnds
  BY <1>4 DEF LockoutEnds, FewFailures, Types, Pasts
<1>5. ASSUME NEW by \in {"bio", "pin"}, StartUnlock(by) PROVE FewFailures'
  BY <1>0, <1>5 DEF StartUnlock, OnLockScreen, NoUnlock, durable
<1>6. ASSUME NEW b \in BOOLEAN, KeyReleased(b) PROVE FewFailures'
  BY <1>6 DEF KeyReleased, Refused, Unlocked, Counted, NoUnlock, FewFailures, Types, Pasts
<1>7. ASSUME NEW b \in BOOLEAN, Opened(b) PROVE FewFailures'
  BY <1>7 DEF Opened, Refused, Unlocked, Counted, NoUnlock, Answered, Readable, FewFailures, Types, Pasts
<1>8. ASSUME NEW c \in {"auto", "user"}, Lock(c) PROVE FewFailures'
  BY <1>0, <1>8 DEF Lock, durable
<1>9. ASSUME NEW c \in {"auto", "user", "job"}, Locked(c) PROVE FewFailures'
  BY <1>0, <1>9 DEF Locked, Upgrading, durable
<1>10. CASE Online
  BY <1>0, <1>10 DEF Online, OnlineStep, Readable, durable
<1>11. CASE Register
  BY <1>0, <1>11 DEF Register, durable
<1>12. ASSUME NEW g \in Generations, StartGeneration(g) PROVE FewFailures'
  BY <1>12 DEF StartGeneration, FewFailures, Types, Pasts
<1>13. ASSUME NEW g \in Generations, DeleteOld(g) PROVE FewFailures'
  BY <1>0, <1>13 DEF DeleteOld, At, NewApp, durable
<1>14. ASSUME NEW g \in Generations, Provision(g) PROVE FewFailures'
  BY <1>0, <1>14 DEF Provision, At, NewApp, FreshKey, durable
<1>15. ASSUME NEW g \in Generations, OpenNew(g) PROVE FewFailures'
  BY <1>0, <1>15 DEF OpenNew, At, NewApp, durable
<1>16. ASSUME NEW g \in Generations, MarkUnlocked(g) PROVE FewFailures'
  BY <1>0, <1>16 DEF MarkUnlocked, At, NewApp, Answered, Readable, durable
<1>17. ASSUME NEW g \in Generations, InstallIdentity(g) PROVE FewFailures'
  BY <1>0, <1>17 DEF InstallIdentity, Provisioned, At, NewApp, Readable, durable
<1>18. ASSUME NEW g \in Generations, StoreAccount(g) PROVE FewFailures'
  BY <1>0, <1>18 DEF StoreAccount, Provisioned, At, NewApp, Readable, durable
<1>19. CASE SetPin
  BY <1>19 DEF SetPin, OnPinScreen, FewFailures, Types, Pasts
<1>20. CASE Complete
  BY <1>20 DEF Complete, OnCompleteScreen, FewFailures, Types, Pasts
<1>21. CASE SavePrefs
  BY <1>0, <1>21 DEF SavePrefs, durable
<1>22. ASSUME NEW kind \in {"delete", "erase"}, StartWipe(kind) PROVE FewFailures'
  BY <1>22 DEF StartWipe, InTabs, FewFailures, Types, Pasts
<1>23. CASE Leave
  BY <1>23 DEF Leave, Doing, Next1, FewFailures, Types, Pasts
<1>24. CASE JobLock
  BY <1>0, <1>24 DEF JobLock, Doing, durable
<1>25. CASE WipeSecret
  BY <1>0, <1>25 DEF WipeSecret, Doing, Next1, durable
<1>26. CASE WipeFile
  BY <1>0, <1>26 DEF WipeFile, Doing, Next1, durable
<1>27. CASE WipePrefs
  BY <1>27 DEF WipePrefs, Doing, FewFailures, Types, Pasts
<1>28. CASE Erased
  BY <1>0, <1>28 DEF Erased, durable
<1>29. CASE StepFails
  BY <1>29 DEF StepFails, Doing, Next1, FewFailures, Types, Pasts
<1> QED BY <1>1, <1>2, <1>3, <1>4, <1>5, <1>6, <1>7, <1>8, <1>9, <1>10, <1>11, <1>12, <1>13, <1>14,
     <1>15, <1>16, <1>17, <1>18, <1>19, <1>20, <1>21, <1>22, <1>23, <1>24, <1>25, <1>26, <1>27,
     <1>28, <1>29 DEF Next

\* What is true after a deletion stays true until the next key generation.
LEMMA GoneInvStep ==
    ASSUME Types, CoreInv, GoneInv, FewFailures, OneScreen, ~UnlockInWipe, MaxFailures \in {0, 1}, Next
    PROVE  GoneInv'
<1>0. ASSUME UNCHANGED <<app, gen, draft, prefs, file, keystore, past, registered>> PROVE GoneInv'
  BY <1>0 DEF Types, GoneInv, Quiet, Exists
<1>1. CASE Boot
  <2>1. UNCHANGED <<keystore, prefs, file, registered, gen, draft, past>>
    BY <1>1 DEF Boot, durable
  <2>2. CASE past.gone
    <3>1. ~app'.onboarded /\ ~app'.relay /\ ~app'.account
      BY <1>1, <2>2 DEF Boot, GoneInv, Types, Apps
    <3> QED BY <2>1, <3>1, GoneKept
  <2> QED BY <2>1, <2>2, NotGone
<1>2. CASE Restart
  <2>1. past'.gone = past.gone /\ past'.failures = past.failures /\ app' = Closed
        /\ draft' = NoDraft /\ Quiet' /\ UNCHANGED <<keystore, prefs, registered>>
        /\ (file' = file \/ ~Exists')
    BY <1>2 DEF Restart, Upgrading, Types, Pasts, Quiet, NoGen, Working, Exists
  <2> QED BY <2>1 DEF GoneInv, Closed, Exists
<1>3. CASE SaveLockout
  <2>1. /\ keystore'.bio = keystore.bio /\ keystore'.pin = keystore.pin /\ keystore'.chat = keystore.chat
        /\ past'.gone = past.gone /\ past'.failures = past.failures
        /\ UNCHANGED <<gen, draft, prefs, registered, file, app>>
    BY <1>3 DEF SaveLockout, Types, Keystores, Pasts
  <2> QED BY <2>1 DEF GoneInv, Quiet, Exists
<1>4. CASE LockoutEnds
  <2>1. /\ keystore'.bio = keystore.bio /\ keystore'.pin = keystore.pin /\ keystore'.chat = keystore.chat
        /\ past'.gone = past.gone /\ past'.failures = past.failures
        /\ UNCHANGED <<gen, draft, prefs, registered, file, app>>
    BY <1>4 DEF LockoutEnds, Types, Keystores, Pasts
  <2> QED BY <2>1 DEF GoneInv, Quiet, Exists
<1>5. ASSUME NEW by \in {"bio", "pin"}, StartUnlock(by) PROVE GoneInv'
  <2>1. app.onboarded
    BY <1>5, Alone DEF StartUnlock, OnLockScreen, NoUnlock
  <2>2. past'.gone = past.gone
    BY <1>5 DEF StartUnlock, OnLockScreen, NoUnlock, durable, Types, Pasts
  <2> QED BY <2>1, <2>2, NotGone DEF GoneInv
<1>6. ASSUME NEW b \in BOOLEAN, KeyReleased(b) PROVE GoneInv'
  <2>1. app.onboarded
    BY <1>6, Alone DEF KeyReleased, Refused, Unlocked, Counted, NoUnlock
  <2>2. past'.gone = past.gone
    BY <1>6 DEF KeyReleased, Refused, Unlocked, Counted, NoUnlock, Types, Pasts
  <2> QED BY <2>1, <2>2, NotGone DEF GoneInv
<1>7. ASSUME NEW b \in BOOLEAN, Opened(b) PROVE GoneInv'
  <2>1. app.onboarded
    BY <1>7, Alone DEF Opened, Refused, Unlocked, Counted, NoUnlock, Answered, Readable
  <2>2. past'.gone = past.gone
    BY <1>7 DEF Opened, Refused, Unlocked, Counted, NoUnlock, Answered, Readable, Types, Pasts
  <2> QED BY <2>1, <2>2, NotGone DEF GoneInv
<1>8. ASSUME NEW c \in {"auto", "user"}, Lock(c) PROVE GoneInv'
  BY <1>0, <1>8 DEF Lock, durable
<1>9. ASSUME NEW c \in {"auto", "user", "job"}, Locked(c) PROVE GoneInv'
  <2>1. /\ app'.onboarded = app.onboarded /\ app'.relay = app.relay /\ ~app'.account
        /\ UNCHANGED <<keystore, prefs, file, registered, gen, draft, past>>
    BY <1>9 DEF Locked, Upgrading, durable, Types, Apps
  <2> QED BY <2>1 DEF GoneInv, Quiet, Exists
<1>10. CASE Online
  <2>1. app.onboarded
    BY <1>10, Alone DEF Online, OnlineStep, Readable
  <2>2. past'.gone = past.gone
    BY <1>10 DEF Online, OnlineStep, Readable, durable, Types, Pasts
  <2> QED BY <2>1, <2>2, NotGone DEF GoneInv
<1>11. CASE Register
  <2>1. ~past.gone
    BY <1>11 DEF Register, GoneInv
  <2> QED BY <1>11, <2>1, NotGone DEF Register
<1>12. ASSUME NEW g \in Generations, StartGeneration(g) PROVE GoneInv'
  BY <1>12, NotGone DEF StartGeneration, Types, Pasts
<1>13. ASSUME NEW g \in Generations, DeleteOld(g) PROVE GoneInv'
  <2>1. ~past.gone
    BY <1>13 DEF DeleteOld, At, NewApp, GoneInv, Quiet, Working
  <2> QED BY <1>13, <2>1, NotGone DEF DeleteOld, At, NewApp
<1>14. ASSUME NEW g \in Generations, Provision(g) PROVE GoneInv'
  <2>1. ~past.gone
    BY <1>14 DEF Provision, At, NewApp, FreshKey, GoneInv, Quiet, Working
  <2> QED BY <1>14, <2>1, NotGone DEF Provision, At, NewApp, FreshKey
<1>15. ASSUME NEW g \in Generations, OpenNew(g) PROVE GoneInv'
  <2>1. ~past.gone
    BY <1>15 DEF OpenNew, At, NewApp, GoneInv, Quiet, Working
  <2> QED BY <1>15, <2>1, NotGone DEF OpenNew, At, NewApp
<1>16. ASSUME NEW g \in Generations, MarkUnlocked(g) PROVE GoneInv'
  <2>1. ~past.gone
    BY <1>16 DEF MarkUnlocked, At, NewApp, Answered, Readable, GoneInv, Quiet, Working
  <2> QED BY <1>16, <2>1, NotGone DEF MarkUnlocked, At, NewApp, Answered, Readable
<1>17. ASSUME NEW g \in Generations, InstallIdentity(g) PROVE GoneInv'
  <2>1. ~past.gone
    BY <1>17 DEF InstallIdentity, Provisioned, At, NewApp, Readable, GoneInv, Quiet, Working
  <2> QED BY <1>17, <2>1, NotGone DEF InstallIdentity, Provisioned, At, NewApp, Readable
<1>18. ASSUME NEW g \in Generations, StoreAccount(g) PROVE GoneInv'
  <2>1. ~past.gone
    BY <1>18 DEF StoreAccount, Provisioned, At, NewApp, Readable, GoneInv, Quiet, Working
  <2> QED BY <1>18, <2>1, NotGone DEF StoreAccount, Provisioned, At, NewApp, Readable
<1>19. CASE SetPin
  <2>1. ~past.gone
    BY <1>19 DEF SetPin, OnPinScreen, GoneInv, NoDraft
  <2>2. past'.gone = past.gone
    BY <1>19 DEF SetPin, OnPinScreen, Types, Pasts
  <2> QED BY <2>1, <2>2, NotGone
<1>20. CASE Complete
  <2>1. ~past.gone
    BY <1>20 DEF Complete, OnCompleteScreen, GoneInv, NoDraft
  <2>2. past'.gone = past.gone
    BY <1>20 DEF Complete, OnCompleteScreen, Types, Pasts
  <2> QED BY <2>1, <2>2, NotGone
<1>21. CASE SavePrefs
  <2>1. app.onboarded
    BY <1>21, Alone DEF SavePrefs
  <2>2. past'.gone = past.gone
    BY <1>21 DEF SavePrefs, durable, Types, Pasts
  <2> QED BY <2>1, <2>2, NotGone DEF GoneInv
<1>22. ASSUME NEW kind \in {"delete", "erase"}, StartWipe(kind) PROVE GoneInv'
  <2>1. app.onboarded
    BY <1>22, Alone DEF StartWipe, InTabs
  <2>2. past'.gone = past.gone
    BY <1>22 DEF StartWipe, InTabs, durable, Types, Pasts
  <2> QED BY <2>1, <2>2, NotGone DEF GoneInv
<1>23. CASE Leave
  <2>1. app.onboarded
    BY <1>23, Positions DEF Leave, Doing, Next1, CoreInv, JobInv, DeleteAt
  <2>2. past'.gone = past.gone
    BY <1>23 DEF Leave, Doing, Next1, Types, Pasts
  <2> QED BY <2>1, <2>2, NotGone DEF GoneInv
<1>24. CASE JobLock
  BY <1>0, <1>24 DEF JobLock, Doing, durable
<1>25. CASE WipeSecret
  <2>1. /\ keystore'.bio \in {keystore.bio, None} /\ keystore'.pin \in {keystore.pin, None}
        /\ (keystore'.chat => keystore.chat)
        /\ UNCHANGED <<gen, draft, prefs, registered, file, app, past>>
    BY <1>25 DEF WipeSecret, Doing, Next1, Types, Keystores
  <2> QED BY <2>1 DEF GoneInv, Quiet, Exists
<1>26. CASE WipeFile
  <2>1. UNCHANGED <<gen, draft, prefs, registered, keystore, app, past>> /\ ~Exists'
    BY <1>26 DEF WipeFile, Doing, Next1, Exists
  <2> QED BY <2>1 DEF GoneInv, Quiet, Exists
<1>27. CASE WipePrefs
  <2>1. CASE job.kind = "delete"
    <3>1. Deleted(8)
      BY <1>27, <2>1, Positions DEF WipePrefs, Doing, CoreInv, DeletionInv, GuardAt
    <3>2. Quiet /\ draft = NoDraft
      BY <2>1, NoScreen DEF NoJob
    <3>3. past.failures \in Nat /\ past.failures <= 1
      BY DEF FewFailures, Types, Pasts
    <3>4. /\ UNCHANGED <<keystore, file, registered, gen, draft>> /\ past'.failures = past.failures
          /\ ~prefs' /\ ~app'.onboarded /\ ~app'.account /\ app'.relay = app.relay
      BY <1>27 DEF WipePrefs, Doing, Types, Apps, Pasts
    <3> QED BY <3>1, <3>2, <3>3, <3>4 DEF GoneInv, Deleted, Quiet, Exists
  <2>2. CASE job.kind # "delete"
    BY <1>27, <2>2, NotGone DEF WipePrefs, Doing, Types, Pasts
  <2> QED BY <2>1, <2>2
<1>28. CASE Erased
  BY <1>0, <1>28 DEF Erased, durable
<1>29. CASE StepFails
  <2>1. CASE Doing("prefs")
    <3>1. Deleted(8)
      BY <1>29, <2>1, Positions DEF StepFails, Doing, Next1, CoreInv, DeletionInv, GuardAt
    <3>2. Quiet /\ draft = NoDraft
      BY <1>29, NoScreen DEF StepFails, Doing, Next1, NoJob
    <3>3. past.failures = 0
      BY <1>29 DEF StepFails, Doing, Next1, Types, Pasts
    <3>6. past'.failures = past.failures + 1
      BY <1>29 DEF StepFails, Doing, Next1, Types, Pasts
    <3>7. app' = [app EXCEPT !.onboarded = FALSE, !.account = FALSE]
      BY <1>29, <2>1 DEF StepFails, Doing, Next1
    <3>4. /\ UNCHANGED <<keystore, file, registered, gen, draft>> /\ past'.failures = 1
          /\ ~app'.onboarded /\ ~app'.account /\ app'.relay = app.relay
      BY <1>29, <3>3, <3>6, <3>7 DEF StepFails, durable, Types, Apps
    <3>5. file = NoFile
      BY <3>1, <3>3 DEF Deleted
    <3> QED BY <3>1, <3>2, <3>4, <3>5 DEF GoneInv, Deleted, Quiet, Exists
  <2>2. CASE ~Doing("prefs")
    BY <1>29, <2>2, NotGone DEF StepFails, Doing, Next1, Types, Pasts
  <2> QED BY <2>1, <2>2
<1> QED BY <1>1, <1>2, <1>3, <1>4, <1>5, <1>6, <1>7, <1>8, <1>9, <1>10, <1>11, <1>12, <1>13, <1>14,
     <1>15, <1>16, <1>17, <1>18, <1>19, <1>20, <1>21, <1>22, <1>23, <1>24, <1>25, <1>26, <1>27,
     <1>28, <1>29 DEF Next

\* What a deletion leaves cannot be opened and does not come back, when at
\* most one of its steps failed: nothing but the next key generation of the
\* welcome screen writes keys, rows or the record at the relay again.
THEOREM DeletedIsGone ==
    ASSUME OneScreen, ~UnlockInWipe, MaxFailures \in {0, 1}
    PROVE  Spec => []GoneForGood
<1> DEFINE I == Types /\ CoreInv /\ GoneInv /\ FewFailures
<1>1. Init => I
  BY TypesInductive, CoreInit DEF Init, GoneInv, FewFailures
<1>2. I /\ [Next]_vars => I'
  <2>1. SUFFICES ASSUME I, [Next]_vars PROVE I'
    OBVIOUS
  <2>2. Types' /\ CoreInv' /\ FewFailures'
    <3>1. FewFailures'
      BY <2>1, FewFailuresStep DEF vars, FewFailures
    <3> QED BY <2>1, <3>1, TypesInductive, CoreStep
  <2>3. GoneInv'
    <3>1. CASE Next
      BY <2>1, <3>1, GoneInvStep
    <3>2. CASE UNCHANGED vars
      BY <2>1, <3>2 DEF vars, GoneInv, Quiet, Exists
    <3> QED BY <2>1, <3>1, <3>2
  <2> QED BY <2>2, <2>3
<1>3. I => GoneForGood
  <2>1. ASSUME I, past.gone PROVE GoneForGood
    <3>1. Exists => file.key \in Keys
      BY <2>1 DEF CoreInv, FileInv
    <3> QED BY <2>1, <3>1, AccountConstants DEF GoneInv, GoneForGood
  <2> QED BY <2>1 DEF GoneForGood
<1> HIDE DEF I
<1> QED BY <1>1, <1>2, <1>3, PTL DEF Spec

LEMMA FormatKept ==
    ASSUME FormatInv, UNCHANGED <<file, conn, online>>, app'.relay => app.relay,
           app'.relay => app'.onboarded
    PROVE  FormatInv'
BY DEF FormatInv, Upgrading, Readable, Exists, Sound

LEMMA FormatIdle ==
    ASSUME FormatInv, ~Upgrading, UNCHANGED file, ~Upgrading', online' # "prefs" \/ online = "prefs",
           app'.relay => app.relay /\ app'.onboarded
    PROVE  FormatInv'
BY DEF FormatInv, Exists, Sound

\* The formats of the store, of the account and of the confirms move together.
LEMMA FormatInvStep ==
    ASSUME Types, CoreInv, FormatInv, OneScreen, ~UnlockInWipe, ~Interrupt, Next
    PROVE  FormatInv'
<1>0. ASSUME UNCHANGED <<file, online, conn, app>> PROVE FormatInv'
  BY <1>0 DEF Types, FormatInv, Exists, Upgrading, Readable, Sound
<1>1. CASE Boot
  <2>1. ~app.relay /\ UNCHANGED <<file, conn, online>>
    BY <1>1 DEF Boot, durable, CoreInv, DownInv, Closed
  <2>2. app'.relay = app.relay
    BY <1>1 DEF Boot, Types, Apps
  <2> QED BY <2>1, <2>2, FormatKept
<1>2. CASE Restart
  <2>1. ~Upgrading /\ ~Upgrading' /\ online' = "idle" /\ ~app'.relay /\ (file' = file \/ ~Exists')
    BY <1>2 DEF Restart, Upgrading, Closed, Exists
  <2> QED BY <2>1 DEF FormatInv, Exists
<1>3. CASE SaveLockout
  BY <1>0, <1>3 DEF SaveLockout, durable
<1>4. CASE LockoutEnds
  BY <1>0, <1>4 DEF LockoutEnds, durable
<1>5. ASSUME NEW by \in {"bio", "pin"}, StartUnlock(by) PROVE FormatInv'
  <2>1. app'.onboarded = app.onboarded /\ app'.relay = app.relay /\ UNCHANGED <<file, conn, online>>
    BY <1>5 DEF StartUnlock, OnLockScreen, NoUnlock, Types, Apps, durable
  <2> QED BY <2>1, FormatKept DEF FormatInv
<1>6. ASSUME NEW b \in BOOLEAN, KeyReleased(b) PROVE FormatInv'
  <2>2. Exists /\ UNCHANGED file
    <3>1. Exists
      BY <1>6, Alone DEF KeyReleased, CoreInv, FileInv, NoJob
    <3> QED BY <1>6, <3>1 DEF KeyReleased
  <2>3. CASE (Refused \/ \E k : Unlocked(k)) /\ conn' = conn
    <3>0. Refused \/ \E k : Unlocked(k)
      BY <2>3
    <3>1. app'.onboarded = app.onboarded /\ app'.relay = app.relay
          /\ (online' = online \/ (online = "idle" /\ online' = "look"))
      BY <3>0 DEF Refused, Unlocked, Types, Apps
    <3> QED BY <2>2, <2>3, <3>1 DEF FormatInv, Exists, Readable, Upgrading, Sound
  <2>4. CASE ~((Refused \/ \E k : Unlocked(k)) /\ conn' = conn)
    <3>1. conn = None /\ UNCHANGED <<app, online>>
      BY <1>6, <2>4 DEF KeyReleased
    <3>2. ~Upgrading /\ ~Upgrading'
      BY <3>1 DEF FormatInv, Upgrading
    <3> QED BY <2>2, <3>1, <3>2, FormatIdle DEF FormatInv
  <2> QED BY <2>3, <2>4
<1>7. ASSUME NEW b \in BOOLEAN, Opened(b) PROVE FormatInv'
  <2>0. (Refused \/ \E k : Unlocked(k)) /\ UNCHANGED <<file, conn>>
    BY <1>7 DEF Opened, durable
  <2>1. app'.onboarded = app.onboarded /\ app'.relay = app.relay
        /\ (online' = online \/ (online = "idle" /\ online' = "look"))
    BY <2>0 DEF Refused, Unlocked, Types, Apps
  <2> QED BY <2>0, <2>1 DEF FormatInv, Exists, Readable, Upgrading, Sound
<1>8. ASSUME NEW c \in {"auto", "user"}, Lock(c) PROVE FormatInv'
  BY <1>0, <1>8 DEF Lock, durable
<1>9. ASSUME NEW c \in {"auto", "user", "job"}, Locked(c) PROVE FormatInv'
  <2>1. app'.onboarded = app.onboarded /\ app'.relay = app.relay /\ UNCHANGED <<file, online>> /\ ~Upgrading
    BY <1>9 DEF Locked, Upgrading, durable, Types, Apps
  <2> QED BY <2>1, FormatIdle DEF FormatInv, Upgrading
<1>10. CASE Online
  <2>0. app'.onboarded = app.onboarded /\ app.onboarded /\ conn' = conn /\ (Readable => conn # None)
    BY <1>10, Alone, AccountConstants DEF Online, OnlineStep, Readable, Types, Apps, CoreInv, FileInv, Exists
  <2>1. CASE online = "prefs" /\ online' = "idle" /\ file' = file
    BY <2>0, <2>1 DEF FormatInv, Upgrading, Sound, Exists
  <2>2. CASE ~Readable /\ online' = "idle" /\ file' = file /\ app' = app
    BY <2>0, <2>2, FormatIdle DEF FormatInv, Upgrading
  <2>3. CASE Readable /\ app' = app /\ online = "look" /\ file' = file
             /\ online' = IF file.account = "none" \/ file.store = "native" THEN "account" ELSE "wipe"
    <3>1. ~Upgrading
      BY <2>3 DEF Upgrading
    <3>2. file.store \in Formats /\ file.account \in Formats /\ (file.account # "none" => file.store = file.account)
      BY <2>3, <3>1 DEF FormatInv, Readable, Types, Files
    <3> QED BY <2>0, <2>3, <3>1, <3>2 DEF FormatInv, Upgrading, Readable, Exists, Sound, Formats
  <2>4. CASE Readable /\ app' = app /\ online = "wipe" /\ online' = "install" /\ file' = [file EXCEPT !.store = "none"]
    <3>1. file'.store = "none" /\ file'.key = file.key /\ file'.account = file.account
      BY <2>4 DEF Types, Files
    <3> QED BY <2>0, <2>4, <3>1 DEF FormatInv, Upgrading, Readable, Exists, Sound, NoFile
  <2>5. CASE Readable /\ app' = app /\ online = "install" /\ online' = "rewrite" /\ file' = [file EXCEPT !.store = "native"]
    <3>1. file'.store = "native" /\ file'.key = file.key /\ file'.account = file.account
      BY <2>5 DEF Types, Files
    <3> QED BY <2>0, <2>5, <3>1 DEF FormatInv, Upgrading, Readable, Exists, Sound, NoFile
  <2>6. CASE Readable /\ app' = app /\ online = "rewrite" /\ online' = "unverify" /\ file' = [file EXCEPT !.account = "native"]
    <3>1. file'.store = file.store /\ file'.key = file.key /\ file'.account = "native"
      BY <2>6 DEF Types, Files
    <3> QED BY <2>0, <2>6, <3>1 DEF FormatInv, Upgrading, Readable, Exists, Sound, NoFile
  <2>7. CASE Readable /\ app' = app /\ online = "unverify" /\ online' = "account" /\ file' = [file EXCEPT !.confirmed = "none"]
    <3>1. file'.store = file.store /\ file'.key = file.key /\ file'.account = file.account /\ file'.confirmed = "none"
      BY <2>7 DEF Types, Files
    <3> QED BY <2>0, <2>7, <3>1 DEF FormatInv, Upgrading, Readable, Exists, Sound, NoFile
  <2>8. CASE Readable /\ app'.relay = app.relay /\ online = "account" /\ file' = file
             /\ online' = IF file.account = "native" THEN "prefs" ELSE "idle"
    BY <2>0, <2>8 DEF FormatInv, Upgrading, Readable, Exists, Sound
  <2>9. \/ online = "prefs" /\ online' = "idle" /\ file' = file
        \/ ~Readable /\ online' = "idle" /\ file' = file /\ app' = app
        \/ Readable /\ app' = app /\ online = "look" /\ file' = file /\ online' = IF file.account = "none" \/
             file.store = "native" THEN "account" ELSE "wipe"
        \/ Readable /\ app' = app /\ online = "wipe" /\ online' = "install" /\ file' = [file EXCEPT !.store =
             "none"]
        \/ Readable /\ app' = app /\ online = "install" /\ online' = "rewrite" /\ file' = [file EXCEPT !.store
             = "native"]
        \/ Readable /\ app' = app /\ online = "rewrite" /\ online' = "unverify" /\ file' = [file EXCEPT
             !.account = "native"]
        \/ Readable /\ app' = app /\ online = "unverify" /\ online' = "account" /\ file' = [file EXCEPT
             !.confirmed = "none"]
        \/ Readable /\ app'.relay = app.relay /\ online = "account" /\ file' = file /\ online' = IF
             file.account = "native" THEN "prefs" ELSE "idle"
    BY <1>10 DEF Online, OnlineStep, Types, Apps
  <2> QED BY <2>1, <2>2, <2>3, <2>4, <2>5, <2>6, <2>7, <2>8, <2>9
<1>11. CASE Register
  BY <1>0, <1>11 DEF Register, durable
<1>12. ASSUME NEW g \in Generations, StartGeneration(g) PROVE FormatInv'
  BY <1>0, <1>12 DEF StartGeneration, durable
<1>13. ASSUME NEW g \in Generations, DeleteOld(g) PROVE FormatInv'
  <2>1. online = "idle" /\ ~app.relay /\ GenInv(g)
    BY <1>13, Alone DEF DeleteOld, At, NewApp, Working, FormatInv, NoJob, CoreInv, GensInv
  <2>2. UNCHANGED <<app, online>>
    BY <1>13 DEF DeleteOld, At, NewApp
  <2> QED BY <1>13, <2>1, <2>2 DEF DeleteOld, FormatInv, Exists, Upgrading
<1>14. ASSUME NEW g \in Generations, Provision(g) PROVE FormatInv'
  BY <1>0, <1>14 DEF Provision, At, NewApp, FreshKey, durable
<1>15. ASSUME NEW g \in Generations, OpenNew(g) PROVE FormatInv'
  <2>1. online = "idle" /\ ~app.relay /\ GenInv(g)
    BY <1>15, Alone DEF OpenNew, At, NewApp, Working, FormatInv, NoJob, CoreInv, GensInv
  <2>2. UNCHANGED <<app, online>>
    BY <1>15 DEF OpenNew, At, NewApp
  <2>3. file = NoFile /\ (Exists' => file' = [NoFile EXCEPT !.key = gen[g].key])
    BY <1>15, <2>1 DEF OpenNew, At, NewApp, GenInv, Exists
  <2> QED BY <2>1, <2>2, <2>3 DEF FormatInv, Upgrading, NoFile
<1>16. ASSUME NEW g \in Generations, MarkUnlocked(g) PROVE FormatInv'
  <2>1. app'.onboarded = app.onboarded /\ app'.relay = app.relay /\ UNCHANGED <<file, conn, online>>
    BY <1>16 DEF MarkUnlocked, At, NewApp, Answered, Readable, Types, Apps, durable
  <2> QED BY <2>1, FormatKept DEF FormatInv
<1>17. ASSUME NEW g \in Generations, InstallIdentity(g) PROVE FormatInv'
  <2>1. online = "idle" /\ ~app.relay /\ GenInv(g)
    BY <1>17, Alone DEF InstallIdentity, Provisioned, At, NewApp, Readable, Working, FormatInv, NoJob, CoreInv, GensInv
  <2>2. UNCHANGED <<app, online>>
    BY <1>17 DEF InstallIdentity, Provisioned, At, NewApp, Readable
  <2>3. file.account = "none" /\ file.confirmed = "none"
    BY <1>17, <2>1 DEF InstallIdentity, Provisioned, At, NewApp, Readable, GenInv
  <2>4. file'.account = file.account /\ file'.confirmed = file.confirmed
    BY <1>17 DEF InstallIdentity, Provisioned, At, NewApp, Readable, Types, Files
  <2> QED BY <2>1, <2>2, <2>3, <2>4 DEF FormatInv, Upgrading
<1>18. ASSUME NEW g \in Generations, StoreAccount(g) PROVE FormatInv'
  <2>1. online = "idle" /\ ~app.relay /\ GenInv(g)
    BY <1>18, Alone DEF StoreAccount, Provisioned, At, NewApp, Readable, Working, FormatInv, NoJob, CoreInv, GensInv
  <2>2. UNCHANGED <<app, online>>
    BY <1>18 DEF StoreAccount, Provisioned, At, NewApp, Readable
  <2>3. file.store = "native" /\ file.confirmed = "none" /\ file.account = "none"
    BY <1>18, <2>1 DEF StoreAccount, Provisioned, At, NewApp, Readable, GenInv
  <2>4. file' = file \/ (file'.account = "native" /\ file'.store = file.store /\ file'.confirmed = file.confirmed)
    BY <1>18 DEF StoreAccount, Provisioned, At, NewApp, Readable, Types, Files
  <2> QED BY <2>1, <2>2, <2>3, <2>4 DEF FormatInv, Upgrading
<1>19. CASE SetPin
  BY <1>0, <1>19 DEF SetPin, OnPinScreen, durable
<1>20. CASE Complete
  <2>1. PICK g \in Generations : gen[g].pc = "done"
    BY <1>20 DEF Complete, OnCompleteScreen, CoreInv, FileInv
  <2>2. GenInv(g)
    BY DEF CoreInv, GensInv
  <2>3. Exists
    BY <1>20, <2>1, <2>2, AccountConstants DEF Complete, OnCompleteScreen, GenInv, Exists, NoFile
  <2>4. Sound
    BY <1>20, <2>1, <2>2, <2>3 DEF Complete, OnCompleteScreen, GenInv, Sound
  <2>5. online' = "prefs" /\ file' = file /\ app'.onboarded
    BY <1>20 DEF Complete, OnCompleteScreen, durable, Types, Apps
  <2>6. ~Upgrading
    BY <1>20, Alone DEF Complete, OnCompleteScreen, Upgrading
  <2> QED BY <2>4, <2>5, <2>6 DEF FormatInv, Sound, Upgrading, Exists
<1>21. CASE SavePrefs
  BY <1>0, <1>21 DEF SavePrefs, durable
<1>22. ASSUME NEW kind \in {"delete", "erase"}, StartWipe(kind) PROVE FormatInv'
  BY <1>0, <1>22 DEF StartWipe, InTabs, durable
<1>23. CASE Leave
  <2>1. ~app'.relay /\ UNCHANGED <<file, conn, online>>
    BY <1>23 DEF Leave, Doing, Next1, Types, Apps
  <2> QED BY <2>1, FormatKept
<1>24. CASE JobLock
  BY <1>0, <1>24 DEF JobLock, Doing, durable
<1>25. CASE WipeSecret
  BY <1>0, <1>25 DEF WipeSecret, Doing, Next1, durable
<1>26. CASE WipeFile
  <2>1. DeleteAt(4) /\ Deleted(4)
    BY <1>26, Positions DEF WipeFile, CoreInv, DeletionInv
  <2>2. online = "idle" /\ UNCHANGED <<online, app>> /\ ~Exists'
    BY <1>26, <2>1 DEF WipeFile, Doing, Next1, CoreInv, JobInv, DeleteAt, Exists
  <2> QED BY <2>1, <2>2 DEF FormatInv, Deleted, Upgrading
<1>27. CASE WipePrefs
  <2>1. ~app.relay
    <3>1. DeleteAt(8) => Deleted(8)
      BY DEF CoreInv, DeletionInv
    <3>2. GuardAt(5) => ~app.up
      BY DEF GuardAt, CoreInv, JobInv
    <3>3. DeleteAt(8) \/ GuardAt(5)
      BY <1>27, Positions DEF WipePrefs, Doing, CoreInv
    <3> QED BY <3>1, <3>2, <3>3 DEF Deleted, CoreInv, DownInv, Closed
  <2>2. app'.relay = app.relay /\ UNCHANGED <<file, conn, online>>
    BY <1>27 DEF WipePrefs, Doing, Types, Apps
  <2> QED BY <2>1, <2>2, FormatKept
<1>28. CASE Erased
  BY <1>0, <1>28 DEF Erased, durable
<1>29. CASE StepFails
  <2>1. CASE Doing("prefs")
    <3>1. Deleted(8)
      BY <1>29, <2>1, Positions DEF StepFails, Doing, Next1, CoreInv, DeletionInv, GuardAt
    <3>2. app'.relay = app.relay /\ UNCHANGED <<file, conn, online>>
      BY <1>29, <2>1 DEF StepFails, Doing, Next1, durable, Types, Apps
    <3> QED BY <3>1, <3>2, FormatKept DEF Deleted
  <2>2. CASE ~Doing("prefs")
    BY <1>29, <2>2, FormatKept DEF StepFails, Doing, Next1, durable, FormatInv
  <2> QED BY <2>1, <2>2
<1> QED BY <1>1, <1>2, <1>3, <1>4, <1>5, <1>6, <1>7, <1>8, <1>9, <1>10, <1>11, <1>12, <1>13, <1>14,
     <1>15, <1>16, <1>17, <1>18, <1>19, <1>20, <1>21, <1>22, <1>23, <1>24, <1>25, <1>26, <1>27,
     <1>28, <1>29 DEF Next

LEMMA FormatInit ==
    ASSUME Init
    PROVE  FormatInv
<1>1. online = "idle" /\ app = Closed
  BY DEF Init
<1>2. PICK i : file = InitialFile(i)
  BY DEF Init
<1>3. Exists => file.confirmed = file.account /\ file.store = file.account
  BY <1>2 DEF InitialFile, Rows, Exists
<1> QED BY <1>1, <1>3 DEF FormatInv, Upgrading, Closed

\* Provided nothing cuts the upgrade of an old store short, the relay is only
\* wired on a store, an account and confirms of one and the same identity.
THEOREM ConfirmsOfOneIdentity ==
    ASSUME OneScreen, ~UnlockInWipe, ~Interrupt
    PROVE  Spec => []TrustFollowsIdentity
<1> DEFINE I == Types /\ CoreInv /\ FormatInv
<1>1. Init => I
  BY TypesInductive, CoreInit, FormatInit
<1>2. I /\ [Next]_vars => I'
  <2>1. SUFFICES ASSUME I, [Next]_vars PROVE I'
    OBVIOUS
  <2>2. Types' /\ CoreInv'
    BY <2>1, TypesInductive, CoreStep
  <2>3. FormatInv'
    <3>1. CASE Next
      BY <2>1, <3>1, FormatInvStep
    <3>2. CASE UNCHANGED vars
      BY <2>1, <3>2, FormatKept DEF vars, FormatInv
    <3> QED BY <2>1, <3>1, <3>2
  <2> QED BY <2>2, <2>3
<1>3. I => TrustFollowsIdentity
  BY DEF FormatInv, Sound, TrustFollowsIdentity
<1> HIDE DEF I
<1> QED BY <1>1, <1>2, <1>3, PTL DEF Spec

LEMMA WorthIs ==
    ASSUME NEW c \in Counters
    PROVE  Worth(c) \in Nat /\ Worth(c) <= MaxAttempts
BY AccountConstants DEF Worth, Counters

LEMMA CountsTyped ==
    ASSUME Types
    PROVE  /\ Worth(tries.now) \in Nat /\ Worth(tries.now) <= MaxAttempts
           /\ Worth(keystore.lockout) \in Nat /\ Worth(keystore.lockout) <= MaxAttempts
           /\ tries.save # << >> => Worth(tries.save[1]) \in Nat
           /\ past.wrong \in Nat /\ past.restarts \in Nat
<1>1. /\ tries.now \in Counters /\ keystore.lockout \in Counters
      /\ tries.save # << >> => tries.save[1] \in Counters
  BY DEF Types, Tries, Keystores
<1> QED BY <1>1, WorthIs DEF Types, Pasts

LEMMA NoneWrong ==
    ASSUME Types', past'.wrong = 0, ReadFirst'
    PROVE  AttemptsInv'
<1>1. /\ (Worth(tries.now) \in Nat)' /\ (Worth(keystore.lockout) \in Nat)'
      /\ (tries.save # << >> => Worth(tries.save[1]) \in Nat)'
      /\ past'.restarts \in Nat
  <2>1. /\ tries'.now \in Counters /\ keystore'.lockout \in Counters
        /\ tries'.save # << >> => tries'.save[1] \in Counters
    BY DEF Types, Tries, Keystores
  <2>2. Worth(tries'.now) \in Nat /\ Worth(keystore'.lockout) \in Nat
        /\ (tries'.save # << >> => Worth(tries'.save[1]) \in Nat)
    BY <2>1, WorthIs
  <2> QED BY <2>2 DEF Types, Pasts, Worth
<1> QED BY <1>1, AccountConstants DEF AttemptsInv, AttemptsBounded, ReadFirst

LEMMA UnlockedCounts ==
    ASSUME Types, Types', NEW k, Unlocked(k), app.up, tries.read
    PROVE  AttemptsInv'
<1>1. past'.wrong = 0 /\ tries'.read /\ app'.up /\ unlock' = NoUnlock
  BY DEF Unlocked, Counted, Types, Pasts, Tries, Apps
<1>2. ReadFirst'
  BY <1>1 DEF ReadFirst, NoUnlock
<1> QED BY <1>1, <1>2, NoneWrong

LEMMA RefusedCounts ==
    ASSUME Types, CoreInv, AttemptsInv, Refused, unlock.pc # "idle", tries.save = << >>,
           UNCHANGED <<keystore, prefs, draft, job, file>>
    PROVE  AttemptsInv'
<1>1. app.up /\ app.onboarded /\ job = NoJob /\ draft = NoDraft
  BY Alone, NoScreen
<1>2. app'.up /\ app'.onboarded /\ app'.status = "locked" /\ unlock' = NoUnlock
  BY <1>1 DEF Refused, Types, Apps
<1>3. ~Trusted' /\ Live /\ tries.read /\ ~tries.now.until
  BY <1>1, <1>2 DEF Trusted, NoJob, NoDraft, Live, AttemptsInv, ReadFirst
<1>4. past.wrong <= Worth(tries.now) + past.restarts /\ past.wrong <= Worth(keystore.lockout) + past.restarts
  BY <1>1, <1>3, CountsTyped DEF AttemptsInv
<1>5. CASE UNCHANGED <<tries, past>>
  <2>1. ReadFirst'
    BY <1>2, <1>3, <1>5 DEF ReadFirst, NoUnlock
  <2> QED BY <1>2, <1>3, <1>4, <1>5, <2>1 DEF AttemptsInv, AttemptsBounded, Worth
<1>6. CASE ~UNCHANGED <<tries, past>>
  <2>1. PICK n : n = tries.now.failed
    OBVIOUS
  <2>2. n \in 0..(MaxAttempts - 1) /\ Worth(tries.now) = n
    BY <1>3, <2>1 DEF Types, Tries, Counters, Worth
  <2>3. PICK c : c = IF n + 1 >= MaxAttempts THEN [failed |-> 0, until |-> TRUE]
                     ELSE [failed |-> n + 1, until |-> FALSE]
    OBVIOUS
  <2>4. Worth(c) = n + 1
    BY <2>2, <2>3, AccountConstants DEF Worth
  <2>5. tries' = [tries EXCEPT !.now = c, !.save = <<c>>] /\ past' = [past EXCEPT !.wrong = @ + 1]
    BY <1>6, <2>1, <2>3 DEF Refused, Counted
  <2>6. /\ tries'.now = c /\ tries'.read /\ tries'.save = <<c>>
        /\ past'.wrong = past.wrong + 1 /\ past'.restarts = past.restarts
    BY <1>3, <2>5 DEF Types, Tries, Pasts
  <2>7. ReadFirst'
    BY <1>2, <2>6 DEF ReadFirst, NoUnlock
  <2>8. past.wrong \in Nat /\ past.restarts \in Nat /\ Worth(keystore.lockout) \in Nat
    BY CountsTyped
  <2>9. Worth(keystore.lockout)' = Worth(keystore.lockout) /\ Worth(tries.now)' = n + 1
    BY <2>4, <2>6 DEF Worth
  <2>10. tries'.save # << >> /\ tries'.save[1] = c
    BY <2>6
  <2>11. AttemptsBounded'
    BY <1>4, <2>2, <2>6, <2>8, AccountConstants DEF AttemptsBounded
  <2>12. Worth(tries'.save[1]) = n + 1
    BY <2>4, <2>10
  <2>13. past'.wrong <= n + 1 + past'.restarts
    BY <1>4, <2>2, <2>6, <2>8
  <2> QED BY <1>3, <1>4, <2>6, <2>7, <2>8, <2>9, <2>10, <2>11, <2>12, <2>13 DEF AttemptsInv
<1> QED BY <1>5, <1>6

LEMMA AttemptsKept ==
    ASSUME Types, AttemptsInv, past'.wrong = past.wrong, past'.restarts = past.restarts,
           UNCHANGED tries, keystore'.lockout = keystore.lockout, ReadFirst',
           Trusted' => Trusted \/ past.wrong = 0, app'.onboarded => app.onboarded \/ past.wrong = 0,
           Live' => Live \/ past.wrong = 0
    PROVE  AttemptsInv'
<1>1. CASE past.wrong = 0
  BY <1>1, CountsTyped, AccountConstants DEF AttemptsInv, AttemptsBounded, ReadFirst, Worth
<1>2. CASE past.wrong # 0
  <2>1. ~Trusted /\ ~Trusted' /\ (app'.onboarded => app.onboarded) /\ (Live' => Live)
    BY <1>2 DEF AttemptsInv, Trusted
  <2> QED BY <2>1 DEF AttemptsInv, AttemptsBounded, ReadFirst, Trusted, Worth
<1> QED BY <1>1, <1>2

\* No step forgets an attempt.
LEMMA AttemptsInvStep ==
    ASSUME Types, CoreInv, AttemptsInv, OneScreen, ~UnlockInWipe, Next
    PROVE  AttemptsInv'
<1>0. ASSUME UNCHANGED <<tries, keystore, unlock, past, app, draft, job, prefs, file>> PROVE AttemptsInv'
  BY <1>0 DEF Types, AttemptsInv, AttemptsBounded, ReadFirst, Trusted, Live, Worth, Exists
<1>1. CASE Boot
  <2>1. /\ past'.wrong = past.wrong /\ past'.restarts = past.restarts /\ UNCHANGED tries
        /\ UNCHANGED <<keystore, unlock, draft, prefs, file>> /\ ~app.up /\ job = NoJob
    BY <1>1 DEF Boot, durable
  <2>2. ReadFirst'
    BY <2>1 DEF AttemptsInv, ReadFirst
  <2>3. app = Closed /\ draft = NoDraft
    BY <2>1 DEF CoreInv, DownInv
  <2>4. CASE prefs /\ ~Exists
    <3>1. UNCHANGED app /\ job'.kind = "guard"
      BY <1>1, <2>4 DEF Boot
    <3> QED BY <2>1, <2>2, <2>3, <3>1, AttemptsKept DEF Trusted, Live, Exists, NoDraft, Closed
  <2>5. CASE ~(prefs /\ ~Exists)
    <3>1. app' = [app EXCEPT !.up = TRUE, !.onboarded = prefs] /\ UNCHANGED job
      BY <1>1, <2>5 DEF Boot
    <3>2. app'.up /\ app'.onboarded = prefs /\ app'.status = "locked"
      BY <2>3, <3>1 DEF Closed
    <3>3. app'.onboarded => Live
      BY <2>1, <2>5, <3>2 DEF Live
    <3>4. ~Trusted' /\ (Live' => Live)
      BY <2>1, <2>3, <3>1, <3>2, <3>3 DEF Trusted, NoJob, NoDraft, Live
    <3>5. ~tries'.read
      BY <2>1 DEF AttemptsInv, ReadFirst
    <3> QED BY <2>1, <2>2, <3>3, <3>4, <3>5 DEF AttemptsInv, AttemptsBounded, Worth
  <2> QED BY <2>4, <2>5
<1>2. CASE Restart
  <2>1. /\ past'.wrong = past.wrong /\ past'.restarts = past.restarts + 1
        /\ ~tries'.read /\ tries'.save = << >> /\ unlock'.pc = "idle" /\ UNCHANGED <<keystore, prefs>>
        /\ ~app'.onboarded /\ ~app'.up /\ ~draft'.pin /\ job' = NoJob /\ (Exists' => Exists)
    BY <1>2 DEF Restart, Upgrading, Types, Pasts, NotRead, NoUnlock, Closed, NoDraft, Exists
  <2>2. Live' => Live \/ past.wrong = 0
    BY <2>1 DEF Live, AttemptsInv, Trusted
  <2>3. Live' => past.wrong <= Worth(keystore.lockout) + past.restarts + 1
    BY <2>2, CountsTyped DEF AttemptsInv
  <2>4. past.wrong <= MaxAttempts + past.restarts + 1
    BY CountsTyped, AccountConstants DEF AttemptsInv, AttemptsBounded
  <2>5. Worth(keystore.lockout)' = Worth(keystore.lockout)
    BY <2>1 DEF Worth
  <2>6. ReadFirst' /\ ~Trusted'
    BY <2>1 DEF ReadFirst, Trusted, NoJob
  <2> QED BY <2>1, <2>3, <2>4, <2>5, <2>6, CountsTyped, AccountConstants DEF AttemptsInv, AttemptsBounded
<1>3. CASE SaveLockout
  <2>1. PICK c : c = tries.save[1] /\ tries.save = <<c>>
    BY <1>3 DEF SaveLockout, Types, Tries
  <2>2. /\ tries'.now = tries.now /\ tries'.read = tries.read /\ tries'.save = << >>
        /\ keystore'.lockout = c /\ UNCHANGED <<app, draft, job, prefs, file, past, unlock>>
    BY <1>3, <2>1 DEF SaveLockout, Types, Tries, Keystores
  <2>3. past.wrong <= Worth(c) + past.restarts
    BY <2>1 DEF AttemptsInv
  <2>4. ReadFirst' /\ (Trusted' <=> Trusted)
    BY <2>2 DEF AttemptsInv, ReadFirst, Trusted
  <2>5. Worth(c) \in Nat /\ past.wrong \in Nat /\ past.restarts \in Nat
    BY <2>1, CountsTyped
  <2> QED BY <2>2, <2>3, <2>4, <2>5 DEF AttemptsInv, AttemptsBounded, Worth
<1>4. CASE LockoutEnds
  <2>1. past'.wrong = 0 /\ UNCHANGED <<unlock, app>>
    BY <1>4 DEF LockoutEnds, Types, Pasts
  <2>2. tries'.read = tries.read /\ ~tries'.now.until /\ (tries.save = << >> => tries'.save = << >>)
    <3>1. tries.now \in Counters
      BY DEF Types, Tries
    <3> QED BY <1>4, <3>1 DEF LockoutEnds, Types, Tries, Counters
  <2>3. ReadFirst'
    BY <2>1, <2>2 DEF AttemptsInv, ReadFirst
  <2> QED BY <2>1, <2>3, <1>4, TypesStep, NoneWrong DEF Next
<1>5. ASSUME NEW by \in {"bio", "pin"}, StartUnlock(by) PROVE AttemptsInv'
  <2>1. app.up /\ app.onboarded /\ unlock = NoUnlock /\ app.status = "locked" /\ UNCHANGED <<keystore, draft, job, prefs, file, past>>
    BY <1>5 DEF StartUnlock, OnLockScreen, NoUnlock, durable
  <2>2. PICK c \in Counters : c = IF tries.read THEN tries.now ELSE keystore.lockout
    BY DEF Types, Tries, Keystores
  <2>3. tries' = [tries EXCEPT !.now = c, !.read = TRUE]
    BY <1>5, <2>2 DEF StartUnlock
  <2>4. tries'.now = c /\ tries'.read /\ tries'.save = tries.save
    BY <2>3 DEF Types, Tries
  <2>5. past.wrong <= Worth(c) + past.restarts
    BY <2>1, <2>2, CountsTyped DEF AttemptsInv, ReadFirst, Live
  <2>6. app'.onboarded /\ app'.up /\ app'.status \in {"locked", "unlocking"}
    BY <1>5, <2>1 DEF StartUnlock, Types, Apps
  <2>7. ReadFirst'
    BY <1>5, <2>1, <2>2, <2>4, <2>6 DEF StartUnlock, AttemptsInv, ReadFirst, NoUnlock
  <2>8. Trusted' => Trusted
    BY <2>1, <2>6 DEF Trusted
  <2> QED BY <2>1, <2>4, <2>5, <2>6, <2>7, <2>8 DEF AttemptsInv, AttemptsBounded, Live, Exists, Worth
<1>6. ASSUME NEW b \in BOOLEAN, KeyReleased(b) PROVE AttemptsInv'
  <2>1. Types'
    BY <1>6, TypesStep DEF Next
  <2>2. app.up /\ app.onboarded /\ tries.read /\ ~tries.now.until /\ tries.save = << >> /\ unlock.pc # "idle"
    BY <1>6, Alone DEF KeyReleased, AttemptsInv, ReadFirst
  <2>3. UNCHANGED <<keystore, prefs, draft, job, file>>
    <3>1. Exists
      BY <1>6, Alone DEF KeyReleased, CoreInv, FileInv, NoJob
    <3> QED BY <1>6, <3>1 DEF KeyReleased
  <2>4. CASE Refused
    BY <2>2, <2>3, <2>4, RefusedCounts
  <2>5. CASE \E k : Unlocked(k)
    BY <2>1, <2>2, <2>5, UnlockedCounts
  <2>6. CASE ~Refused /\ ~\E k : Unlocked(k)
    <3>1. UNCHANGED <<app, tries, past>>
      BY <1>6, <2>6 DEF KeyReleased
    <3>2. ReadFirst'
      BY <2>2, <3>1 DEF ReadFirst
    <3> QED BY <2>3, <3>1, <3>2, AttemptsKept DEF Trusted, Live, Exists
  <2> QED BY <2>4, <2>5, <2>6
<1>7. ASSUME NEW b \in BOOLEAN, Opened(b) PROVE AttemptsInv'
  <2>1. Types'
    BY <1>7, TypesStep DEF Next
  <2>2. app.up /\ tries.read /\ tries.save = << >> /\ unlock.pc # "idle"
    BY <1>7, Alone DEF Opened, AttemptsInv, ReadFirst
  <2>3. UNCHANGED <<keystore, prefs, draft, job, file>>
    BY <1>7 DEF Opened, durable
  <2>4. CASE Refused
    BY <2>2, <2>3, <2>4, RefusedCounts
  <2>5. CASE ~Refused
    BY <1>7, <2>1, <2>2, <2>5, UnlockedCounts DEF Opened
  <2> QED BY <2>4, <2>5
<1>8. ASSUME NEW c \in {"auto", "user"}, Lock(c) PROVE AttemptsInv'
  BY <1>0, <1>8 DEF Lock, durable
<1>9. ASSUME NEW c \in {"auto", "user", "job"}, Locked(c) PROVE AttemptsInv'
  <2>1. /\ past'.wrong = past.wrong /\ past'.restarts = past.restarts
        /\ UNCHANGED tries /\ keystore'.lockout = keystore.lockout
    BY <1>9 DEF Locked, Upgrading, durable, Types, Pasts, Keystores
  <2>2. ReadFirst'
    BY <1>9 DEF Locked, Upgrading, AttemptsInv, ReadFirst
  <2>3. /\ Trusted' => Trusted \/ past.wrong = 0
        /\ app'.onboarded => app.onboarded \/ past.wrong = 0
        /\ Live' => Live \/ past.wrong = 0
    BY <1>9 DEF Locked, Upgrading, durable, Trusted, Live, Exists, Types, Apps, Pasts, Drafts, Jobs
  <2> QED BY <2>1, <2>2, <2>3, AttemptsKept
<1>10. CASE Online
  <2>1. UNCHANGED <<tries, past, keystore, prefs, draft, job, unlock>>
    BY <1>10 DEF Online, OnlineStep, Readable
  <2>2. app.up /\ app'.up /\ app.onboarded /\ app'.onboarded /\ app'.status = app.status
    BY <1>10, Alone DEF Online, OnlineStep, Readable, Types, Apps
  <2>3. ReadFirst'
    BY <2>1, <2>2 DEF AttemptsInv, ReadFirst
  <2> QED BY <2>1, <2>2, <2>3, AttemptsKept DEF Trusted, Live
<1>11. CASE Register
  BY <1>0, <1>11 DEF Register, durable
<1>12. ASSUME NEW g \in Generations, StartGeneration(g) PROVE AttemptsInv'
  <2>1. app.up /\ ~app.onboarded /\ UNCHANGED <<tries, prefs, job, unlock, keystore, app, file>>
    BY <1>12 DEF StartGeneration, durable
  <2>2. past'.wrong = past.wrong /\ past'.restarts = past.restarts /\ ~draft'.pin
    BY <1>12 DEF StartGeneration, Types, Pasts, Drafts
  <2>3. ReadFirst'
    BY <2>1 DEF AttemptsInv, ReadFirst
  <2>4. Trusted' => Trusted
    BY <2>1, <2>2 DEF Trusted
  <2> QED BY <2>1, <2>2, <2>3, <2>4, AttemptsKept DEF Live
<1>13. ASSUME NEW g \in Generations, DeleteOld(g) PROVE AttemptsInv'
  <2>1. app.up /\ ~app.onboarded /\ app'.up /\ ~app'.onboarded
    BY <1>13, Alone DEF DeleteOld, At, NewApp, Working, Types, Apps
  <2>2. UNCHANGED <<tries, past, prefs, job, unlock>> /\ keystore'.lockout = keystore.lockout /\ (draft'.pin => draft.pin)
    BY <1>13 DEF DeleteOld, At, NewApp, Types, Keystores
  <2>3. ReadFirst'
    BY <2>1, <2>2 DEF AttemptsInv, ReadFirst
  <2>4. Trusted' => Trusted
    BY <2>1, <2>2 DEF Trusted
  <2> QED BY <2>1, <2>2, <2>3, <2>4, AttemptsKept DEF Live
<1>14. ASSUME NEW g \in Generations, Provision(g) PROVE AttemptsInv'
  <2>1. app.up /\ ~app.onboarded /\ app'.up /\ ~app'.onboarded
    BY <1>14, Alone DEF Provision, At, NewApp, FreshKey, Working, Types, Apps
  <2>2. UNCHANGED <<tries, past, prefs, job, unlock>> /\ keystore'.lockout = keystore.lockout /\ (draft'.pin => draft.pin)
    BY <1>14 DEF Provision, At, NewApp, FreshKey, Types, Keystores
  <2>3. ReadFirst'
    BY <2>1, <2>2 DEF AttemptsInv, ReadFirst
  <2>4. Trusted' => Trusted
    BY <2>1, <2>2 DEF Trusted
  <2> QED BY <2>1, <2>2, <2>3, <2>4, AttemptsKept DEF Live
<1>15. ASSUME NEW g \in Generations, OpenNew(g) PROVE AttemptsInv'
  <2>1. app.up /\ ~app.onboarded /\ app'.up /\ ~app'.onboarded
    BY <1>15, Alone DEF OpenNew, At, NewApp, Working, Types, Apps
  <2>2. UNCHANGED <<tries, past, prefs, job, unlock>> /\ keystore'.lockout = keystore.lockout /\ (draft'.pin => draft.pin)
    BY <1>15 DEF OpenNew, At, NewApp, Types, Keystores
  <2>3. ReadFirst'
    BY <2>1, <2>2 DEF AttemptsInv, ReadFirst
  <2>4. Trusted' => Trusted
    BY <2>1, <2>2 DEF Trusted
  <2> QED BY <2>1, <2>2, <2>3, <2>4, AttemptsKept DEF Live
<1>16. ASSUME NEW g \in Generations, MarkUnlocked(g) PROVE AttemptsInv'
  <2>1. app.up /\ ~app.onboarded /\ app'.up /\ ~app'.onboarded
    BY <1>16, Alone DEF MarkUnlocked, At, NewApp, Answered, Readable, Working, Types, Apps
  <2>2. UNCHANGED <<tries, past, prefs, job, unlock>> /\ keystore'.lockout = keystore.lockout /\ (draft'.pin => draft.pin)
    BY <1>16 DEF MarkUnlocked, At, NewApp, Answered, Readable, Types, Keystores
  <2>3. ReadFirst'
    BY <2>1, <2>2 DEF AttemptsInv, ReadFirst
  <2>4. Trusted' => Trusted
    BY <2>1, <2>2 DEF Trusted
  <2> QED BY <2>1, <2>2, <2>3, <2>4, AttemptsKept DEF Live
<1>17. ASSUME NEW g \in Generations, InstallIdentity(g) PROVE AttemptsInv'
  <2>1. app.up /\ ~app.onboarded /\ app'.up /\ ~app'.onboarded
    BY <1>17, Alone DEF InstallIdentity, Provisioned, At, NewApp, Readable, Working, Types, Apps
  <2>2. UNCHANGED <<tries, past, prefs, job, unlock>> /\ keystore'.lockout = keystore.lockout /\ (draft'.pin => draft.pin)
    BY <1>17 DEF InstallIdentity, Provisioned, At, NewApp, Readable, Types, Keystores
  <2>3. ReadFirst'
    BY <2>1, <2>2 DEF AttemptsInv, ReadFirst
  <2>4. Trusted' => Trusted
    BY <2>1, <2>2 DEF Trusted
  <2> QED BY <2>1, <2>2, <2>3, <2>4, AttemptsKept DEF Live
<1>18. ASSUME NEW g \in Generations, StoreAccount(g) PROVE AttemptsInv'
  <2>1. app.up /\ ~app.onboarded /\ app'.up /\ ~app'.onboarded
    BY <1>18, Alone DEF StoreAccount, Provisioned, At, NewApp, Readable, Working, Types, Apps
  <2>2. UNCHANGED <<tries, past, prefs, job, unlock>> /\ keystore'.lockout = keystore.lockout /\ (draft'.pin => draft.pin)
    BY <1>18 DEF StoreAccount, Provisioned, At, NewApp, Readable, Types, Keystores
  <2>3. ReadFirst'
    BY <2>1, <2>2 DEF AttemptsInv, ReadFirst
  <2>4. Trusted' => Trusted
    BY <2>1, <2>2 DEF Trusted
  <2> QED BY <2>1, <2>2, <2>3, <2>4, AttemptsKept DEF Live
<1>19. CASE SetPin
  <2>1. Types'
    BY <1>19, TypesStep DEF Next
  <2>2. past'.wrong = 0 /\ UNCHANGED <<tries, unlock, app>>
    BY <1>19 DEF SetPin, OnPinScreen, Types, Pasts
  <2>3. ReadFirst'
    BY <2>2 DEF AttemptsInv, ReadFirst
  <2> QED BY <2>1, <2>2, <2>3, NoneWrong
<1>20. CASE Complete
  <2>1. Types'
    BY <1>20, TypesStep DEF Next
  <2>2. past.wrong = 0 /\ UNCHANGED <<tries, unlock>> /\ app'.up = app.up /\ past'.wrong = past.wrong
    BY <1>20 DEF Complete, OnCompleteScreen, Types, Pasts, Apps, AttemptsInv, Trusted
  <2>3. ReadFirst'
    BY <2>2 DEF AttemptsInv, ReadFirst
  <2> QED BY <2>1, <2>2, <2>3, NoneWrong
<1>21. CASE SavePrefs
  <2>1. /\ past'.wrong = past.wrong /\ past'.restarts = past.restarts
        /\ UNCHANGED tries /\ keystore'.lockout = keystore.lockout
    BY <1>21 DEF SavePrefs, durable, Types, Pasts, Keystores
  <2>2. ReadFirst'
    BY <1>21 DEF SavePrefs, AttemptsInv, ReadFirst
  <2>3. /\ Trusted' => Trusted \/ past.wrong = 0
        /\ app'.onboarded => app.onboarded \/ past.wrong = 0
        /\ Live' => Live \/ past.wrong = 0
    BY <1>21 DEF SavePrefs, durable, Trusted, Live, Exists, Types
  <2> QED BY <2>1, <2>2, <2>3, AttemptsKept
<1>22. ASSUME NEW kind \in {"delete", "erase"}, StartWipe(kind) PROVE AttemptsInv'
  <2>1. Types'
    BY <1>22, TypesStep DEF Next
  <2>2. past.wrong = 0 /\ UNCHANGED <<tries, unlock, app>> /\ past'.wrong = past.wrong
    BY <1>22 DEF StartWipe, InTabs, Types, Pasts, AttemptsInv, Trusted
  <2>3. ReadFirst'
    BY <2>2 DEF AttemptsInv, ReadFirst
  <2> QED BY <2>1, <2>2, <2>3, NoneWrong
<1>23. CASE Leave
  <2>1. Types'
    BY <1>23, TypesStep DEF Next
  <2>2. UNCHANGED <<tries, unlock>> /\ past'.wrong = past.wrong /\ app'.up = app.up
    BY <1>23 DEF Leave, Doing, Next1, durable, Types, Pasts, Apps
  <2>3. ReadFirst'
    BY <2>2 DEF AttemptsInv, ReadFirst
  <2>4. past.wrong = 0
    BY <1>23, Positions DEF Leave, Doing, Next1, CoreInv, DeleteAt, AttemptsInv, Trusted
  <2> QED BY <2>1, <2>2, <2>3, <2>4, NoneWrong
<1>24. CASE JobLock
  BY <1>0, <1>24 DEF JobLock, Doing, durable
<1>25. CASE WipeSecret
  <2>1. Types'
    BY <1>25, TypesStep DEF Next
  <2>2. CASE job.kind \in {"delete", "erase"}
    <3>1. past.wrong = 0 /\ UNCHANGED <<tries, unlock>> /\ past'.wrong = past.wrong /\ app.up /\ app'.up
      BY <1>25, <2>2 DEF WipeSecret, Doing, Next1, Types, Pasts, Apps, AttemptsInv, Trusted, CoreInv, JobInv
    <3>2. ReadFirst'
      BY <3>1 DEF AttemptsInv, ReadFirst
    <3> QED BY <2>1, <3>1, <3>2, NoneWrong
  <2>3. CASE job.kind \notin {"delete", "erase"}
    <3>1. job.kind = "guard" /\ ~app.up /\ ~Exists
      BY <1>25, <2>3, Positions DEF WipeSecret, Doing, Next1, Types, Jobs, CoreInv, JobInv
    <3>2. ~Live /\ ~Live' /\ UNCHANGED <<app, tries, past, draft, prefs, unlock, file>> /\ job'.kind = job.kind
      BY <1>25, <3>1, Alone DEF WipeSecret, Doing, Next1, Live, Types, Jobs, Exists
    <3>3. ReadFirst' /\ (Trusted' => Trusted)
      BY <3>2 DEF AttemptsInv, ReadFirst, Trusted
    <3>4. ~app.onboarded /\ ~tries.read /\ tries.save = << >>
      BY <3>1, Alone DEF AttemptsInv, ReadFirst
    <3> QED BY <3>2, <3>3, <3>4 DEF AttemptsInv, AttemptsBounded, Worth
  <2> QED BY <2>2, <2>3
<1>26. CASE WipeFile
  <2>1. Types'
    BY <1>26, TypesStep DEF Next
  <2>2. UNCHANGED <<tries, unlock>> /\ past'.wrong = past.wrong /\ app'.up = app.up
    BY <1>26 DEF WipeFile, Doing, Next1, durable, Types, Pasts, Apps
  <2>3. ReadFirst'
    BY <2>2 DEF AttemptsInv, ReadFirst
  <2>4. past.wrong = 0
    BY <1>26, Positions DEF WipeFile, Doing, Next1, CoreInv, DeleteAt, AttemptsInv, Trusted
  <2> QED BY <2>1, <2>2, <2>3, <2>4, NoneWrong
<1>27. CASE WipePrefs
  <2>1. Types'
    BY <1>27, TypesStep DEF Next
  <2>2. CASE job.kind \in {"delete", "erase"}
    <3>1. past.wrong = 0 /\ UNCHANGED <<tries, unlock>> /\ past'.wrong = past.wrong /\ app.up /\ app'.up
      BY <1>27, <2>2 DEF WipePrefs, Doing, Types, Pasts, Apps, AttemptsInv, Trusted, CoreInv, JobInv
    <3>2. ReadFirst'
      BY <3>1 DEF AttemptsInv, ReadFirst
    <3> QED BY <2>1, <3>1, <3>2, NoneWrong
  <2>3. CASE job.kind \notin {"delete", "erase"}
    <3>1. job.kind = "guard" /\ ~app.up
      BY <1>27, <2>3, Positions DEF WipePrefs, Doing, Types, Jobs, CoreInv, JobInv
    <3>2. unlock = NoUnlock /\ draft = NoDraft /\ ~tries.read /\ tries.save = << >>
      BY <3>1 DEF CoreInv, DownInv, AttemptsInv, ReadFirst
    <3>3. UNCHANGED <<tries, draft, unlock>> /\ job' = NoJob /\ ~prefs' /\ ~app'.onboarded /\ app'.up
          /\ past'.wrong = past.wrong /\ past'.restarts = past.restarts
      BY <1>27 DEF WipePrefs, Doing, Types, Apps, Pasts
    <3>4. ReadFirst' /\ ~Trusted' /\ ~Live'
      BY <3>2, <3>3 DEF ReadFirst, Trusted, Live, NoUnlock, NoDraft, NoJob
    <3> QED BY <3>2, <3>3, <3>4 DEF AttemptsInv, AttemptsBounded
  <2> QED BY <2>2, <2>3
<1>28. CASE Erased
  <2>1. Types'
    BY <1>28, TypesStep DEF Next
  <2>2. UNCHANGED <<tries, unlock>> /\ past'.wrong = past.wrong /\ app'.up = app.up
    BY <1>28 DEF Erased, durable, Types, Pasts, Apps
  <2>3. ReadFirst'
    BY <2>2 DEF AttemptsInv, ReadFirst
  <2>4. past.wrong = 0
    BY <1>28, Positions DEF Erased, CoreInv, DeleteAt, AttemptsInv, Trusted
  <2> QED BY <2>1, <2>2, <2>3, <2>4, NoneWrong
<1>29. CASE StepFails
  <2>1. Types'
    BY <1>29, TypesStep DEF Next
  <2>2. UNCHANGED <<tries, unlock>> /\ past'.wrong = past.wrong /\ app'.up = app.up
    BY <1>29 DEF StepFails, Doing, Next1, durable, Types, Pasts, Apps
  <2>3. ReadFirst'
    BY <2>2 DEF AttemptsInv, ReadFirst
  <2>4. past.wrong = 0
    BY <1>29, Positions DEF StepFails, Doing, Next1, CoreInv, DeleteAt, AttemptsInv, Trusted
  <2> QED BY <2>1, <2>2, <2>3, <2>4, NoneWrong
<1> QED BY <1>1, <1>2, <1>3, <1>4, <1>5, <1>6, <1>7, <1>8, <1>9, <1>10, <1>11, <1>12, <1>13, <1>14,
     <1>15, <1>16, <1>17, <1>18, <1>19, <1>20, <1>21, <1>22, <1>23, <1>24, <1>25, <1>26, <1>27,
     <1>28, <1>29 DEF Next

LEMMA AttemptsInit ==
    ASSUME Init
    PROVE  AttemptsInv
<1>1. /\ ~tries.read /\ tries.save = << >> /\ unlock.pc = "idle" /\ past.wrong = 0 /\ past.restarts = 0
  BY DEF Init, NotRead, NoUnlock
<1>2. Worth(keystore.lockout) = 0
  BY DEF Init, Zero, Worth
<1> QED BY <1>1, <1>2, AccountConstants DEF AttemptsInv, AttemptsBounded, ReadFirst

\* Dying is no way to more attempts: whatever is killed between a wrong PIN
\* and the save of its count, the PINs tried in one lockout period are at most
\* the allowed ones and one more for each restart.
THEOREM AttemptsAreCounted ==
    ASSUME OneScreen, ~UnlockInWipe
    PROVE  Spec => []AttemptsBounded
<1> DEFINE I == Types /\ CoreInv /\ AttemptsInv
<1>1. Init => I
  BY TypesInductive, CoreInit, AttemptsInit
<1>2. I /\ [Next]_vars => I'
  <2>1. SUFFICES ASSUME I, [Next]_vars PROVE I'
    OBVIOUS
  <2>2. Types' /\ CoreInv'
    BY <2>1, TypesInductive, CoreStep
  <2>3. AttemptsInv'
    <3>1. CASE Next
      BY <2>1, <3>1, AttemptsInvStep
    <3>2. CASE UNCHANGED vars
      BY <2>1, <3>2 DEF vars, AttemptsInv, AttemptsBounded, ReadFirst, Trusted, Live, Worth, Exists
    <3> QED BY <2>1, <3>1, <3>2
  <2> QED BY <2>2, <2>3
<1>3. I => AttemptsBounded
  BY DEF AttemptsInv
<1> HIDE DEF I
<1> QED BY <1>1, <1>2, <1>3, PTL DEF Spec

\* While the installation is not open for business the invariant asks nothing.
LEMMA KeysIdle ==
    ASSUME ~Live', job'.kind = "erase" => past'.erased
    PROVE  KeysInv'
BY DEF KeysInv

LEMMA KeysKept ==
    ASSUME KeysInv, UNCHANGED file, Live' /\ Exists' /\ ~past'.kept => Live,
           keystore'.bio = keystore.bio, keystore'.pin = keystore.pin,
           past.erased => past'.erased, past.kept => past'.kept, job'.kind = "erase" => job.kind = "erase" \/ past'.erased
    PROVE  KeysInv'
BY DEF KeysInv, Live, Exists

\* No step but the owner's erasing parts a database from the keys it is opened with.
LEMMA KeysInvStep ==
    ASSUME Types, CoreInv, KeysInv, OneScreen, ~UnlockInWipe, Next
    PROVE  KeysInv'
<1>0. ASSUME UNCHANGED <<keystore, past, app, prefs, file, job>> PROVE KeysInv'
  BY <1>0 DEF Types, KeysInv, Live, Exists
<1>1. CASE Boot
  <2>1. UNCHANGED <<keystore, prefs, file, past>> /\ job'.kind # "erase" /\ ~app.onboarded
    BY <1>1 DEF Boot, durable, NoJob, CoreInv, DownInv, Closed
  <2>2. Live' => Live
    <3>1. CASE prefs /\ ~Exists
      BY <1>1, <2>1, <3>1 DEF Boot, Live, Exists
    <3>2. CASE ~(prefs /\ ~Exists)
      <4>1. app'.up /\ app'.onboarded = prefs
        BY <1>1, <3>2 DEF Boot, Types, Apps
      <4> QED BY <1>1, <3>2, <4>1 DEF Boot, Live
    <3> QED BY <3>1, <3>2
  <2> QED BY <2>1, <2>2, KeysKept
<1>2. CASE Restart
  <2>1. /\ UNCHANGED <<keystore, prefs>> /\ past'.erased = past.erased /\ past'.kept = past.kept
        /\ ~app'.onboarded /\ job' = NoJob /\ (file' = file \/ ~Exists')
    BY <1>2 DEF Restart, Upgrading, Types, Pasts, Closed, Exists
  <2>2. Live' /\ Exists' /\ ~past.kept => Live /\ Exists /\ file' = file
    BY <2>1 DEF Live, CoreInv, FileInv, Exists
  <2> QED BY <2>1, <2>2 DEF KeysInv, NoJob
<1>3. CASE SaveLockout
  <2>1. /\ keystore'.bio = keystore.bio /\ keystore'.pin = keystore.pin /\ UNCHANGED <<file, prefs>>
        /\ past'.erased = past.erased /\ (past.kept => past'.kept)
        /\ app'.up = app.up /\ app'.onboarded = app.onboarded /\ job'.kind = job.kind
    BY <1>3 DEF SaveLockout, durable, Types, Apps, Pasts, Keystores, Jobs
  <2> QED BY <2>1, KeysKept DEF Live, Exists
<1>4. CASE LockoutEnds
  <2>1. /\ keystore'.bio = keystore.bio /\ keystore'.pin = keystore.pin /\ UNCHANGED <<file, prefs>>
        /\ past'.erased = past.erased /\ (past.kept => past'.kept)
        /\ app'.up = app.up /\ app'.onboarded = app.onboarded /\ job'.kind = job.kind
    BY <1>4 DEF LockoutEnds, durable, Types, Apps, Pasts, Keystores, Jobs
  <2> QED BY <2>1, KeysKept DEF Live, Exists
<1>5. ASSUME NEW by \in {"bio", "pin"}, StartUnlock(by) PROVE KeysInv'
  <2>1. /\ keystore'.bio = keystore.bio /\ keystore'.pin = keystore.pin /\ UNCHANGED <<file, prefs>>
        /\ past'.erased = past.erased /\ (past.kept => past'.kept)
        /\ app'.up = app.up /\ app'.onboarded = app.onboarded /\ job'.kind = job.kind
    BY <1>5 DEF StartUnlock, OnLockScreen, NoUnlock, durable, Types, Apps, Pasts, Keystores, Jobs
  <2> QED BY <2>1, KeysKept DEF Live, Exists
<1>6. ASSUME NEW b \in BOOLEAN, KeyReleased(b) PROVE KeysInv'
  <2>1. UNCHANGED <<keystore, prefs, file, job>>
    <3>1. Exists
      BY <1>6, Alone DEF KeyReleased, CoreInv, FileInv, NoJob
    <3> QED BY <1>6, <3>1 DEF KeyReleased
  <2>2. CASE Refused \/ \E k : Unlocked(k)
    <3>1. app'.onboarded = app.onboarded /\ app'.up = app.up /\ past'.kept = past.kept /\ past'.erased = past.erased
      BY <2>2 DEF Refused, Unlocked, Types, Apps, Pasts
    <3> QED BY <2>1, <3>1, KeysKept DEF Live, Exists
  <2>3. CASE ~(Refused \/ \E k : Unlocked(k))
    <3>1. UNCHANGED <<app, past>>
      BY <1>6, <2>3 DEF KeyReleased
    <3> QED BY <2>1, <3>1, KeysKept DEF Live, Exists
  <2> QED BY <2>2, <2>3
<1>7. ASSUME NEW b \in BOOLEAN, Opened(b) PROVE KeysInv'
  <2>1. app'.onboarded = app.onboarded /\ app'.up = app.up /\ past'.kept = past.kept /\ past'.erased = past.erased
    BY <1>7 DEF Opened, Refused, Unlocked, Counted, NoUnlock, Answered, Readable, Types, Apps, Pasts
  <2>2. UNCHANGED <<keystore, prefs, file, job>>
    BY <1>7 DEF Opened, durable
  <2> QED BY <2>1, <2>2, KeysKept DEF Live, Exists
<1>8. ASSUME NEW c \in {"auto", "user"}, Lock(c) PROVE KeysInv'
  BY <1>0, <1>8 DEF Lock, durable
<1>9. ASSUME NEW c \in {"auto", "user", "job"}, Locked(c) PROVE KeysInv'
  <2>1. /\ keystore'.bio = keystore.bio /\ keystore'.pin = keystore.pin /\ UNCHANGED <<file, prefs>>
        /\ past'.erased = past.erased /\ (past.kept => past'.kept)
        /\ app'.up = app.up /\ app'.onboarded = app.onboarded /\ job'.kind = job.kind
    BY <1>9 DEF Locked, Upgrading, durable, Types, Apps, Jobs
  <2> QED BY <2>1, KeysKept DEF Live, Exists
<1>10. CASE Online
  <2>1. /\ app'.onboarded = app.onboarded /\ app'.up = app.up /\ UNCHANGED <<keystore, prefs, past, job>>
    BY <1>10 DEF Online, OnlineStep, Readable, Types, Apps
  <2>2. file' = file \/ (file'.key = file.key /\ Exists /\ (file'.account = file.account \/ file'.account = "native"))
    BY <1>10 DEF Online, OnlineStep, Readable, Types, Files
  <2> QED BY <2>1, <2>2 DEF KeysInv, Live, Exists
<1>11. CASE Register
  BY <1>0, <1>11 DEF Register, durable
<1>12. ASSUME NEW g \in Generations, StartGeneration(g) PROVE KeysInv'
  <2>1. app'.up /\ ~app'.onboarded /\ job' = NoJob
    BY <1>12, Alone DEF StartGeneration
  <2> QED BY <2>1, KeysIdle DEF Live, NoJob
<1>13. ASSUME NEW g \in Generations, DeleteOld(g) PROVE KeysInv'
  <2>1. app'.up /\ ~app'.onboarded /\ job' = NoJob
    BY <1>13, Alone DEF DeleteOld, At, NewApp, Working, Types, Apps
  <2> QED BY <2>1, KeysIdle DEF Live, NoJob
<1>14. ASSUME NEW g \in Generations, Provision(g) PROVE KeysInv'
  <2>1. app'.up /\ ~app'.onboarded /\ job' = NoJob
    BY <1>14, Alone DEF Provision, At, NewApp, FreshKey, Working, Types, Apps
  <2> QED BY <2>1, KeysIdle DEF Live, NoJob
<1>15. ASSUME NEW g \in Generations, OpenNew(g) PROVE KeysInv'
  <2>1. app'.up /\ ~app'.onboarded /\ job' = NoJob
    BY <1>15, Alone DEF OpenNew, At, NewApp, Working, Types, Apps
  <2> QED BY <2>1, KeysIdle DEF Live, NoJob
<1>16. ASSUME NEW g \in Generations, MarkUnlocked(g) PROVE KeysInv'
  <2>1. /\ keystore'.bio = keystore.bio /\ keystore'.pin = keystore.pin /\ UNCHANGED <<file, prefs>>
        /\ past'.erased = past.erased /\ (past.kept => past'.kept)
        /\ app'.up = app.up /\ app'.onboarded = app.onboarded /\ job'.kind = job.kind
    BY <1>16 DEF MarkUnlocked, At, NewApp, Answered, Readable, durable, Types, Apps, Pasts, Keystores, Jobs
  <2> QED BY <2>1, KeysKept DEF Live, Exists
<1>17. ASSUME NEW g \in Generations, InstallIdentity(g) PROVE KeysInv'
  <2>1. app'.up /\ ~app'.onboarded /\ job' = NoJob
    BY <1>17, Alone DEF InstallIdentity, Provisioned, At, NewApp, Readable, Working, Types, Apps
  <2> QED BY <2>1, KeysIdle DEF Live, NoJob
<1>18. ASSUME NEW g \in Generations, StoreAccount(g) PROVE KeysInv'
  <2>1. app'.up /\ ~app'.onboarded /\ job' = NoJob
    BY <1>18, Alone DEF StoreAccount, Provisioned, At, NewApp, Readable, Working, Types, Apps
  <2> QED BY <2>1, KeysIdle DEF Live, NoJob
<1>19. CASE SetPin
  <2>1. app'.up /\ ~app'.onboarded /\ job' = NoJob
    BY <1>19, Alone DEF SetPin, OnPinScreen
  <2> QED BY <2>1, KeysIdle DEF Live, NoJob
<1>20. CASE Complete
  <2>1. PICK g \in Generations : gen[g].pc = "done"
    BY <1>20 DEF Complete, OnCompleteScreen, CoreInv, FileInv
  <2>2. GenInv(g) /\ draft.pin
    BY <1>20 DEF Complete, OnCompleteScreen, CoreInv, GensInv
  <2>3. keystore.bio = file.key /\ keystore.pin = file.key /\ file.account = "native"
    BY <2>1, <2>2 DEF GenInv
  <2>4. UNCHANGED <<keystore, file, job>> /\ job = NoJob
    BY <1>20, <2>2, NoScreen DEF Complete, OnCompleteScreen, durable, NoDraft
  <2> QED BY <2>3, <2>4 DEF KeysInv, NoJob
<1>21. CASE SavePrefs
  <2>1. /\ UNCHANGED <<keystore, file, past, app, job>> /\ (Live' => Live)
    BY <1>21, Alone DEF SavePrefs, Live
  <2> QED BY <2>1, KeysKept
<1>22. ASSUME NEW kind \in {"delete", "erase"}, StartWipe(kind) PROVE KeysInv'
  <2>1. UNCHANGED <<keystore, file, prefs, app>> /\ past'.kept = past.kept /\ job'.kind = kind
        /\ (past.erased => past'.erased) /\ (kind = "erase" => past'.erased)
    BY <1>22 DEF StartWipe, InTabs, durable, Types, Pasts
  <2> QED BY <2>1, KeysKept DEF Live, Exists
<1>23. CASE Leave
  <2>1. /\ keystore'.bio = keystore.bio /\ keystore'.pin = keystore.pin /\ UNCHANGED <<file, prefs>>
        /\ past'.erased = past.erased /\ (past.kept => past'.kept)
        /\ app'.up = app.up /\ app'.onboarded = app.onboarded /\ job'.kind = job.kind
    BY <1>23 DEF Leave, Doing, Next1, durable, Types, Apps, Pasts, Jobs
  <2> QED BY <2>1, KeysKept DEF Live, Exists
<1>24. CASE JobLock
  BY <1>0, <1>24 DEF JobLock, Doing, durable
<1>25. CASE WipeSecret
  <2>1. UNCHANGED <<app, prefs, file, past>> /\ job'.kind = job.kind
    BY <1>25 DEF WipeSecret, Doing, Next1, Types, Jobs
  <2>2. PICK s \in {"bio", "pin", "lockout", "chat"} :
           /\ Doing(s)
           /\ keystore'.bio = IF s = "bio" THEN None ELSE keystore.bio
           /\ keystore'.pin = IF s = "pin" THEN None ELSE keystore.pin
    BY <1>25 DEF WipeSecret, Types, Keystores
  <2>3. s = "pin" /\ Live /\ Exists /\ ~past.kept => past.erased
    <3>1. ASSUME s = "pin", Live, Exists, ~past.kept PROVE past.erased
      <4>1. DeleteAt(6) \/ EraseAt(2) \/ GuardAt(2)
        BY <2>2, <3>1, Positions DEF CoreInv
      <4>2. ~DeleteAt(6)
        BY <3>1 DEF CoreInv, DeletionInv, Deleted, Exists
      <4>3. ~GuardAt(2)
        BY <3>1 DEF CoreInv, JobInv, GuardAt
      <4> QED BY <4>1, <4>2, <4>3 DEF EraseAt, KeysInv
    <3> QED BY <3>1
  <2> QED BY <2>1, <2>2, <2>3 DEF KeysInv, Live, Exists
<1>26. CASE WipeFile
  <2>1. ~Exists' /\ job'.kind = job.kind /\ UNCHANGED past
    BY <1>26 DEF WipeFile, Doing, Next1, Exists, Types, Jobs
  <2> QED BY <2>1 DEF KeysInv
<1>27. CASE WipePrefs
  <2>1. app'.up /\ ~app'.onboarded /\ job' = NoJob
    BY <1>27 DEF WipePrefs, Doing, Types, Apps
  <2> QED BY <2>1, KeysIdle DEF Live, NoJob
<1>28. CASE Erased
  BY <1>28, Alone DEF Types, KeysInv, Live, Exists, Erased, durable
<1>29. CASE StepFails
  <2>1. UNCHANGED <<keystore, prefs, file>> /\ past'.erased = past.erased /\ (past.kept => past'.kept)
        /\ job'.kind # "erase" /\ app.up
    BY <1>29 DEF StepFails, Doing, Next1, durable, Types, Pasts, Jobs, NoJob, CoreInv, JobInv
  <2>2. app'.up = app.up /\ (app'.onboarded => app.onboarded)
    BY <1>29 DEF StepFails, Doing, Next1, Types, Apps
  <2> QED BY <2>1, <2>2, KeysKept DEF Live, Exists
<1> QED BY <1>1, <1>2, <1>3, <1>4, <1>5, <1>6, <1>7, <1>8, <1>9, <1>10, <1>11, <1>12, <1>13, <1>14,
     <1>15, <1>16, <1>17, <1>18, <1>19, <1>20, <1>21, <1>22, <1>23, <1>24, <1>25, <1>26, <1>27,
     <1>28, <1>29 DEF Next

LEMMA KeysInit ==
    ASSUME Init
    PROVE  KeysInv
<1>1. job.kind = "none" /\ KeyOfOld \in Keys
  BY AccountConstants DEF Init, NoJob, KeyOfOld
<1>2. PICK i : /\ file = InitialFile(i)
               /\ keystore = LET k == IF i = "new" THEN None ELSE KeyOfOld
                             IN  [bio |-> k, pin |-> k, lockout |-> Zero, chat |-> i # "new"]
  BY DEF Init
<1>3. Exists => i # "new" /\ file.key = KeyOfOld /\ file.account # "none"
  BY <1>2 DEF InitialFile, Rows, Exists
<1>4. Exists => keystore.bio = KeyOfOld /\ keystore.pin = KeyOfOld
  BY <1>2, <1>3
<1> QED BY <1>1, <1>3, <1>4 DEF KeysInv

\* An installation past onboarding opens: its database is there, the PIN on
\* disk is the PIN of that database, and the account in it loads or is still
\* upgraded, through every onboarding, deletion and restart that was cut short,
\* with the exceptions that OnboardedOpens names and provided that nothing cuts
\* the upgrade itself short.
THEOREM OnboardedAlwaysOpens ==
    ASSUME OneScreen, ~UnlockInWipe, ~Interrupt
    PROVE  Spec => []OnboardedOpens
<1> DEFINE I == Types /\ CoreInv /\ FormatInv /\ KeysInv
<1>1. Init => I
  BY TypesInductive, CoreInit, FormatInit, KeysInit
<1>2. I /\ [Next]_vars => I'
  <2>1. SUFFICES ASSUME I, [Next]_vars PROVE I'
    OBVIOUS
  <2>2. Types' /\ CoreInv'
    BY <2>1, TypesInductive, CoreStep
  <2>3. FormatInv' /\ KeysInv'
    <3>1. CASE Next
      BY <2>1, <3>1, FormatInvStep, KeysInvStep
    <3>2. CASE UNCHANGED vars
      BY <2>1, <3>2, FormatKept, KeysKept DEF vars, FormatInv, Live, Exists
    <3> QED BY <2>1, <3>1, <3>2
  <2> QED BY <2>2, <2>3
<1>3. I => OnboardedOpens
  <2>1. ASSUME I, app.up, app.onboarded, job = NoJob, ~past.erased, ~past.kept
        PROVE  /\ Exists /\ keystore.pin = file.key /\ file.account # "none"
               /\ file.account = "native" \/ file.store # "native" \/ Upgrading
    <3>1. Exists /\ Live
      BY <2>1 DEF CoreInv, FileInv, NoJob, Live
    <3>2. keystore.pin = file.key /\ file.account # "none"
      BY <2>1, <3>1 DEF KeysInv
    <3>3. ~Upgrading => file.store = file.account
      BY <2>1, <3>1, <3>2 DEF FormatInv
    <3> QED BY <3>1, <3>2, <3>3
  <2> QED BY <2>1 DEF OnboardedOpens
<1> HIDE DEF I
<1> QED BY <1>1, <1>2, <1>3, PTL DEF Spec

LEMMA OpenKept ==
    ASSUME OpenInv, UNCHANGED <<conn, file, unlock, gen, draft>>, app'.status = app.status,
           app'.key = app.key, app'.onboarded = app.onboarded, past.kept => past'.kept,
           past'.kept /\ ~past.kept => app.onboarded
    PROVE  OpenInv'
BY DEF OpenInv, OpenedBy, Readable, Exists, Quiet

\* A closed connection and a locked app satisfy whatever the invariant asks.
LEMMA OpenClosed ==
    ASSUME conn' = None, app'.status = "locked", app'.key = None
    PROVE  OpenInv'
BY DEF OpenInv, OpenedBy

\* The connection is open with the key of the database exactly while the app is unlocked.
LEMMA OpenInvStep ==
    ASSUME Types, CoreInv, KeysInv, OpenInv, OneScreen, ~UnlockInWipe, ~LateAnswers, ~OpenFails, Next
    PROVE  OpenInv'
<1>0. ASSUME UNCHANGED <<conn, app, file, unlock, gen, draft, past>> PROVE OpenInv'
  BY <1>0 DEF Types, OpenInv, OpenedBy, Readable, Exists, Quiet
<1>1. CASE Boot
  <2>1. conn' = None /\ app'.status = app.status /\ app'.key = app.key
    BY <1>1 DEF Boot, CoreInv, DownInv, Types, Apps
  <2> QED BY <1>1, <2>1, OpenClosed DEF Boot, CoreInv, DownInv, Closed
<1>2. CASE Restart
  BY <1>2, OpenClosed DEF Restart, Closed
<1>3. CASE SaveLockout
  BY <1>3, <1>0 DEF SaveLockout
<1>4. CASE LockoutEnds
  <2>1. past'.kept = past.kept /\ UNCHANGED <<conn, file, unlock, gen, draft, app>>
    BY <1>4 DEF LockoutEnds, Types, Pasts
  <2> QED BY <2>1, OpenKept
<1>5. ASSUME NEW by \in {"bio", "pin"}, StartUnlock(by) PROVE OpenInv'
  <2>1. CASE UNCHANGED <<app, unlock>>
    BY <1>5, <2>1, OpenKept DEF StartUnlock, OnLockScreen, NoUnlock, durable
  <2>2. CASE ~UNCHANGED <<app, unlock>>
    <3>1. app' = [app EXCEPT !.status = "unlocking"] /\ unlock' = [NoUnlock EXCEPT !.pc = "key", !.by = by]
      BY <1>5, <2>2 DEF StartUnlock, OnLockScreen, NoUnlock
    <3>2. /\ app'.status = "unlocking" /\ app'.key = app.key /\ app'.onboarded = app.onboarded
          /\ unlock'.pc = "key" /\ unlock' # NoUnlock
      BY <3>1 DEF Types, Apps, NoUnlock
    <3>3. app.onboarded /\ app.status = "locked" /\ unlock = NoUnlock /\ UNCHANGED <<conn, file, gen, draft, past>>
      BY <1>5 DEF StartUnlock, OnLockScreen, NoUnlock, durable
    <3>4. Quiet /\ draft = NoDraft
      BY <3>3, NoScreen
    <3> QED BY <3>2, <3>3, <3>4 DEF OpenInv, OpenedBy, Readable, Exists, Quiet, Working, NoDraft
  <2> QED BY <2>1, <2>2
<1>6. ASSUME NEW b \in BOOLEAN, KeyReleased(b) PROVE OpenInv'
  <2>1. /\ app.onboarded /\ app.status # "unlocked" /\ unlock.pc = "key" /\ UNCHANGED <<file, gen, draft>>
        /\ Exists /\ app.up
    <3>1. Exists /\ app.onboarded /\ app.up
      BY <1>6, Alone DEF KeyReleased, CoreInv, FileInv, NoJob
    <3>2. app.status # "unlocked"
      BY <1>6 DEF KeyReleased, CoreInv, PhaseInv, NoUnlock
    <3> QED BY <1>6, <3>1, <3>2 DEF KeyReleased
  <2>2. Quiet /\ draft = NoDraft
    BY <2>1, NoScreen
  <2>3. PICK k : k = IF unlock.by = "bio" THEN keystore.bio ELSE keystore.pin
    OBVIOUS
  <2>4. CASE Refused /\ UNCHANGED conn
    <3>1. /\ app'.status = "locked" /\ app'.key = app.key /\ app'.onboarded = app.onboarded
          /\ unlock' = NoUnlock /\ past'.kept = past.kept
      BY <2>4 DEF Refused, Types, Apps, Pasts
    <3> QED BY <2>1, <2>2, <2>4, <3>1 DEF OpenInv, OpenedBy, Readable, Exists, Quiet, Working, NoDraft, NoUnlock
  <2>5. CASE Unlocked(k) /\ UNCHANGED conn /\ conn # None
    <3>1. /\ app'.status = "unlocked" /\ app'.key = k /\ app'.onboarded = app.onboarded
          /\ unlock' = NoUnlock /\ past'.kept = past.kept
      BY <2>5 DEF Unlocked, Types, Apps, Pasts
    <3>2. past.kept
      BY <2>1, <2>5 DEF OpenInv
    <3> QED BY <2>1, <2>2, <2>5, <3>1, <3>2 DEF OpenInv, OpenedBy, Readable, Exists, Quiet, Working, NoDraft, NoUnlock
  <2>6. CASE k # None /\ conn' = k /\ unlock' = [unlock EXCEPT !.pc = "open", !.key = k] /\ UNCHANGED <<app, past>>
    <3>1. unlock'.pc = "open" /\ unlock'.key = k /\ unlock' # NoUnlock
      BY <2>6 DEF Types, Unlocks, NoUnlock
    <3>2. ~past.kept => k = file.key
      BY <2>1, <2>3, <2>6 DEF KeysInv, Live
    <3> QED BY <2>1, <2>2, <2>6, <3>1, <3>2 DEF OpenInv, OpenedBy, Readable, Exists, Quiet, Working, NoDraft
  <2>7. \/ Refused /\ UNCHANGED conn
        \/ Unlocked(k) /\ UNCHANGED conn /\ conn # None
        \/ k # None /\ conn' = k /\ unlock' = [unlock EXCEPT !.pc = "open", !.key = k] /\ UNCHANGED <<app, past>>
    BY <1>6, <2>3 DEF KeyReleased
  <2> QED BY <2>4, <2>5, <2>6, <2>7
<1>7. ASSUME NEW b \in BOOLEAN, Opened(b) PROVE OpenInv'
  <2>1. /\ app.onboarded /\ app.status # "unlocked" /\ unlock.pc = "open" /\ UNCHANGED <<file, gen, draft, conn>>
        /\ Exists /\ app.up
    <3>1. Exists /\ app.onboarded /\ app.up
      BY <1>7, Alone DEF Opened, CoreInv, FileInv, NoJob
    <3>2. app.status # "unlocked"
      BY <1>7 DEF Opened, CoreInv, PhaseInv, NoUnlock
    <3> QED BY <1>7, <3>1, <3>2 DEF Opened, durable
  <2>2. Quiet /\ draft = NoDraft
    BY <2>1, NoScreen
  <2>3. PICK k : k = unlock.key
    OBVIOUS
  <2>4. CASE Refused /\ ~Readable
    <3>1. /\ app'.status = "locked" /\ app'.key = app.key /\ app'.onboarded = app.onboarded
          /\ unlock' = NoUnlock /\ past'.kept = past.kept
      BY <2>4 DEF Refused, Types, Apps, Pasts
    <3>2. ~past.kept => conn = None
      BY <2>1, <2>4 DEF OpenInv
    <3> QED BY <2>1, <2>2, <2>4, <3>1, <3>2 DEF OpenInv, OpenedBy, Readable, Exists, Quiet, Working, NoDraft, NoUnlock
  <2>5. CASE Unlocked(k) /\ Readable
    <3>1. /\ app'.status = "unlocked" /\ app'.key = k /\ app'.onboarded = app.onboarded
          /\ unlock' = NoUnlock /\ past'.kept = past.kept
      BY <2>5 DEF Unlocked, Types, Apps, Pasts
    <3>2. conn # None
      BY <2>5, AccountConstants DEF Readable, CoreInv, FileInv
    <3>3. ~past.kept => conn = k
      BY <2>1, <2>3, <3>2 DEF OpenInv
    <3> QED BY <2>1, <2>2, <2>5, <3>1, <3>2, <3>3 DEF OpenInv, OpenedBy, Readable, Exists, Quiet, Working, NoDraft, NoUnlock
  <2>6. (Refused /\ ~Readable) \/ (Unlocked(k) /\ Readable)
    BY <1>7, <2>3 DEF Opened, Answered
  <2> QED BY <2>4, <2>5, <2>6
<1>8. ASSUME NEW c \in {"auto", "user"}, Lock(c) PROVE OpenInv'
  BY <1>0, <1>8 DEF Lock, durable
<1>9. ASSUME NEW c \in {"auto", "user", "job"}, Locked(c) PROVE OpenInv'
  <2>1. conn' = None /\ app'.status = "locked" /\ app'.key = None
    BY <1>9 DEF Locked, Upgrading, Types, Apps
  <2> QED BY <2>1, OpenClosed
<1>10. CASE Online
  <2>1. /\ app'.status = app.status /\ app'.key = app.key /\ app'.onboarded = app.onboarded
        /\ UNCHANGED <<conn, unlock, gen, draft, past>>
    BY <1>10 DEF Online, OnlineStep, Readable, Types, Apps
  <2>2. Exists
    BY <1>10, Alone DEF Online, OnlineStep, Readable, CoreInv, FileInv, NoJob
  <2>3. file'.key = file.key
    BY <1>10 DEF Online, OnlineStep, Readable, Types, Files
  <2>4. Exists'
    BY <2>2, <2>3, AccountConstants DEF CoreInv, FileInv, Exists, NoFile
  <2> QED BY <2>1, <2>2, <2>3, <2>4 DEF OpenInv, OpenedBy, Readable, Quiet
<1>11. CASE Register
  BY <1>0, <1>11 DEF Register, durable
<1>12. ASSUME NEW g \in Generations, StartGeneration(g) PROVE OpenInv'
  <2>1. ~app.onboarded /\ unlock = NoUnlock /\ UNCHANGED <<app, conn, file, unlock>>
    BY <1>12 DEF StartGeneration, durable, CoreInv, PhaseInv
  <2>2. gen'[g] = [pc |-> "delete", key |-> None] /\ \A h \in Generations : h = g
    BY <1>12 DEF StartGeneration, Types, OneScreen
  <2> QED BY <2>1, <2>2 DEF OpenInv, OpenedBy, Quiet, Working, NoUnlock
<1>13. ASSUME NEW g \in Generations, DeleteOld(g) PROVE OpenInv'
  <2>1. ~app.onboarded /\ unlock = NoUnlock /\ GenInv(g) /\ OpenedBy(g)
    BY <1>13, Alone DEF DeleteOld, At, NewApp, Working, CoreInv, GensInv, PhaseInv, OpenInv, NoJob
  <2>2. \A h \in Generations : h = g
    BY DEF OneScreen
  <2>3. gen'[g].pc = "key" /\ UNCHANGED <<app, unlock, draft>> /\ conn' = None
    BY <1>13 DEF DeleteOld, At, NewApp, Types, Gens
  <2> QED BY <2>1, <2>2, <2>3 DEF OpenInv, OpenedBy, Quiet, Working, NoUnlock
<1>14. ASSUME NEW g \in Generations, Provision(g) PROVE OpenInv'
  <2>1. ~app.onboarded /\ unlock = NoUnlock /\ GenInv(g) /\ OpenedBy(g)
    BY <1>14, Alone DEF Provision, At, NewApp, FreshKey, Working, CoreInv, GensInv, PhaseInv, OpenInv, NoJob
  <2>2. \A h \in Generations : h = g
    BY DEF OneScreen
  <2>3. gen'[g].pc \in {"failed", "open"} /\ UNCHANGED <<app, unlock, draft, conn>> /\ conn = None
    BY <1>14, <2>1 DEF Provision, At, NewApp, Types, Gens, GenInv
  <2> QED BY <2>1, <2>2, <2>3 DEF OpenInv, OpenedBy, Quiet, Working, NoUnlock
<1>15. ASSUME NEW g \in Generations, OpenNew(g) PROVE OpenInv'
  <2>1. ~app.onboarded /\ unlock = NoUnlock /\ GenInv(g) /\ OpenedBy(g)
    BY <1>15, Alone DEF OpenNew, At, NewApp, Working, CoreInv, GensInv, PhaseInv, OpenInv, NoJob
  <2>2. \A h \in Generations : h = g
    BY DEF OneScreen
  <2>3. gen'[g].pc = "mark" /\ UNCHANGED <<app, unlock, draft>>
    BY <1>15 DEF OpenNew, At, NewApp, Types, Gens
  <2> QED BY <2>1, <2>2, <2>3 DEF OpenInv, OpenedBy, Quiet, Working, NoUnlock
<1>16. ASSUME NEW g \in Generations, MarkUnlocked(g) PROVE OpenInv'
  <2>1. ~app.onboarded /\ unlock = NoUnlock /\ GenInv(g) /\ OpenedBy(g)
    BY <1>16, Alone DEF MarkUnlocked, At, NewApp, Answered, Readable, Working, CoreInv, GensInv, PhaseInv, OpenInv, NoJob
  <2>2. \A h \in Generations : h = g
    BY DEF OneScreen
  <2>3. UNCHANGED <<unlock, draft, conn, file>> /\ gen'[g].key = gen[g].key /\ app'.onboarded = app.onboarded
    <3>1. gen'[g].key = gen[g].key
      BY <1>16 DEF MarkUnlocked, At, Types, Gens
    <3>2. app'.onboarded = app.onboarded
      BY <1>16 DEF MarkUnlocked, NewApp, Types, Apps
    <3> QED BY <1>16, <3>1, <3>2 DEF MarkUnlocked, NewApp
  <2>4. CASE ~Readable
    <3>1. conn = None
      BY <1>16, <2>1, <2>4, AccountConstants DEF GenInv, MarkUnlocked, At, NewApp, Answered, Readable, Readable, Exists, NoFile
    <3>2. gen'[g].pc = "failed" /\ UNCHANGED app
      BY <1>16, <2>4 DEF MarkUnlocked, At, NewApp, Answered, Readable, Types, Gens
    <3> QED BY <2>1, <2>2, <2>3, <3>1, <3>2 DEF OpenInv, OpenedBy, Quiet, Working, NoUnlock
  <2>5. CASE gen'[g].pc = "store" /\ app'.status = "unlocked" /\ app'.key = gen[g].key /\ Readable
    <3>1. conn = gen[g].key
      BY <1>16, <2>1, <2>5 DEF GenInv, MarkUnlocked, At, Readable
    <3> QED BY <2>1, <2>2, <2>3, <2>5, <3>1 DEF OpenInv, OpenedBy, Quiet, Working, NoUnlock
  <2>6. Readable => gen'[g].pc = "store" /\ app'.status = "unlocked" /\ app'.key = gen[g].key
    <3>1. Readable => /\ gen' = [gen EXCEPT ![g].pc = "store"]
                      /\ app' = [app EXCEPT !.status = "unlocked", !.key = gen[g].key]
      BY <1>16 DEF MarkUnlocked, At, NewApp
    <3>2. ASSUME Readable PROVE gen'[g].pc = "store"
      BY <3>1, <3>2 DEF Types, Gens
    <3>3. ASSUME Readable PROVE app'.status = "unlocked" /\ app'.key = gen[g].key
      BY <3>1, <3>3 DEF Types, Apps
    <3> QED BY <3>2, <3>3
  <2> QED BY <2>4, <2>5, <2>6
<1>17. ASSUME NEW g \in Generations, InstallIdentity(g) PROVE OpenInv'
  <2>1. ~app.onboarded /\ unlock = NoUnlock /\ GenInv(g) /\ OpenedBy(g)
    BY <1>17, Alone DEF InstallIdentity, Provisioned, At, NewApp, Readable, Working, CoreInv, GensInv, PhaseInv, OpenInv, NoJob
  <2>2. \A h \in Generations : h = g
    BY DEF OneScreen
  <2>3. UNCHANGED <<unlock, conn, app>> /\ gen'[g].key = gen[g].key
    BY <1>17 DEF InstallIdentity, Provisioned, At, NewApp, Readable, Types, Gens, Apps
  <2>4. CASE ~Readable
    <3>1. conn = None
      BY <1>17, <2>1, <2>4, AccountConstants DEF GenInv, InstallIdentity, Provisioned, At, NewApp, Readable, Readable, Exists, NoFile
    <3>2. gen'[g].pc = "failed" /\ UNCHANGED draft
      BY <1>17, <2>4 DEF InstallIdentity, Provisioned, At, NewApp, Readable, Types, Gens
    <3> QED BY <2>1, <2>2, <2>3, <3>1, <3>2 DEF OpenInv, OpenedBy, Quiet, Working, NoUnlock
  <2>5. CASE Readable
    <3>1. gen'[g].pc = "row" /\ gen[g].pc = "store"
      BY <1>17, <2>5 DEF InstallIdentity, Provisioned, At, NewApp, Readable, Types, Gens
    <3>2. conn # None
      BY <2>5, AccountConstants DEF Readable, CoreInv, FileInv
    <3>3. app.status = "unlocked" /\ conn = gen[g].key /\ app.key = conn
      BY <2>1, <3>1, <3>2 DEF OpenedBy
    <3> QED BY <2>1, <2>2, <2>3, <3>1, <3>2, <3>3 DEF OpenInv, OpenedBy, Quiet, Working, NoUnlock
  <2> QED BY <2>4, <2>5
<1>18. ASSUME NEW g \in Generations, StoreAccount(g) PROVE OpenInv'
  <2>1. ~app.onboarded /\ unlock = NoUnlock /\ GenInv(g) /\ OpenedBy(g)
    BY <1>18, Alone DEF StoreAccount, Provisioned, At, NewApp, Readable, Working, CoreInv, GensInv, PhaseInv, OpenInv, NoJob
  <2>2. \A h \in Generations : h = g
    BY DEF OneScreen
  <2>3. UNCHANGED <<unlock, conn, app>> /\ gen'[g].key = gen[g].key
    BY <1>18 DEF StoreAccount, Provisioned, At, NewApp, Readable, Types, Gens, Apps
  <2>4. CASE ~Readable
    <3>1. conn = None
      BY <1>18, <2>1, <2>4, AccountConstants DEF GenInv, StoreAccount, Provisioned, At, NewApp, Readable, Readable, Exists, NoFile
    <3>2. gen'[g].pc = "failed" /\ UNCHANGED draft
      BY <1>18, <2>4 DEF StoreAccount, Provisioned, At, NewApp, Readable, Types, Gens
    <3> QED BY <2>1, <2>2, <2>3, <3>1, <3>2 DEF OpenInv, OpenedBy, Quiet, Working, NoUnlock
  <2>5. CASE Readable
    <3>1. gen'[g].pc = "done" /\ gen[g].pc = "row"
      BY <1>18, <2>5 DEF StoreAccount, Provisioned, At, NewApp, Readable, Types, Gens
    <3>2. conn # None
      BY <2>5, AccountConstants DEF Readable, CoreInv, FileInv
    <3>3. app.status = "unlocked" /\ conn = gen[g].key /\ app.key = conn
      BY <2>1, <3>1, <3>2 DEF OpenedBy
    <3> QED BY <2>1, <2>2, <2>3, <3>1, <3>2, <3>3 DEF OpenInv, OpenedBy, Quiet, Working, NoUnlock
  <2> QED BY <2>4, <2>5
<1>19. CASE SetPin
  <2>1. draft'.key = draft.key /\ past'.kept = past.kept /\ UNCHANGED <<conn, app, file, unlock, gen>>
    BY <1>19 DEF SetPin, OnPinScreen, Types, Drafts, Pasts
  <2> QED BY <2>1 DEF OpenInv, OpenedBy, Readable, Exists, Quiet
<1>20. CASE Complete
  <2>1. PICK g \in Generations : gen[g].pc = "done"
    BY <1>20 DEF Complete, OnCompleteScreen, CoreInv, FileInv
  <2>2. /\ GenInv(g) /\ OpenedBy(g) /\ draft.pin /\ ~app.onboarded /\ unlock = NoUnlock /\ Quiet
    BY <1>20 DEF Complete, OnCompleteScreen, CoreInv, GensInv, OpenInv, PhaseInv
  <2>3. /\ app'.status = app.status /\ app'.key = app.key /\ app'.onboarded /\ ~draft'.pin /\ draft'.key = None
        /\ UNCHANGED <<conn, unlock, gen, file>>
    BY <1>20 DEF Complete, OnCompleteScreen, durable, Types, Apps, NoDraft
  <2>4. app.status = "unlocked" => Readable /\ app.key = conn
    BY <2>1, <2>2, AccountConstants DEF GenInv, OpenedBy, Readable, Exists, NoFile
  <2>5. app.status = "locked" => conn = None
    BY <2>2 DEF OpenInv
  <2> QED BY <2>2, <2>3, <2>4, <2>5 DEF OpenInv, OpenedBy, Readable, Exists, Quiet, Working, NoUnlock
<1>21. CASE SavePrefs
  BY <1>0, <1>21 DEF SavePrefs, durable
<1>22. ASSUME NEW kind \in {"delete", "erase"}, StartWipe(kind) PROVE OpenInv'
  <2>1. past'.kept = past.kept /\ UNCHANGED <<conn, app, file, unlock, gen, draft>>
    BY <1>22 DEF StartWipe, InTabs, durable, Types, Pasts
  <2> QED BY <2>1, OpenKept
<1>23. CASE Leave
  <2>1. /\ past'.kept = past.kept /\ UNCHANGED <<conn, file, unlock, gen, draft>>
        /\ app'.status = app.status /\ app'.key = app.key /\ app'.onboarded = app.onboarded
    BY <1>23 DEF Leave, Doing, Next1, Types, Pasts, Apps
  <2> QED BY <2>1, OpenKept
<1>24. CASE JobLock
  BY <1>0, <1>24 DEF JobLock, Doing, durable
<1>25. CASE WipeSecret
  BY <1>0, <1>25 DEF WipeSecret, Doing, Next1, durable
<1>26. CASE WipeFile
  <2>1. Deleted(4)
    BY <1>26, Positions DEF WipeFile, CoreInv, DeletionInv
  <2>2. conn' = None /\ UNCHANGED app
    BY <1>26 DEF WipeFile, Doing, Next1
  <2> QED BY <2>1, <2>2, OpenClosed DEF Deleted
<1>27. CASE WipePrefs
  <2>1. app.status = "locked" /\ app.key = None /\ conn = None
    <3>1. DeleteAt(8) => Deleted(8)
      BY DEF CoreInv, DeletionInv
    <3>2. GuardAt(5) => ~app.up
      BY DEF GuardAt, CoreInv, JobInv
    <3>3. DeleteAt(8) \/ GuardAt(5)
      BY <1>27, Positions DEF WipePrefs, Doing, CoreInv
    <3> QED BY <3>1, <3>2, <3>3 DEF Deleted, CoreInv, DownInv, Closed
  <2>2. app'.status = app.status /\ app'.key = app.key /\ UNCHANGED conn
    BY <1>27 DEF WipePrefs, Doing, Types, Apps
  <2> QED BY <2>1, <2>2, OpenClosed
<1>28. CASE Erased
  BY <1>0, <1>28 DEF Erased, durable
<1>29. CASE StepFails
  <2>1. CASE Doing("prefs")
    <3>1. Deleted(8)
      BY <1>29, <2>1, Positions DEF StepFails, Doing, Next1, CoreInv, DeletionInv, GuardAt
    <3>2. app'.status = app.status /\ app'.key = app.key /\ UNCHANGED conn
      BY <1>29, <2>1 DEF StepFails, Doing, Next1, Types, Apps
    <3> QED BY <3>1, <3>2, OpenClosed DEF Deleted
  <2>2. CASE ~Doing("prefs")
    <3>1. UNCHANGED <<conn, file, unlock, gen, draft, app>> /\ (past.kept => past'.kept) /\ app.onboarded
      BY <1>29, <2>2 DEF StepFails, Doing, Next1, durable, Types, Pasts, CoreInv, JobInv
    <3> QED BY <3>1, OpenKept
  <2> QED BY <2>1, <2>2
<1> QED BY <1>1, <1>2, <1>3, <1>4, <1>5, <1>6, <1>7, <1>8, <1>9, <1>10, <1>11, <1>12, <1>13, <1>14,
     <1>15, <1>16, <1>17, <1>18, <1>19, <1>20, <1>21, <1>22, <1>23, <1>24, <1>25, <1>26, <1>27,
     <1>28, <1>29 DEF Next

\* The lock holds: a locked app has dropped the key and closed the database, an
\* unlocked one has it open with its own key, and every wrong PIN is counted; as
\* far as the database answers only on an open connection and can be prepared.
THEOREM LockAlwaysHolds ==
    ASSUME OneScreen, ~UnlockInWipe, ~LateAnswers, ~OpenFails
    PROVE  Spec => []LockHolds
<1> DEFINE I == Types /\ CoreInv /\ KeysInv /\ OpenInv
<1>1. Init => I
  <2>1. Init => OpenInv
    BY DEF Init, Closed, OpenInv, OpenedBy
  <2> QED BY <2>1, TypesInductive, CoreInit, KeysInit
<1>2. I /\ [Next]_vars => I'
  <2>1. SUFFICES ASSUME I, [Next]_vars PROVE I'
    OBVIOUS
  <2>2. Types' /\ CoreInv'
    BY <2>1, TypesInductive, CoreStep
  <2>3. KeysInv' /\ OpenInv'
    <3>1. CASE Next
      BY <2>1, <3>1, KeysInvStep, OpenInvStep
    <3>2. CASE UNCHANGED vars
      BY <2>1, <3>2, KeysKept, OpenKept DEF vars, Live, Exists
    <3> QED BY <2>1, <3>1, <3>2
  <2> QED BY <2>2, <2>3
<1>3. I => LockFollowsDatabase
  <2>1. ASSUME I, AtRest, ~past.kept
        PROVE  /\ app.status = "locked" => conn = None /\ app.key = None
               /\ app.status = "unlocked" /\ app.onboarded => Readable /\ app.key = conn
    BY <2>1 DEF OpenInv, AtRest, Quiet
  <2> QED BY <2>1 DEF LockFollowsDatabase
<1>4. Spec => []AttemptsBounded
  BY AttemptsAreCounted
<1>5. LockFollowsDatabase /\ AttemptsBounded <=> LockHolds
  BY DEF LockHolds
<1> HIDE DEF I
<1> QED BY <1>1, <1>2, <1>3, <1>4, <1>5, PTL DEF Spec

=============================================================================
