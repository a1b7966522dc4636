------------------------------ MODULE Account ------------------------------
(***************************************************************************)
(* The life of one installation: onboarding, the app lock, coming online,  *)
(* the upgrade of an old Signal store, erasing, deleting, and the restarts *)
(* between any two of their writes.                                        *)
(*                                                                         *)
(* Three things survive the process, each written on its own: the keystore *)
(* (a biometric copy and a PIN wrapped copy of the database key, and the   *)
(* counters of the lockout), the preferences, and the encrypted file.      *)
(* Everything else is memory.  An asynchronous function is one step per    *)
(* stretch between two answers of the keystore or the database.            *)
(***************************************************************************)
EXTENDS Naturals, Sequences

CONSTANTS
    Keys,           \* database keys the random generator may hand out
    None,           \* no key
    Generations,    \* runs of the key generation screen
    Installs,       \* the installations a behaviour may start from
    MaxAttempts,    \* MAX_ATTEMPTS
    MaxRestarts,    \* bound: how often the process dies
    MaxFailures,    \* bound: steps of a deletion that fail
    Back,           \* TRUE: the key generation screen can be left while it works
    LateAnswers,    \* TRUE: a closed connection still answers what it was asked
    OpenFails,      \* TRUE: preparing the schema can fail (a full disk)
    UnlockInWipe,   \* TRUE: the lock screen is used while a deletion runs
    Interrupt       \* TRUE: a restart or a lock can cut the upgrade short

ASSUME AccountConstants ==
    /\ None \notin Keys /\ Keys # {}
    /\ MaxAttempts \in Nat \ {0} /\ MaxRestarts \in Nat /\ MaxFailures \in Nat
    /\ {Back, LateAnswers, OpenFails, UnlockInWipe, Interrupt} \subseteq BOOLEAN

VARIABLES
    keystore,   \* the copies of the key, the lockout counters, the chat lock keys
    prefs,      \* the saved preference onboardingComplete
    file,       \* the encrypted database: its key, and the rows that matter here
    registered, \* the relay has a record of this installation
    conn,       \* the key the open connection was opened with
    app,        \* the lock's status and dbKey, the settings and session stores
    tries,      \* the lockout in memory, whether it was read, the save under way
    unlock,     \* the unlock under way
    lockers,    \* the callers of lock() that wait for its hook
    online,     \* where bringOnline is
    gen,        \* where each key generation is, and its key
    draft,      \* the key in the onboarding draft, and whether its PIN is stored
    job,        \* the wipe under way and the steps it has left
    past        \* history: restarts, failed steps, wrong PINs, what was wiped or kept

vars == <<keystore, prefs, file, registered, conn, app, tries, unlock, lockers,
          online, gen, draft, job, past>>
durable == <<keystore, prefs, file, registered>>
-----------------------------------------------------------------------------
Zero == [failed |-> 0, until |-> FALSE]
NoFile == [key |-> None, store |-> "none", account |-> "none", confirmed |-> "none"]
NoUnlock == [pc |-> "idle", by |-> "pin", key |-> None]
NoGen == [pc |-> "idle", key |-> None]
NoDraft == [key |-> None, pin |-> FALSE]
NoJob == [kind |-> "none", todo |-> << >>]
Closed == [status |-> "locked", key |-> None, onboarded |-> FALSE,
           account |-> FALSE, relay |-> FALSE, up |-> FALSE]
NotRead == [now |-> Zero, read |-> FALSE, save |-> << >>]

Exists == file # NoFile
Readable == Exists /\ conn = file.key
Upgrading == online \in {"wipe", "install", "rewrite", "unverify"}

\* A statement sent to the connection is answered, not refused.
Answered == Readable \/ (LateAnswers /\ conn = None)

\* Installation k: nothing, a current one, one from before libsignal, or what
\* the keychain of a deleted app hands to a new one.
KeyOfOld == CHOOSE k \in Keys : TRUE
Rows(format) == [key |-> KeyOfOld, store |-> format, account |-> format, confirmed |-> format]
InitialFile(i) ==
    IF i = "current" THEN Rows("native") ELSE IF i = "old" THEN Rows("js") ELSE NoFile

Init ==
    /\ \E i \in Installs :
          /\ file = InitialFile(i)
          /\ prefs = (i # "new") /\ registered = (i # "new")
          /\ keystore = LET k == IF i = "new" THEN None ELSE KeyOfOld
                        IN  [bio |-> k, pin |-> k, lockout |-> Zero, chat |-> i # "new"]
    /\ conn = None /\ app = Closed /\ tries = NotRead /\ unlock = NoUnlock
    /\ lockers = {} /\ online = "idle" /\ gen = [g \in Generations |-> NoGen]
    /\ draft = NoDraft /\ job = NoJob
    /\ past = [restarts |-> 0, failures |-> 0, wrong |-> 0, erased |-> FALSE, gone |-> FALSE,
               kept |-> FALSE]
-----------------------------------------------------------------------------
(* Starting: the reinstall guard, then the settings are read.              *)

GuardSteps == <<"bio", "pin", "lockout", "chat", "prefs">>

Boot ==
    /\ ~app.up /\ job = NoJob
    /\ IF prefs /\ ~Exists
       THEN /\ job' = [kind |-> "guard", todo |-> GuardSteps]
            /\ UNCHANGED app
       ELSE /\ app' = [app EXCEPT !.up = TRUE, !.onboarded = prefs]
            /\ UNCHANGED job
    /\ UNCHANGED <<durable, conn, tries, unlock, lockers, online, gen, draft, past>>

\* The process dies; with a reinstall its files go too, the keychain stays.
Restart ==
    /\ past.restarts < MaxRestarts
    /\ Upgrading => Interrupt
    /\ file' \in {file, NoFile}
    /\ conn' = None /\ app' = Closed /\ tries' = NotRead /\ unlock' = NoUnlock
    /\ lockers' = {} /\ online' = "idle" /\ gen' = [g \in Generations |-> NoGen]
    /\ draft' = NoDraft /\ job' = NoJob
    /\ past' = [past EXCEPT !.restarts = @ + 1]
    /\ UNCHANGED <<keystore, prefs, registered>>
-----------------------------------------------------------------------------
(* The lockout and the unlock.                                             *)

\* The counters after an attempt, and the write of them that nobody awaits.
Counted(c) == tries' = [tries EXCEPT !.now = c, !.save = <<c>>]

SaveLockout ==
    /\ tries.save # << >>
    /\ keystore' = [keystore EXCEPT !.lockout = Head(tries.save)]
    /\ tries' = [tries EXCEPT !.save = << >>]
    /\ UNCHANGED <<prefs, file, registered, conn, app, unlock, lockers, online, gen,
                   draft, job, past>>

\* The five minutes pass, wherever the deadline is written down.
LockoutEnds ==
    /\ tries.now.until \/ keystore.lockout.until
    /\ LET save == tries.save
       IN  tries' = [tries EXCEPT
              !.now.until = FALSE,
              !.save = IF save = << >> THEN << >> ELSE <<[save[1] EXCEPT !.until = FALSE]>>]
    /\ keystore' = [keystore EXCEPT !.lockout.until = FALSE]
    /\ past' = [past EXCEPT !.wrong = 0]
    /\ UNCHANGED <<prefs, file, registered, conn, app, unlock, lockers, online, gen, draft, job>>

OnLockScreen ==
    /\ app.up /\ app.onboarded /\ app.status = "locked" /\ unlock = NoUnlock
    /\ UnlockInWipe \/ job = NoJob

\* unlockWithBiometrics, unlockWithPin: the counters are read once per process.
StartUnlock(by) ==
    /\ OnLockScreen
    /\ LET c == IF tries.read THEN tries.now ELSE keystore.lockout
       IN  /\ tries' = [tries EXCEPT !.now = c, !.read = TRUE]
           /\ IF c.until THEN UNCHANGED <<app, unlock>>
              ELSE /\ app' = [app EXCEPT !.status = "unlocking"]
                   /\ unlock' = [NoUnlock EXCEPT !.pc = "key", !.by = by]
    /\ UNCHANGED <<durable, conn, lockers, online, gen, draft, job, past>>

\* openWithKey after the database: the key is kept, bringOnline starts.
Unlocked(k) ==
    /\ app' = [app EXCEPT !.status = "unlocked", !.key = k]
    /\ Counted(Zero)
    /\ unlock' = NoUnlock
    /\ online' = IF online = "idle" THEN "look" ELSE online
    /\ past' = [past EXCEPT !.wrong = 0]

Refused_Fault == \* Fault: one attempt too many.
    /\ app' = [app EXCEPT !.status = "locked"]
    /\ unlock' = NoUnlock
    /\ IF unlock.by = "bio" THEN UNCHANGED <<tries, past>>
       ELSE /\ Counted(IF tries.now.failed >= MaxAttempts THEN [failed |-> 0, until |-> TRUE]
                       ELSE [failed |-> tries.now.failed + 1, until |-> FALSE])
            /\ past' = [past EXCEPT !.wrong = @ + 1]
    /\ UNCHANGED online

\* The catch: any error of a PIN unlock counts as a wrong PIN.
Refused ==
    /\ app' = [app EXCEPT !.status = "locked"]
    /\ unlock' = NoUnlock
    /\ IF unlock.by = "bio" THEN UNCHANGED <<tries, past>>
       ELSE /\ Counted(IF tries.now.failed + 1 >= MaxAttempts THEN [failed |-> 0, until |-> TRUE]
                       ELSE [failed |-> tries.now.failed + 1, until |-> FALSE])
            /\ past' = [past EXCEPT !.wrong = @ + 1]
    /\ UNCHANGED online

\* The keystore answers; it works in order, so an earlier save is done.
\* With the key, openEncryptedDb returns the connection there is, or opens one.
KeyReleased(granted) ==
    /\ unlock.pc = "key" /\ tries.save = << >>
    /\ LET k == IF unlock.by = "bio" THEN keystore.bio ELSE keystore.pin
       IN  CASE k = None \/ ~granted -> Refused /\ UNCHANGED <<conn, file>>
             [] conn # None          -> Unlocked(k) /\ UNCHANGED <<conn, file>>
             [] OTHER ->
                  /\ conn' = k
                  /\ file' = IF Exists THEN file ELSE [NoFile EXCEPT !.key = k]
                  /\ unlock' = [unlock EXCEPT !.pc = "open", !.key = k]
                  /\ UNCHANGED <<app, tries, online, past>>
    /\ UNCHANGED <<keystore, prefs, registered, lockers, gen, draft, job>>

\* The schema is in place, or a statement failed: a wrong key, a closed connection.
Opened(fails) ==
    /\ unlock.pc = "open"
    /\ fails => OpenFails \/ ~Readable
    /\ ~fails => Answered
    /\ IF fails THEN Refused ELSE Unlocked(unlock.key)
    /\ UNCHANGED <<durable, conn, lockers, gen, draft, job>>
-----------------------------------------------------------------------------
(* lock(): the hook may hang up a call first; the rest is one step.        *)

Lock(caller) ==
    /\ app.up /\ caller \notin lockers
    /\ caller = "user" => app.status = "unlocked"
    /\ lockers' = lockers \cup {caller}
    /\ UNCHANGED <<durable, conn, app, tries, unlock, online, gen, draft, job, past>>

Locked_Fault(caller) == \* Fault: the connection outlives the key.
    /\ caller \in lockers
    /\ Upgrading => Interrupt
    /\ lockers' = lockers \ {caller}
    /\ conn' = conn
    /\ app' = [app EXCEPT !.key = None, !.status = "locked", !.account = FALSE]
    /\ job' = IF caller = "job" THEN [job EXCEPT !.todo = Tail(@)] ELSE job
    /\ UNCHANGED <<durable, tries, unlock, online, gen, draft, past>>

Locked(caller) ==
    /\ caller \in lockers
    /\ Upgrading => Interrupt
    /\ lockers' = lockers \ {caller}
    /\ conn' = None
    /\ app' = [app EXCEPT !.key = None, !.status = "locked", !.account = FALSE]
    /\ job' = IF caller = "job" THEN [job EXCEPT !.todo = Tail(@)] ELSE job
    /\ UNCHANGED <<durable, tries, unlock, online, gen, draft, past>>
-----------------------------------------------------------------------------
(* bringOnline: the upgrade, the account, the relay.  A closed database    *)
(* throws and ends it where it is.                                         *)

OnlineStep_Fault(at, next, rows) == \* Fault: the confirms of the dead identity stay.
    online = at /\ online' = (IF next = "unverify" THEN "account" ELSE next) /\ file' = rows

OnlineStep(at, next, rows) == online = at /\ online' = next /\ file' = rows

Online ==
    /\ \/ /\ OnlineStep("prefs", "idle", file)     \* startRelay; no database needed
          /\ app' = [app EXCEPT !.relay = TRUE]
       \/ ~Readable /\ online \notin {"idle", "prefs"} /\ OnlineStep(online, "idle", file)
          /\ UNCHANGED app
       \/ /\ Readable /\ UNCHANGED app
          /\ \/ LET current == file.account = "none" \/ file.store = "native"
                IN  OnlineStep("look", IF current THEN "account" ELSE "wipe", file)
             \/ OnlineStep("wipe", "install", [file EXCEPT !.store = "none"])
             \/ OnlineStep("install", "rewrite", [file EXCEPT !.store = "native"])
             \/ OnlineStep("rewrite", "unverify", [file EXCEPT !.account = "native"])
             \/ OnlineStep("unverify", "account", [file EXCEPT !.confirmed = "none"])
       \/ /\ Readable                              \* loadAccount throws on an old record
          /\ OnlineStep("account", IF file.account = "native" THEN "prefs" ELSE "idle", file)
          /\ app' = [app EXCEPT !.account = @ \/ file.account = "native"]
    /\ UNCHANGED <<keystore, prefs, registered, conn, tries, unlock, lockers, gen, draft, job, past>>

\* The client registers whenever it connects.
Register ==
    /\ app.relay /\ ~registered
    /\ registered' = TRUE
    /\ UNCHANGED <<keystore, prefs, file, conn, app, tries, unlock, lockers, online, gen,
                   draft, job, past>>
-----------------------------------------------------------------------------
(* Onboarding.                                                             *)

Working == {"delete", "key", "open", "mark", "store", "row"}
FreshKey == Keys \ ({keystore.bio, keystore.pin, file.key, conn, draft.key}
                    \cup {gen[g].key : g \in Generations})

StartGeneration(g) ==
    /\ app.up /\ ~app.onboarded /\ job = NoJob
    /\ gen[g].pc \notin Working
    /\ Back \/ \A h \in Generations : gen[h].pc \notin Working
    /\ gen' = [gen EXCEPT ![g] = [pc |-> "delete", key |-> None]]
    /\ draft' = [draft EXCEPT !.pin = FALSE]
    /\ past' = [past EXCEPT !.gone = FALSE, !.erased = FALSE]
    /\ UNCHANGED <<durable, conn, app, tries, unlock, lockers, online, job>>

At(g, pc, next) == gen[g].pc = pc /\ gen' = [gen EXCEPT ![g].pc = next]
NewApp(a) == app' = a /\ UNCHANGED <<prefs, registered, tries, unlock, lockers, online, job, past>>

DeleteOld(g) ==
    /\ At(g, "delete", "key")
    /\ conn' = None /\ file' = NoFile
    /\ NewApp(app) /\ UNCHANGED <<keystore, draft>>

\* provisionDatabaseKey stores the biometric copy, or its prompt is refused.
Provision(g) ==
    /\ gen[g].pc = "key"
    /\ \/ /\ At(g, "key", "failed") /\ UNCHANGED keystore
       \/ \E k \in FreshKey :
             /\ gen' = [gen EXCEPT ![g] = [pc |-> "open", key |-> k]]
             /\ keystore' = [keystore EXCEPT !.bio = k]
    /\ NewApp(app) /\ UNCHANGED <<file, conn, draft>>

OpenNew(g) ==
    /\ At(g, "open", "mark")
    /\ conn' = IF conn = None THEN gen[g].key ELSE conn
    /\ file' = IF conn = None /\ ~Exists THEN [NoFile EXCEPT !.key = gen[g].key] ELSE file
    /\ NewApp(app) /\ UNCHANGED <<keystore, draft>>

MarkUnlocked(g) ==
    /\ \/ /\ Answered /\ At(g, "mark", "store")
          /\ NewApp([app EXCEPT !.status = "unlocked", !.key = gen[g].key])
       \/ ~Readable /\ At(g, "mark", "failed") /\ NewApp(app)
    /\ UNCHANGED <<keystore, file, conn, draft>>

\* A write of provisionAccount, or the closed database refuses it.
Provisioned(g, pc, next, rows) ==
    /\ IF Readable THEN At(g, pc, next) /\ file' = rows ELSE At(g, pc, "failed") /\ UNCHANGED file
    /\ NewApp(app) /\ UNCHANGED <<keystore, conn>>

\* The Signal store, its marker last; then the account row.
InstallIdentity(g) ==
    Provisioned(g, "store", "row", [file EXCEPT !.store = "native"]) /\ UNCHANGED draft

StoreAccount(g) ==
    /\ Provisioned(g, "row", "done", [file EXCEPT !.account = "native"])
    /\ draft' = IF Readable THEN [key |-> gen[g].key, pin |-> FALSE] ELSE draft

\* Continue of the key generation screen leads to the PIN, when it is done.
OnPinScreen ==
    /\ ~app.onboarded /\ draft.key # None /\ job = NoJob
    /\ \E g \in Generations : gen[g].pc = "done"
    /\ Back \/ \A g \in Generations : gen[g].pc \notin Working

SetPin_Fault == \* Fault: the PIN screen keeps the wrapped key of the last installation.
    /\ OnPinScreen
    /\ keystore' = [keystore EXCEPT !.pin = IF @ = None THEN draft.key ELSE @]
    /\ draft' = [draft EXCEPT !.pin = TRUE]
    /\ past' = [past EXCEPT !.wrong = 0]
    /\ UNCHANGED <<prefs, file, registered, conn, app, tries, unlock, lockers, online, gen, job>>

SetPin ==
    /\ OnPinScreen
    /\ keystore' = [keystore EXCEPT !.pin = draft.key]
    /\ draft' = [draft EXCEPT !.pin = TRUE]
    /\ past' = [past EXCEPT !.wrong = 0]
    /\ UNCHANGED <<prefs, file, registered, conn, app, tries, unlock, lockers, online, gen, job>>

\* completeOnboarding: online with the draft's account; the store, then the disk.
OnCompleteScreen == ~app.onboarded /\ draft.pin

Complete ==
    /\ OnCompleteScreen
    /\ app' = [app EXCEPT !.onboarded = TRUE, !.account = TRUE]
    /\ online' = "prefs" /\ draft' = NoDraft
    /\ past' = [past EXCEPT !.kept = FALSE]
    /\ UNCHANGED <<durable, conn, tries, unlock, lockers, gen, job>>

SavePrefs ==
    /\ app.onboarded /\ ~prefs /\ job = NoJob
    /\ prefs' = TRUE
    /\ UNCHANGED <<keystore, file, registered, conn, app, tries, unlock, lockers, online,
                   gen, draft, job, past>>
-----------------------------------------------------------------------------
(* Wiping: the guard's, the settings screen's two buttons.                 *)

DeleteSteps == <<"leave", "lock", "chat", "file", "bio", "pin", "lockout", "prefs">>
EraseSteps == <<"bio", "pin", "lockout", "lock">>

\* The tabs show only while unlocked.
InTabs == app.status = "unlocked" /\ app.onboarded

\* confirmDeleteAccount and confirmWipe, from the settings of an unlocked app
\* (long after bringOnline, whose reads take milliseconds, is done).
StartWipe(kind) ==
    /\ InTabs /\ job = NoJob /\ online = "idle"
    /\ job' = [kind |-> kind,
               todo |-> IF kind = "delete" THEN DeleteSteps ELSE EraseSteps]
    /\ past' = [past EXCEPT !.erased = @ \/ kind = "erase"]
    /\ UNCHANGED <<durable, conn, app, tries, unlock, lockers, online, gen, draft>>

Doing(step) == job.todo # << >> /\ Head(job.todo) = step
Next1(skip) == job' = [job EXCEPT !.todo = SubSeq(@, 2 + skip, Len(@))]

Leave_Fault == \* Fault: the client of a relay that does not answer is not stopped.
    /\ Doing("leave") /\ Next1(0)
    /\ registered' \in {registered, FALSE}
    /\ past' = [past EXCEPT !.failures = IF registered' THEN @ + 1 ELSE @]
    /\ past'.failures <= MaxFailures
    /\ app' = [app EXCEPT !.relay = @ /\ registered']
    /\ UNCHANGED <<keystore, prefs, file, conn, tries, unlock, lockers, online, gen, draft>>

\* The relay forgets the record, or does not answer; the client stops either way.
Leave ==
    /\ Doing("leave") /\ Next1(0)
    /\ registered' \in {registered, FALSE}
    /\ past' = [past EXCEPT !.failures = IF registered' THEN @ + 1 ELSE @]
    /\ past'.failures <= MaxFailures
    /\ app' = [app EXCEPT !.relay = FALSE]
    /\ UNCHANGED <<keystore, prefs, file, conn, tries, unlock, lockers, online, gen, draft>>

JobLock ==
    /\ Doing("lock") /\ "job" \notin lockers
    /\ lockers' = lockers \cup {"job"}
    /\ UNCHANGED <<durable, conn, app, tries, unlock, online, gen, draft, job, past>>

\* wipeSecrets deletes three items; the first that fails keeps the rest.
WipeSecret ==
    /\ \/ Doing("bio") /\ keystore' = [keystore EXCEPT !.bio = None]
       \/ Doing("pin") /\ keystore' = [keystore EXCEPT !.pin = None]
       \/ Doing("lockout") /\ keystore' = [keystore EXCEPT !.lockout = Zero]
       \/ Doing("chat") /\ keystore' = [keystore EXCEPT !.chat = FALSE]
    /\ Next1(0)
    /\ UNCHANGED <<prefs, file, registered, conn, app, tries, unlock, lockers, online, gen,
                   draft, past>>

WipeFile ==
    /\ Doing("file") /\ Next1(0)
    /\ conn' = None /\ file' = NoFile
    /\ UNCHANGED <<keystore, prefs, registered, app, tries, unlock, lockers, online, gen, draft, past>>

\* The last step of a deletion and of the guard.  A deletion leads to the
\* welcome screen, the guard's boot goes on.
WipePrefs ==
    /\ Doing("prefs")
    /\ job' = NoJob /\ prefs' = FALSE
    /\ app' = [app EXCEPT !.onboarded = FALSE, !.account = FALSE, !.up = TRUE]
    /\ past' = [past EXCEPT !.gone = job.kind = "delete", !.erased = FALSE, !.kept = FALSE]
    /\ UNCHANGED <<keystore, file, registered, conn, tries, unlock, lockers, online, gen, draft>>

Erased ==
    /\ job.kind = "erase" /\ job.todo = << >>
    /\ job' = NoJob
    /\ UNCHANGED <<durable, conn, app, tries, unlock, lockers, online, gen, draft, past>>

\* A step of a deletion fails; its catch lets the rest go on.
StepFails ==
    /\ job.kind = "delete" /\ past.failures < MaxFailures
    /\ \/ \E s \in {"chat", "file", "lockout"} : Doing(s) /\ Next1(0) /\ UNCHANGED app
       \/ Doing("bio") /\ Next1(2) /\ UNCHANGED app
       \/ Doing("pin") /\ Next1(1) /\ UNCHANGED app
       \/ /\ Doing("prefs") /\ job' = NoJob
          /\ app' = [app EXCEPT !.onboarded = FALSE, !.account = FALSE]
    /\ past' = [past EXCEPT !.failures = @ + 1, !.gone = Doing("prefs"),
                            !.kept = @ \/ Doing("file") \/ Doing("prefs")]
    /\ UNCHANGED <<durable, conn, tries, unlock, lockers, online, gen, draft>>
-----------------------------------------------------------------------------
Next ==
    \/ Boot \/ Restart
    \/ SaveLockout \/ LockoutEnds
    \/ \E by \in {"bio", "pin"} : StartUnlock(by)
    \/ \E b \in BOOLEAN : KeyReleased(b) \/ Opened(b)
    \/ \E c \in {"auto", "user"} : Lock(c)
    \/ \E c \in {"auto", "user", "job"} : Locked(c)
    \/ Online \/ Register
    \/ \E g \in Generations :
          \/ StartGeneration(g) \/ DeleteOld(g) \/ Provision(g)
          \/ OpenNew(g) \/ MarkUnlocked(g) \/ InstallIdentity(g) \/ StoreAccount(g)
    \/ SetPin \/ Complete \/ SavePrefs
    \/ \E kind \in {"delete", "erase"} : StartWipe(kind)
    \/ Leave \/ JobLock \/ WipeSecret \/ WipeFile \/ WipePrefs \/ Erased \/ StepFails

Spec == Init /\ [][Next]_vars
-----------------------------------------------------------------------------
MaybeKey == Keys \cup {None}
Counters == [failed : 0..(MaxAttempts - 1), until : BOOLEAN]
Formats == {"none", "js", "native"}

\* The shape of the state.
TypeOK ==
    /\ keystore \in [bio : MaybeKey, pin : MaybeKey, lockout : Counters, chat : BOOLEAN]
    /\ prefs \in BOOLEAN /\ registered \in BOOLEAN /\ conn \in MaybeKey
    /\ file \in [key : MaybeKey, store : Formats, account : Formats, confirmed : Formats]
    /\ app \in [status : {"locked", "unlocking", "unlocked"}, key : MaybeKey,
                onboarded : BOOLEAN, account : BOOLEAN, relay : BOOLEAN, up : BOOLEAN]
    /\ tries.now \in Counters /\ tries.read \in BOOLEAN
    /\ tries.save = << >> \/ (Len(tries.save) = 1 /\ tries.save[1] \in Counters)
    /\ unlock \in [pc : {"idle", "key", "open"}, by : {"bio", "pin"}, key : MaybeKey]
    /\ lockers \subseteq {"auto", "user", "job"}
    /\ online \in {"idle", "look", "wipe", "install", "rewrite", "unverify", "account", "prefs"}
    /\ gen \in [Generations -> [pc : {"idle", "failed", "done"} \cup Working, key : MaybeKey]]
    /\ draft \in [key : MaybeKey, pin : BOOLEAN]
    /\ job.kind \in {"none", "guard", "delete", "erase"}

\* An installation that is past onboarding, that nobody erases, and whose last
\* deletion did not fail to remove the file or to write the preferences, has a
\* database, a PIN that opens it, and an account in it that loads or that the
\* next start still upgrades: whatever was interrupted, onboarding, a deletion
\* or the keystore outliving the app.
OnboardedOpens ==
    app.up /\ app.onboarded /\ job = NoJob /\ ~past.erased /\ ~past.kept =>
        /\ Exists /\ keystore.pin = file.key
        /\ file.account # "none"
        /\ file.account = "native" \/ file.store # "native" \/ Upgrading

AtRest == unlock = NoUnlock /\ \A g \in Generations : gen[g].pc \notin Working

\* With no unlock or key generation under way, a locked app has dropped its
\* key and closed the database, and an unlocked one past onboarding has it open
\* with its key (what a deletion failed to remove excepted, as above).
LockFollowsDatabase ==
    AtRest /\ ~past.kept =>
              /\ app.status = "locked" => conn = None /\ app.key = None
              /\ app.status = "unlocked" /\ app.onboarded => Readable /\ app.key = conn

\* Killing the app gives no fresh attempts: a restart costs at most the one
\* wrong PIN whose count was not saved yet.
AttemptsBounded == past.wrong <= MaxAttempts + past.restarts

\* The lock holds: what it shows is true of the database, and it counts its attempts.
LockHolds == LockFollowsDatabase /\ AttemptsBounded

\* After a deletion, whichever one step of it failed, nothing opens what is
\* left of the database and no client brings the record back at the relay.
GoneForGood ==
    past.gone => /\ ~app.relay /\ ~app.account
                 /\ Exists => file.key \notin {keystore.bio, keystore.pin}
                 /\ past.failures = 0 => ~registered /\ ~keystore.chat /\ ~prefs

\* What the comment in loadAccount takes for granted: bringOnline never finds
\* an account record from before the upgrade (account.ts:104-107).
MigratedBeforeLoad == online = "account" => file.account # "js"

\* The relay is wired only when every confirm left binds the identity in use.
TrustFollowsIdentity ==
    app.relay /\ Exists => file.confirmed \in {"none", file.account} /\ file.store = file.account
=============================================================================
