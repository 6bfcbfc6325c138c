------------------------------ MODULE Deployer ------------------------------
(***************************************************************************)
(* The scheduled updater (scripts/deploy.py): every minute one tick, under *)
(* a file lock, repairs the running release, applies changed private       *)
(* settings, and deploys the tip of main once its CI has passed, rolling   *)
(* back to the accepted release when the candidate does not become         *)
(* healthy.                                                                *)
(*                                                                         *)
(* What survives a tick is status.json, written atomically, the installed  *)
(* copy of deploy.py and the containers.  Every command may fail, every    *)
(* health check may fail though the release is healthy, and the updater or *)
(* the services may die at any time.                                       *)
(***************************************************************************)
EXTENDS Naturals

CONSTANTS
    Commits,    \* commits of main, numbered in the order they are pushed
    NoCommit,
    Settings,   \* contents of settings.env
    NoSettings,
    MaxEdits,   \* bound on changes of settings.env
    MaxCrashes  \* bound on deaths of the updater

ASSUME DeployerAssumption ==
    /\ Commits \subseteq Nat
    /\ NoCommit \notin Commits
    /\ NoSettings \notin Settings
    /\ MaxEdits \in Nat
    /\ MaxCrashes \in Nat

MaybeCommit == Commits \cup {NoCommit}

\* Where a tick is: before which command.
PC == {"idle", "check", "restored", "settings", "applying", "fetch", "decide",
       "build", "up", "wait", "install", "rollback", "restoring"}

\* The steps of deploy.
Deploying == {"build", "up", "wait", "install", "rollback", "restoring"}

VARIABLES
    head,     \* the tip of main
    passed,   \* commits whose latest push run of CI succeeded
    settings, \* settings.env
    works,    \* which commits become healthy with which settings
    edits,    \* history: changes of settings.env so far
    running,  \* the revision the app's container was created from
    env,      \* the settings it was created with
    current,  \* status.json: current_sha
    applied,  \* status.json: settings_sha256
    failed,   \* status.json: failed_sha
    retry,    \* status.json: is retry_after in the future?
    updater,  \* the commit the installed deploy.py comes from
    pc,       \* the tick that holds the lock
    cand,     \* the tick's candidate
    mine,     \* the settings the tick read when it began
    cooling,  \* history: candidates that failed less than ten minutes ago
    crashes   \* history: deaths of the updater

outside == <<head, passed, settings, works, edits>>
app     == <<running, env>>
status  == <<current, applied, failed, retry>>
vars    == <<outside, app, status, updater, pc, cand, mine, cooling, crashes>>

TypeOK ==
    /\ head \in Commits
    /\ passed \subseteq Commits
    /\ settings \in Settings
    /\ works \subseteq Commits \X Settings
    /\ edits \in Nat
    /\ running \in MaybeCommit
    /\ env \in Settings \cup {NoSettings}
    /\ current \in MaybeCommit
    /\ applied \in Settings \cup {NoSettings}
    /\ failed \in MaybeCommit
    /\ retry \in BOOLEAN
    /\ updater \in MaybeCommit
    /\ pc \in PC
    /\ cand \in MaybeCommit
    /\ mine \in Settings \cup {NoSettings}
    /\ cooling \subseteq Commits
    /\ crashes \in Nat
    /\ pc # "idle" => mine \in Settings
    /\ pc \in Deploying \cup {"decide"} => cand \in Commits

Init ==
    /\ head \in Commits
    /\ passed = {}
    /\ settings \in Settings
    /\ works \in SUBSET (Commits \X Settings)
    /\ edits = 0
    /\ running = NoCommit
    /\ env = NoSettings
    /\ current = NoCommit
    /\ applied = NoSettings
    /\ failed = NoCommit
    /\ retry = FALSE
    /\ updater = NoCommit
    /\ pc = "idle"
    /\ cand = NoCommit
    /\ mine = NoSettings
    /\ cooling = {}
    /\ crashes = 0

-----------------------------------------------------------------------------
(* Commands *)

\* docker compose up: the app's container is created anew if its image or its
\* environment changed.
Up(c) == running' = c /\ env' = mine

\* The command fails: before, while or after the container is replaced.
UpFails(c) ==
    \/ UNCHANGED app
    \/ Up(c)
    \/ running' = NoCommit /\ env' = NoSettings

\* Not the code: any release that answers is accepted.
AnyRevision(c) == running # NoCommit /\ <<running, env>> \in works

\* What verify asks of /healthz and /readyz.
Healthy(c) == running = c /\ <<c, env>> \in works

GoTo(label) == pc' = label /\ UNCHANGED <<cand, mine>>

Stop == pc' = "idle" /\ cand' = NoCommit /\ mine' = NoSettings

-----------------------------------------------------------------------------
(* tick: repair and settings *)

\* cron, every minute; with the lock taken by a running tick nothing happens.
StartTick ==
    /\ pc = "idle"
    /\ mine' = settings
    /\ pc' = IF current = NoCommit THEN "fetch" ELSE "check"
    /\ UNCHANGED <<outside, app, status, updater, cand, cooling, crashes>>

\* The accepted release answers.
CheckCurrent ==
    /\ pc \in {"check", "restored"}
    /\ Healthy(current)
    /\ GoTo("settings")
    /\ UNCHANGED <<outside, app, status, updater, cooling, crashes>>

\* Not the code: only containers that exist are restarted.
RestartCurrent ==
    /\ pc = "check"
    /\ running # NoCommit
    /\ Up(current)
    /\ GoTo("restored")
    /\ UNCHANGED <<outside, status, updater, cooling, crashes>>

\* It does not answer: its containers are started again.
RestoreCurrent ==
    /\ pc = "check"
    /\ Up(current)
    /\ GoTo("restored")
    /\ UNCHANGED <<outside, status, updater, cooling, crashes>>

\* The settings differ from the ones last recorded.
ApplySettings ==
    /\ pc = "settings"
    /\ applied # mine
    /\ Up(current)
    /\ GoTo("applying")
    /\ UNCHANGED <<outside, status, updater, cooling, crashes>>

RecordSettings ==
    /\ pc = "applying"
    /\ Healthy(current)
    /\ applied' = mine
    /\ GoTo("fetch")
    /\ UNCHANGED <<outside, app, current, failed, retry, updater, cooling, crashes>>

SameSettings ==
    /\ pc = "settings"
    /\ applied = mine
    /\ GoTo("fetch")
    /\ UNCHANGED <<outside, app, status, updater, cooling, crashes>>

-----------------------------------------------------------------------------
(* tick: the candidate *)

\* Not the code: what rev-parse answers is taken for a commit.
FetchUnchecked ==
    /\ pc = "fetch"
    /\ cand' \in {head, NoCommit}
    /\ pc' = "decide"
    /\ UNCHANGED <<outside, app, status, updater, mine, cooling, crashes>>

Fetch ==
    /\ pc = "fetch"
    /\ cand' = head
    /\ pc' = "decide"
    /\ UNCHANGED <<outside, app, status, updater, mine, cooling, crashes>>

\* Not the code: whatever is on main is deployed.
TrustsMain(c) == TRUE

\* Not the code: a candidate that failed once is never tried again.
FailedOnce(c) == failed = c

\* Not the code: the recorded failure is not looked at.
NeverBacksOff(c) == FALSE

\* successful_ci, for this very commit.
CiPassed(c) == c \in passed

BacksOff(c) == failed = c /\ retry

\* Nothing to do: main is deployed, its CI has not passed, or it failed lately.
NothingToDo ==
    /\ pc = "decide"
    /\ cand = current \/ ~CiPassed(cand) \/ BacksOff(cand)
    /\ Stop
    /\ UNCHANGED <<outside, app, status, updater, cooling, crashes>>

BeginDeploy ==
    /\ pc = "decide"
    /\ cand # current
    /\ CiPassed(cand)
    /\ ~BacksOff(cand)
    /\ GoTo("build")
    /\ UNCHANGED <<outside, app, status, updater, cooling, crashes>>

\* The checkout, the image and, if there is a database, its backup.
Build ==
    /\ pc = "build"
    /\ GoTo("up")
    /\ UNCHANGED <<outside, app, status, updater, cooling, crashes>>

UpCandidate ==
    /\ pc = "up"
    /\ Up(cand)
    /\ GoTo("wait")
    /\ UNCHANGED <<outside, status, updater, cooling, crashes>>

\* The candidate is verified and recorded.
Accept ==
    /\ pc = "wait"
    /\ Healthy(cand)
    /\ current' = cand
    /\ applied' = mine
    /\ failed' = NoCommit
    /\ retry' = FALSE
    /\ GoTo("install")
    /\ UNCHANGED <<outside, app, updater, cooling, crashes>>

InstallUpdater ==
    /\ pc = "install"
    /\ updater' = cand
    /\ Stop
    /\ UNCHANGED <<outside, app, status, cooling, crashes>>

-----------------------------------------------------------------------------
(* Failures *)

\* An exception outside of deploy.
TickFails ==
    /\ \/ pc = "check" /\ UpFails(current)
       \/ pc = "settings" /\ applied # mine /\ UpFails(current)
       \/ pc \in {"restored", "applying", "fetch", "decide"} /\ UNCHANGED app
    /\ Stop
    /\ UNCHANGED <<outside, status, updater, cooling, crashes>>

\* The candidate does not come up healthy; there is a release to go back to.
CandidateFails ==
    /\ current # NoCommit
    /\ \/ pc = "up" /\ UpFails(cand)
       \/ pc = "wait" /\ UNCHANGED app
    /\ GoTo("rollback")
    /\ UNCHANGED <<outside, status, updater, cooling, crashes>>

RollBack ==
    /\ pc = "rollback"
    /\ Up(current)
    /\ GoTo("restoring")
    /\ UNCHANGED <<outside, status, updater, cooling, crashes>>

\* An exception in deploy: whether the rollback worked, failed or did not apply,
\* and also when only the new updater could not be installed.
RecordFailure ==
    /\ \/ pc \in {"build", "install", "restoring"} /\ UNCHANGED app
       \/ pc = "up" /\ current = NoCommit /\ UpFails(cand)
       \/ pc = "wait" /\ current = NoCommit /\ UNCHANGED app
       \/ pc = "rollback" /\ UpFails(current)
    /\ failed' = cand
    /\ retry' = TRUE
    /\ cooling' = cooling \cup {cand}
    /\ Stop
    /\ UNCHANGED <<outside, current, applied, updater, crashes>>

\* The updater is killed or the machine loses power.
Crash ==
    /\ pc # "idle"
    /\ crashes < MaxCrashes
    /\ crashes' = crashes + 1
    /\ Stop
    /\ UNCHANGED <<outside, app, status, updater, cooling>>

-----------------------------------------------------------------------------
(* The world *)

Push ==
    /\ \E c \in Commits : c > head /\ head' = c
    /\ UNCHANGED <<passed, settings, works, edits, app, status, updater, pc,
                   cand, mine, cooling, crashes>>

\* A push run of CI succeeds.
CiSucceeds ==
    /\ head \notin passed
    /\ passed' = passed \cup {head}
    /\ UNCHANGED <<head, settings, works, edits, app, status, updater, pc, cand,
                   mine, cooling, crashes>>

EditSettings ==
    /\ edits < MaxEdits
    /\ edits' = edits + 1
    /\ \E s \in Settings \ {settings} : settings' = s
    /\ UNCHANGED <<head, passed, works, app, status, updater, pc, cand, mine,
                   cooling, crashes>>

ServicesDie ==
    /\ running # NoCommit
    /\ running' = NoCommit
    /\ env' = NoSettings
    /\ UNCHANGED <<outside, status, updater, pc, cand, mine, cooling, crashes>>

\* Ten minutes have passed since c failed.
Cool(c) ==
    /\ c \in cooling
    /\ cooling' = cooling \ {c}
    /\ retry' = IF failed = c THEN FALSE ELSE retry
    /\ UNCHANGED <<outside, app, current, applied, failed, updater, pc, cand,
                   mine, crashes>>

-----------------------------------------------------------------------------
Tick ==
    \/ StartTick \/ CheckCurrent \/ RestoreCurrent
    \/ ApplySettings \/ RecordSettings \/ SameSettings
    \/ Fetch \/ NothingToDo \/ BeginDeploy \/ Build \/ UpCandidate \/ Accept
    \/ InstallUpdater
    \/ TickFails \/ CandidateFails \/ RollBack \/ RecordFailure

World ==
    \/ Crash \/ Push \/ CiSucceeds \/ EditSettings \/ ServicesDie
    \/ \E c \in Commits : Cool(c)

Next == Tick \/ World

Spec == Init /\ [][Next]_vars

\* cron never stops, every command ends, and none of them fails for ever: the
\* commands have timeouts, and a tick begins anew every minute.
Fairness ==
    /\ WF_vars(Tick)
    /\ \A c \in Commits : WF_vars(Cool(c))
    /\ SF_vars(CheckCurrent) /\ SF_vars(RestoreCurrent)
    /\ SF_vars(ApplySettings) /\ SF_vars(RecordSettings)
    /\ SF_vars(Fetch) /\ SF_vars(NothingToDo \/ BeginDeploy)
    /\ SF_vars(Build) /\ SF_vars(UpCandidate) /\ SF_vars(Accept)

FairSpec == Spec /\ Fairness

-----------------------------------------------------------------------------
(* What must hold *)

\* No commit ever serves, not even as a candidate that fails and is rolled back
\* or is left behind by a crash, unless its own CI has passed.
OnlyCheckedCommitsRun == running # NoCommit => running \in passed

\* A tick that finds nothing to deploy leaves the accepted release or nothing
\* running: a candidate that a crash or a failed rollback left behind is found
\* out before, also when it answers its health checks.
Rests == pc = "decide" /\ pc' = "idle"

AcceptedReleaseRests ==
    [][Rests /\ current # NoCommit => running \in {current, NoCommit}]_vars

\* A candidate whose failure was recorded is not tried again for ten minutes,
\* whatever failed or was deployed in between.
FailureCoolsDown == [][pc # "build" /\ pc' = "build" => cand \notin cooling]_vars

\* The tip of main is deployed at last if its CI has passed and it becomes
\* healthy, unless main moves on, the settings change or the accepted release
\* itself does not become healthy (a tick repairs that release first).
Deployable ==
    /\ head \in passed
    /\ <<head, settings>> \in works
    /\ current # NoCommit => <<current, settings>> \in works

HeadIsDeployed == Deployable ~> (current = head \/ ~Deployable)

\* An accepted release that died is running again at last, unless it does not
\* become healthy with the settings of the day.
ServicesComeBack ==
    current # NoCommit
    ~> (running = current \/ <<current, settings>> \notin works)

\* Tick by tick, crash by crash, the updater keeps the promise of ReleasePromise:
\* what is started is accepted or a newer commit with passed CI that has not just
\* failed, and acceptance and the updater's own copy only follow that order.
Promise == INSTANCE ReleasePromise WITH serving <- running, accepted <- current

KeepsReleasePromise == Promise!Spec

-----------------------------------------------------------------------------
(* What the repository says and the code does not do *)

\* docs/deployment.md:46: "Changing this file makes the scheduled updater
\* recreate and verify the current app release on its next check."  A tick that
\* finds nothing else to do leaves the release with the settings it has read.
SettingsTakeEffect ==
    [][Rests /\ running # NoCommit /\ running = current => env = mine]_vars
=============================================================================
