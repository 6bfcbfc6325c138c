---------------------------- MODULE DeployerProofs ----------------------------
(***************************************************************************)
(* Proofs about Deployer, for any commits, any contents of settings.env,   *)
(* any pattern of failures and any number of crashes.                      *)
(***************************************************************************)
EXTENDS Deployer, TLAPS

\* What runs, what was accepted and what is being deployed has passed CI.
CheckedInv ==
    /\ OnlyCheckedCommitsRun
    /\ current # NoCommit => current \in passed
    /\ pc \in Deploying => cand \in passed

\* Once the accepted release has been verified, the tick runs it or nothing.
RestInv ==
    pc \in {"settings", "applying", "fetch", "decide"} /\ current # NoCommit
    => running \in {current, NoCommit}

\* A cooling candidate that is not older than c is c itself, and it was either
\* accepted or is the failure on record.
Behind(c) ==
    \A d \in cooling : d < c \/ (d = c /\ (c = current \/ (c = failed /\ retry)))

\* The failure on record is the only one a tick could meet again: main only
\* moves on, and a tick's candidate is never younger than main.
CoolInv ==
    /\ Behind(head)
    /\ pc \in Deploying \cup {"decide"} => cand <= head /\ Behind(cand)
    /\ pc \in Deploying => cand \notin cooling

DeployInv == TypeOK /\ CheckedInv /\ RestInv /\ CoolInv

-----------------------------------------------------------------------------
(* The invariant *)

\* The invariant holds in the initial states.
LEMMA DeployInit == Init => DeployInv
<1>. SUFFICES ASSUME Init PROVE DeployInv
  OBVIOUS
<1>1. TypeOK
  BY DeployerAssumption DEF Init, TypeOK, PC, MaybeCommit, Deploying
<1>2. CheckedInv /\ RestInv
  BY DEF Init, CheckedInv, RestInv, OnlyCheckedCommitsRun, Deploying
<1>3. CoolInv
  BY DEF Init, CoolInv, Behind, Deploying
<1>. QED  BY <1>1, <1>2, <1>3 DEF DeployInv

\* Every step keeps the types.
LEMMA TypeStep ==
    ASSUME TypeOK, Next
    PROVE  TypeOK'
<1>. USE DeployerAssumption DEF TypeOK, PC, MaybeCommit, Deploying,
     outside, app, status, GoTo, Stop, Up, UpFails, Healthy
<1>1. CASE StartTick
  BY <1>1 DEF StartTick
<1>2. CASE CheckCurrent
  BY <1>2 DEF CheckCurrent
<1>3. CASE RestoreCurrent
  BY <1>3 DEF RestoreCurrent
<1>4. CASE ApplySettings
  BY <1>4 DEF ApplySettings
<1>5. CASE RecordSettings
  BY <1>5 DEF RecordSettings
<1>6. CASE SameSettings
  BY <1>6 DEF SameSettings
<1>7. CASE Fetch
  BY <1>7 DEF Fetch
<1>8. CASE NothingToDo
  BY <1>8 DEF NothingToDo
<1>9. CASE BeginDeploy
  BY <1>9 DEF BeginDeploy
<1>10. CASE Build
  BY <1>10 DEF Build
<1>11. CASE UpCandidate
  BY <1>11 DEF UpCandidate
<1>12. CASE Accept
  BY <1>12 DEF Accept
<1>13. CASE InstallUpdater
  BY <1>13 DEF InstallUpdater
<1>14. CASE TickFails
  BY <1>14 DEF TickFails
<1>15. CASE CandidateFails
  BY <1>15 DEF CandidateFails
<1>16. CASE RollBack
  BY <1>16 DEF RollBack
<1>17. CASE RecordFailure
  BY <1>17 DEF RecordFailure
<1>18. CASE Crash
  BY <1>18 DEF Crash
<1>19. CASE Push
  BY <1>19 DEF Push
<1>20. CASE CiSucceeds
  BY <1>20 DEF CiSucceeds
<1>21. CASE EditSettings
  BY <1>21 DEF EditSettings
<1>22. CASE ServicesDie
  BY <1>22 DEF ServicesDie
<1>23. ASSUME NEW c \in Commits, Cool(c) PROVE TypeOK'
  BY <1>23 DEF Cool
<1>. QED
  BY <1>1, <1>2, <1>3, <1>4, <1>5, <1>6, <1>7, <1>8, <1>9,
     <1>10, <1>11, <1>12, <1>13, <1>14, <1>15, <1>16,
     <1>17, <1>18, <1>19, <1>20, <1>21, <1>22, <1>23
     DEF Next, Tick, World

\* Every step keeps to commits that have passed CI.
LEMMA CheckedStep ==
    ASSUME TypeOK, CheckedInv, Next
    PROVE  CheckedInv'
<1>. USE DEF CheckedInv, OnlyCheckedCommitsRun, Deploying,
     outside, app, status, GoTo, Stop, Up, UpFails, Healthy
<1>1. CASE StartTick
  BY <1>1 DEF StartTick
<1>2. CASE CheckCurrent
  BY <1>2 DEF CheckCurrent
<1>3. CASE RestoreCurrent
  BY <1>3 DEF RestoreCurrent
<1>4. CASE ApplySettings
  BY <1>4 DEF ApplySettings
<1>5. CASE RecordSettings
  BY <1>5 DEF RecordSettings
<1>6. CASE SameSettings
  BY <1>6 DEF SameSettings
<1>7. CASE Fetch
  BY <1>7 DEF Fetch
<1>8. CASE NothingToDo
  BY <1>8 DEF NothingToDo
<1>9. CASE BeginDeploy
  BY <1>9 DEF BeginDeploy, CiPassed
<1>10. CASE Build
  BY <1>10 DEF Build
<1>11. CASE UpCandidate
  BY <1>11 DEF UpCandidate
<1>12. CASE Accept
  BY <1>12 DEF Accept
<1>13. CASE InstallUpdater
  BY <1>13 DEF InstallUpdater
<1>14. CASE TickFails
  BY <1>14 DEF TickFails
<1>15. CASE CandidateFails
  BY <1>15 DEF CandidateFails
<1>16. CASE RollBack
  BY <1>16 DEF RollBack
<1>17. CASE RecordFailure
  BY <1>17 DEF RecordFailure
<1>18. CASE Crash
  BY <1>18 DEF Crash
<1>19. CASE Push
  BY <1>19 DEF Push
<1>20. CASE CiSucceeds
  BY <1>20 DEF CiSucceeds
<1>21. CASE EditSettings
  BY <1>21 DEF EditSettings
<1>22. CASE ServicesDie
  BY <1>22 DEF ServicesDie
<1>23. ASSUME NEW c \in Commits, Cool(c) PROVE CheckedInv'
  BY <1>23 DEF Cool
<1>. QED
  BY <1>1, <1>2, <1>3, <1>4, <1>5, <1>6, <1>7, <1>8, <1>9,
     <1>10, <1>11, <1>12, <1>13, <1>14, <1>15, <1>16,
     <1>17, <1>18, <1>19, <1>20, <1>21, <1>22, <1>23
     DEF Next, Tick, World

\* Past its check a tick leaves nothing but the accepted release running.
LEMMA RestStep ==
    ASSUME TypeOK, RestInv, Next
    PROVE  RestInv'
<1>. USE DEF RestInv, outside, app, status, GoTo, Stop, Up, UpFails, Healthy
<1>1. CASE StartTick
  BY <1>1 DEF StartTick
<1>2. CASE CheckCurrent
  BY <1>2 DEF CheckCurrent
<1>3. CASE RestoreCurrent
  BY <1>3 DEF RestoreCurrent
<1>4. CASE ApplySettings
  BY <1>4 DEF ApplySettings
<1>5. CASE RecordSettings
  BY <1>5 DEF RecordSettings
<1>6. CASE SameSettings
  BY <1>6 DEF SameSettings
<1>7. CASE Fetch
  BY <1>7 DEF Fetch
<1>8. CASE NothingToDo
  BY <1>8 DEF NothingToDo
<1>9. CASE BeginDeploy
  BY <1>9 DEF BeginDeploy
<1>10. CASE Build
  BY <1>10 DEF Build
<1>11. CASE UpCandidate
  BY <1>11 DEF UpCandidate
<1>12. CASE Accept
  BY <1>12 DEF Accept
<1>13. CASE InstallUpdater
  BY <1>13 DEF InstallUpdater
<1>14. CASE TickFails
  BY <1>14 DEF TickFails
<1>15. CASE CandidateFails
  BY <1>15 DEF CandidateFails
<1>16. CASE RollBack
  BY <1>16 DEF RollBack
<1>17. CASE RecordFailure
  BY <1>17 DEF RecordFailure
<1>18. CASE Crash
  BY <1>18 DEF Crash
<1>19. CASE Push
  BY <1>19 DEF Push
<1>20. CASE CiSucceeds
  BY <1>20 DEF CiSucceeds
<1>21. CASE EditSettings
  BY <1>21 DEF EditSettings
<1>22. CASE ServicesDie
  BY <1>22 DEF ServicesDie
<1>23. ASSUME NEW c \in Commits, Cool(c) PROVE RestInv'
  BY <1>23 DEF Cool
<1>. QED
  BY <1>1, <1>2, <1>3, <1>4, <1>5, <1>6, <1>7, <1>8, <1>9,
     <1>10, <1>11, <1>12, <1>13, <1>14, <1>15, <1>16,
     <1>17, <1>18, <1>19, <1>20, <1>21, <1>22, <1>23
     DEF Next, Tick, World

\* Every step keeps the recorded failure ahead of the older ones.
LEMMA CoolStep ==
    ASSUME TypeOK, CoolInv, Next
    PROVE  CoolInv'
<1>. USE DeployerAssumption DEF TypeOK, CoolInv, Behind, Deploying,
     outside, app, status, GoTo, Stop, Up, UpFails, Healthy
<1>1. CASE StartTick
  BY <1>1 DEF StartTick
<1>2. CASE CheckCurrent
  BY <1>2 DEF CheckCurrent
<1>3. CASE RestoreCurrent
  BY <1>3 DEF RestoreCurrent
<1>4. CASE ApplySettings
  BY <1>4 DEF ApplySettings
<1>5. CASE RecordSettings
  BY <1>5 DEF RecordSettings
<1>6. CASE SameSettings
  BY <1>6 DEF SameSettings
<1>7. CASE Fetch
  BY <1>7 DEF Fetch
<1>8. CASE NothingToDo
  BY <1>8 DEF NothingToDo
<1>9. CASE BeginDeploy
  <2>1. cand <= head /\ Behind(cand) /\ cand \in Commits
    BY <1>9 DEF BeginDeploy
  <2>2. cand \notin cooling
    <3>1. ASSUME cand \in cooling PROVE FALSE
      <4>1. cand < cand \/ cand = current \/ (cand = failed /\ retry)
        BY <2>1, <3>1
      <4>. QED  BY <4>1, <1>9, <2>1 DEF BeginDeploy, BacksOff
    <3>. QED  BY <3>1
  <2>3. UNCHANGED <<head, current, failed, retry, cand, cooling>>
    BY <1>9 DEF BeginDeploy
  <2>. QED  BY <2>1, <2>2, <2>3
<1>10. CASE Build
  BY <1>10 DEF Build
<1>11. CASE UpCandidate
  BY <1>11 DEF UpCandidate
<1>12. CASE Accept
  <2>1. /\ cand <= head /\ Behind(cand) /\ cand \notin cooling
        /\ cand \in Commits /\ head \in Commits
    BY <1>12 DEF Accept
  <2>2. UNCHANGED <<head, cand, cooling>>
    BY <1>12 DEF Accept
  <2>3. \A d \in cooling : d < cand /\ d < head
    <3>. TAKE d \in cooling
    <3>1. d \in Nat /\ cand \in Nat /\ head \in Nat /\ d # cand
      BY <2>1
    <3>2. d < cand \/ d = cand
      BY <2>1
    <3>. QED  BY <2>1, <3>1, <3>2
  <2>. QED  BY <2>1, <2>2, <2>3
<1>13. CASE InstallUpdater
  BY <1>13 DEF InstallUpdater
<1>14. CASE TickFails
  BY <1>14 DEF TickFails
<1>15. CASE CandidateFails
  BY <1>15 DEF CandidateFails
<1>16. CASE RollBack
  BY <1>16 DEF RollBack
<1>17. CASE RecordFailure
  <2>1. pc \in Deploying
    BY <1>17 DEF RecordFailure
  <2>2. /\ cand <= head /\ Behind(cand)
        /\ cand \in Commits /\ head \in Commits
    BY <2>1
  <2>3. /\ failed' = cand /\ retry' = TRUE /\ cooling' = cooling \cup {cand}
        /\ pc' = "idle" /\ head' = head
    BY <1>17 DEF RecordFailure
  <2>4. Behind(head)'
    <3>. SUFFICES ASSUME NEW d \in cooling \cup {cand}
                  PROVE  d < head \/ (d = head /\ d = cand)
      BY <2>3
    <3>1. d \in Nat /\ cand \in Nat /\ head \in Nat
      BY <2>2
    <3>2. d < cand \/ d = cand
      BY <2>2
    <3>. QED  BY <2>2, <3>1, <3>2
  <2>. QED  BY <2>3, <2>4
<1>18. CASE Crash
  BY <1>18 DEF Crash
<1>19. CASE Push
  <2>1. PICK c \in Commits : c > head /\ head' = c
    BY <1>19 DEF Push
  <2>2. UNCHANGED <<current, failed, retry, pc, cand, cooling>>
    BY <1>19 DEF Push
  <2>3. \A d \in cooling : d < head'
    <3>. TAKE d \in cooling
    <3>1. d \in Nat /\ c \in Nat /\ head \in Nat
      BY <2>1
    <3>2. d < head \/ d = head
      OBVIOUS
    <3>. QED  BY <2>1, <3>1, <3>2
  <2>4. pc \in Deploying \cup {"decide"} => cand <= head'
    <3>. SUFFICES ASSUME pc \in Deploying \cup {"decide"} PROVE cand <= head'
      OBVIOUS
    <3>1. cand \in Nat /\ c \in Nat /\ head \in Nat /\ cand <= head
      BY <2>1
    <3>. QED  BY <2>1, <3>1
  <2>. QED  BY <2>2, <2>3, <2>4
<1>20. CASE CiSucceeds
  BY <1>20 DEF CiSucceeds
<1>21. CASE EditSettings
  BY <1>21 DEF EditSettings
<1>22. CASE ServicesDie
  BY <1>22 DEF ServicesDie
<1>23. ASSUME NEW c \in Commits, Cool(c) PROVE CoolInv'
  BY <1>23 DEF Cool
<1>. QED
  BY <1>1, <1>2, <1>3, <1>4, <1>5, <1>6, <1>7, <1>8, <1>9,
     <1>10, <1>11, <1>12, <1>13, <1>14, <1>15, <1>16,
     <1>17, <1>18, <1>19, <1>20, <1>21, <1>22, <1>23
     DEF Next, Tick, World

\* The invariant is inductive.
LEMMA DeployStep == DeployInv /\ [Next]_vars => DeployInv'
<1>1. CASE UNCHANGED vars
  BY <1>1 DEF vars, outside, app, status, DeployInv, TypeOK, CheckedInv, RestInv,
     CoolInv, Behind, OnlyCheckedCommitsRun
<1>2. CASE Next
  BY <1>2, TypeStep, CheckedStep, RestStep, CoolStep DEF DeployInv
<1>. QED  BY <1>1, <1>2

\* The inductive invariant of the updater holds in every reachable state.
THEOREM DeployInvariant == Spec => []DeployInv
BY DeployInit, DeployStep, PTL DEF Spec

-----------------------------------------------------------------------------
(* What follows *)

\* Every variable keeps its type.
THEOREM DeployerTypeCorrect == Spec => []TypeOK
<1>1. DeployInv => TypeOK
  BY DEF DeployInv
<1>. QED  BY <1>1, DeployInvariant, PTL

\* No commit ever serves unless its own CI has passed.
THEOREM OnlyCheckedRun == Spec => []OnlyCheckedCommitsRun
<1>1. DeployInv => OnlyCheckedCommitsRun
  BY DEF DeployInv, CheckedInv
<1>. QED  BY <1>1, DeployInvariant, PTL

\* A tick that deploys nothing leaves the accepted release or nothing running.
THEOREM RestsOnAccepted == Spec => AcceptedReleaseRests
<1>1. DeployInv => (Rests /\ current # NoCommit => running \in {current, NoCommit})
  BY DEF DeployInv, RestInv, Rests
<1>. QED  BY <1>1, DeployInvariant, PTL DEF AcceptedReleaseRests

\* Only the decision to deploy leads to a build, and it looks at the failure.
LEMMA BuildIsDecided ==
    ASSUME DeployInv, [Next]_vars, pc # "build", pc' = "build"
    PROVE  cand \notin cooling
<1>1. BeginDeploy
  BY DEF Next, Tick, World, vars, GoTo, Stop, StartTick, CheckCurrent,
     RestoreCurrent, ApplySettings, RecordSettings, SameSettings, Fetch,
     NothingToDo, Build, UpCandidate, Accept, InstallUpdater, TickFails,
     CandidateFails, RollBack, RecordFailure, Crash, Push, CiSucceeds,
     EditSettings, ServicesDie, Cool
<1>2. Behind(cand) /\ cand \in Commits
  BY <1>1 DEF BeginDeploy, DeployInv, CoolInv, TypeOK, Deploying
<1>. QED
  BY <1>1, <1>2, DeployerAssumption DEF BeginDeploy, BacksOff, Behind

\* A candidate whose failure was recorded is left alone for ten minutes.
THEOREM FailuresCool == Spec => FailureCoolsDown
<1>1. DeployInv /\ [Next]_vars
      => [pc # "build" /\ pc' = "build" => cand \notin cooling]_vars
  BY BuildIsDecided
<1>. QED  BY <1>1, DeployInvariant, PTL DEF Spec, FailureCoolsDown

-----------------------------------------------------------------------------
(* Deployer implements ReleasePromise *)

\* A tick's candidate is not older than the accepted release, and younger once its
\* deployment has begun; what installs itself is the release just accepted, and what
\* is repaired or rolled back to is one.
ForwardInv ==
    /\ pc \in {"check", "restored", "settings", "applying", "rollback", "restoring"}
       => current # NoCommit
    /\ current # NoCommit => current <= head
    /\ pc = "decide" /\ current # NoCommit => current <= cand
    /\ pc \in Deploying \ {"install"} /\ current # NoCommit => current < cand
    /\ pc = "install" => cand = current

\* Only Push, Fetch, BeginDeploy, the steps of deploy and Accept have a say in it.
LEMMA ForwardStep ==
    ASSUME DeployInv, ForwardInv, [Next]_vars
    PROVE  ForwardInv'
<1>. USE DeployerAssumption DEF ForwardInv, Deploying, outside, app, status, GoTo, Stop
<1>0. /\ head \in Nat
      /\ current # NoCommit => current \in Nat
      /\ pc \in Deploying \cup {"decide"} => cand \in Nat /\ cand \in Commits /\ cand <= head
  BY DEF DeployInv, TypeOK, CoolInv, MaybeCommit
<1>1. CASE pc' = "idle" /\ UNCHANGED <<head, current>>
  BY <1>1
<1>2. CASE UNCHANGED <<head, current, pc, cand>>
  BY <1>2
<1>3. CASE Push
  <2>1. PICK c \in Commits : c > head /\ head' = c
    BY <1>3 DEF Push
  <2>2. UNCHANGED <<current, pc, cand>> /\ c \in Nat
    BY <1>3, <2>1 DEF Push
  <2>. QED
    BY <1>0, <2>1, <2>2
<1>4. CASE Fetch
  BY <1>0, <1>4 DEF Fetch
<1>5. CASE BeginDeploy
  BY <1>0, <1>5 DEF BeginDeploy
<1>6. CASE Build \/ UpCandidate \/ CandidateFails \/ RollBack
  BY <1>0, <1>6 DEF Build, UpCandidate, CandidateFails, RollBack
<1>7. CASE Accept
  BY <1>0, <1>7 DEF Accept
<1>8. CASE StartTick \/ CheckCurrent \/ RestoreCurrent \/ ApplySettings
           \/ RecordSettings \/ SameSettings
  BY <1>0, <1>8 DEF StartTick, CheckCurrent, RestoreCurrent, ApplySettings,
                    RecordSettings, SameSettings
<1>9. CASE NothingToDo \/ InstallUpdater \/ TickFails \/ RecordFailure \/ Crash
  BY <1>1, <1>9 DEF NothingToDo, InstallUpdater, TickFails, RecordFailure, Crash
<1>10. CASE \/ CiSucceeds \/ EditSettings \/ ServicesDie \/ UNCHANGED vars
            \/ \E c \in Commits : Cool(c)
  BY <1>2, <1>10 DEF CiSucceeds, EditSettings, ServicesDie, Cool, vars
<1>. QED
  BY <1>3, <1>4, <1>5, <1>6, <1>7, <1>8, <1>9, <1>10 DEF Next, Tick, World

LEMMA ForwardInvariant == Spec => []ForwardInv
<1>1. Init => ForwardInv
  BY DEF Init, ForwardInv, Deploying
<1>. QED
  BY <1>1, ForwardStep, DeployInvariant, PTL DEF Spec

promised == <<passed, running, current, updater, cooling>>

\* While it is being deployed, a commit is a candidate.
LEMMA DeployedIsCandidate ==
    ASSUME DeployInv, ForwardInv, pc \in Deploying \ {"install"}
    PROVE  Promise!Candidate(cand) /\ cand \in Commits
BY DEF DeployInv, CheckedInv, CoolInv, ForwardInv, Promise!Candidate, TypeOK, Deploying

\* Starting the accepted release, or trying to.
LEMMA CurrentStarts ==
    ASSUME DeployInv, current \in Commits, Up(current) \/ UpFails(current),
           UNCHANGED <<passed, status, updater, cooling>>
    PROVE  Promise!Next \/ UNCHANGED promised
<1>1. UNCHANGED <<passed, current, updater, cooling>>
  BY DEF status
<1>2. CASE UNCHANGED app
  BY <1>1, <1>2 DEF app, promised
<1>3. CASE ~UNCHANGED app
  <2>1. Promise!Start(current)
    BY <1>1, <1>3 DEF Up, UpFails, Promise!Start
  <2>. QED
    BY <2>1 DEF Promise!Next
<1>. QED
  BY <1>2, <1>3

\* Every step of the updater and of the world is a step of the promise or invisible.
LEMMA ReleaseStepRefines ==
    ASSUME DeployInv, ForwardInv, [Next]_vars
    PROVE  Promise!Next \/ UNCHANGED promised
<1>0. /\ current \in Commits \cup {NoCommit}
      /\ pc \in {"check", "restored", "settings", "applying", "rollback", "restoring"}
         => current \in Commits
  BY DEF DeployInv, TypeOK, MaybeCommit, ForwardInv
<1>1. CASE RestoreCurrent \/ ApplySettings \/ RollBack
  <2>1. current \in Commits /\ Up(current) /\ UNCHANGED <<passed, status, updater, cooling>>
    BY <1>0, <1>1 DEF RestoreCurrent, ApplySettings, RollBack, outside
  <2>. QED
    BY <2>1, CurrentStarts
<1>2. CASE TickFails
  <2>1. UNCHANGED <<passed, status, updater, cooling>>
    BY <1>2 DEF TickFails, outside
  <2>2. UNCHANGED app \/ (current \in Commits /\ UpFails(current))
    BY <1>0, <1>2 DEF TickFails
  <2>3. CASE UNCHANGED app
    BY <2>1, <2>3 DEF app, status, promised
  <2>. QED
    BY <2>1, <2>2, <2>3, CurrentStarts
<1>3. CASE UpCandidate \/ (CandidateFails /\ pc = "up")
  <2>1. /\ pc = "up" /\ UNCHANGED <<passed, current, updater, cooling>>
        /\ Up(cand) \/ UpFails(cand)
    BY <1>3 DEF UpCandidate, CandidateFails, outside, status
  <2>2. Promise!Candidate(cand) /\ cand \in Commits
    BY <2>1, DeployedIsCandidate DEF Deploying
  <2>3. Promise!Start(cand) \/ UNCHANGED promised
    BY <2>1, <2>2 DEF Up, UpFails, app, promised, Promise!Start
  <2>. QED
    BY <2>2, <2>3 DEF Promise!Next
<1>4. CASE CandidateFails /\ pc # "up"
  BY <1>4 DEF CandidateFails, outside, app, status, promised
<1>5. CASE Accept
  <2>1. /\ pc = "wait" /\ running = cand /\ current' = cand
        /\ UNCHANGED <<passed, running, updater, cooling>>
    BY <1>5 DEF Accept, Healthy, outside, app
  <2>2. Promise!Candidate(cand)
    BY <2>1, DeployedIsCandidate DEF Deploying
  <2>3. Promise!Accept
    BY <2>1, <2>2 DEF Promise!Accept
  <2>. QED
    BY <2>3 DEF Promise!Next
<1>6. CASE InstallUpdater
  <2>1. /\ cand = current /\ cand \in Commits /\ updater' = cand
        /\ UNCHANGED <<passed, running, current, cooling>>
    BY <1>6 DEF InstallUpdater, ForwardInv, DeployInv, TypeOK, Deploying, outside,
                app, status
  <2>2. Promise!Install
    BY <2>1, DeployerAssumption DEF Promise!Install, DeployerAssumption
  <2>. QED
    BY <2>2 DEF Promise!Next
<1>7. CASE RecordFailure
  <2>1. /\ pc \in Deploying
        /\ cooling' = cooling \cup {cand}
        /\ UNCHANGED <<passed, current, updater>>
        /\ running' \in {running, cand, current, NoCommit}
    BY <1>7 DEF RecordFailure, Deploying, outside, app, UpFails, Up
  <2>2. cand \in Commits /\ (cand = current \/ Promise!Candidate(cand))
    BY <2>1, DeployedIsCandidate DEF ForwardInv, DeployInv, TypeOK, Deploying
  <2>3. Promise!GiveUp(cand)
    BY <2>1, <2>2 DEF Promise!GiveUp
  <2>. QED
    BY <2>2, <2>3 DEF Promise!Next
<1>8. CASE CiSucceeds
  <2>1. Promise!Pass(head) /\ head \in Commits
    BY <1>8 DEF CiSucceeds, Promise!Pass, DeployInv, TypeOK, app, status
  <2>. QED
    BY <2>1 DEF Promise!Next
<1>9. CASE ServicesDie
  <2>1. Promise!Stop
    BY <1>9 DEF ServicesDie, Promise!Stop, outside, status
  <2>. QED
    BY <2>1 DEF Promise!Next
<1>10. ASSUME NEW c \in Commits, Cool(c) PROVE Promise!Next
  <2>1. Promise!Retry(c)
    BY <1>10 DEF Cool, Promise!Retry, outside, app
  <2>. QED
    BY <2>1 DEF Promise!Next
<1>11. CASE \/ StartTick \/ CheckCurrent \/ RecordSettings \/ SameSettings \/ Fetch
            \/ NothingToDo \/ BeginDeploy \/ Build
  BY <1>11 DEF StartTick, CheckCurrent, RecordSettings, SameSettings, Fetch,
               NothingToDo, BeginDeploy, Build, outside, app, status, promised
<1>12. CASE Crash \/ Push \/ EditSettings \/ UNCHANGED vars
  BY <1>12 DEF Crash, Push, EditSettings, vars, outside, app, status, promised
<1>. QED
  BY <1>1, <1>2, <1>3, <1>4, <1>5, <1>6, <1>7, <1>8, <1>9, <1>10, <1>11, <1>12
     DEF Next, Tick, World

\* Through failing commands, crashes and moving branches the updater keeps the
\* promise of ReleasePromise.
THEOREM UpdaterKeepsReleasePromise == Spec => KeepsReleasePromise
<1>1. Init => Promise!Init
  BY DEF Init, Promise!Init
<1>2. DeployInv /\ ForwardInv /\ [Next]_vars => [Promise!Next]_promised
  BY ReleaseStepRefines
<1>. QED
  BY <1>1, <1>2, DeployInvariant, ForwardInvariant, PTL
     DEF Spec, KeepsReleasePromise, Promise!Spec, promised
=============================================================================
