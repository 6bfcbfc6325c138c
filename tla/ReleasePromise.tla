---------------------------- MODULE ReleasePromise ----------------------------
(***************************************************************************)
(* What a team that pushes to main may rely on (docs/deployment.md): only  *)
(* commits with passed CI are started, a candidate that failed is left     *)
(* alone for ten minutes, the accepted release only moves forward, nothing *)
(* older than it is started, and the updater replaces itself only by the   *)
(* copy in the accepted release.                                           *)
(***************************************************************************)
EXTENDS Naturals

CONSTANTS Commits, \* numbered in the order they are pushed
          NoCommit

VARIABLES passed,   \* commits whose CI succeeded
          serving,  \* the release whose container exists
          accepted, \* the release that was verified last
          updater,  \* the release the updater's own copy comes from
          cooling   \* candidates that failed less than ten minutes ago

Init ==
    /\ passed = {}
    /\ serving = NoCommit /\ accepted = NoCommit /\ updater = NoCommit
    /\ cooling = {}

\* A candidate: not older than what is accepted, and not one that just failed.
Candidate(c) ==
    /\ c \in passed \ cooling
    /\ accepted = NoCommit \/ accepted < c

Pass(c) == passed' = passed \cup {c} /\ UNCHANGED <<serving, accepted, updater, cooling>>

\* The accepted release or a candidate is started; a command that fails may have
\* done so, may have taken the services away, or may have done nothing.
Start(c) ==
    /\ c = accepted \/ Candidate(c)
    /\ serving' \in {c, NoCommit}
    /\ UNCHANGED <<passed, accepted, updater, cooling>>

Stop == serving' = NoCommit /\ UNCHANGED <<passed, accepted, updater, cooling>>

Accept ==
    /\ Candidate(serving)
    /\ accepted' = serving
    /\ UNCHANGED <<passed, serving, updater, cooling>>

Install ==
    /\ accepted # NoCommit
    /\ updater' = accepted
    /\ UNCHANGED <<passed, serving, accepted, cooling>>

\* A candidate is given up, or the accepted release that could not be installed as
\* the updater; a command that failed may have changed what serves.
GiveUp(c) ==
    /\ c = accepted \/ Candidate(c)
    /\ cooling' = cooling \cup {c}
    /\ serving' \in {serving, c, accepted, NoCommit}
    /\ UNCHANGED <<passed, accepted, updater>>

Retry(c) == cooling' = cooling \ {c} /\ UNCHANGED <<passed, serving, accepted, updater>>

Next ==
    \/ \E c \in Commits : Pass(c) \/ Start(c) \/ GiveUp(c) \/ Retry(c)
    \/ Stop \/ Accept \/ Install

Spec == Init /\ [][Next]_<<passed, serving, accepted, updater, cooling>>
=============================================================================
