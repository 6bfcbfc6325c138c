\* Two runs and two handlers, either of which may also do the sweeper's work,
\* and one crash: races, lost answers and the refinement.
\* The system may stop: runs that are final leave nothing to do.
SPECIFICATION Spec
CONSTANTS
    Runs = {r1, r2}
    NoRun = NoRun
    Handlers = {h1, h2}
    Sweepers = {}
    Reported = {"partial", "filled", "rejected"}
    ReferenceIndexed = TRUE
    ForeignAnswers = FALSE
    SlowCommit = TRUE
    MaxCrashes = 1
SYMMETRY Symmetry
INVARIANT TypeOK
INVARIANT PostedOnceAfterIntent
INVARIANT OneActive
INVARIANT UnsettledIsFrozen
INVARIANT FinalStatusIsTrue
PROPERTY FinalRowIsImmutable
PROPERTY KeepsIntentPromise
CHECK_DEADLOCK FALSE
