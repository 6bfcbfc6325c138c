\* Two ready runs, one account: both may be submitted.
SPECIFICATION Spec
CONSTANTS
    Runs = {r1, r2}
    NoRun = NoRun
    Handlers = {h1, h2}
    Sweepers = {}
    Reported = {"filled", "rejected"}
    ReferenceIndexed = TRUE
    ForeignAnswers = FALSE
    SlowCommit = FALSE
    MaxCrashes = 0
SYMMETRY Symmetry
INVARIANT OneExposure
CHECK_DEADLOCK FALSE
