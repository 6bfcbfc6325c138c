\* Lookups answer with a foreign order ID, one after the other.
SPECIFICATION Spec
CONSTANTS
    Runs = {r1}
    NoRun = NoRun
    Handlers = {h1}
    Sweepers = {}
    Reported = {"filled", "rejected"}
    ReferenceIndexed = TRUE
    ForeignAnswers = TRUE
    SlowCommit = FALSE
    MaxCrashes = 0
PROPERTY MismatchNeedsAPerson
CHECK_DEADLOCK FALSE
