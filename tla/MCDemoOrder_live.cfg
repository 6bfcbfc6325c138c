\* The sweeper resolves what handlers and a crash leave behind.
\* The system may stop: a run that is final leaves nothing to do.
SPECIFICATION FairSpec
CONSTANTS
    Runs = {r1}
    NoRun = NoRun
    Handlers = {h1}
    Sweepers = {s1}
    Reported = {"partial", "filled", "rejected", "odd"}
    ReferenceIndexed = TRUE
    ForeignAnswers = FALSE
    SlowCommit = TRUE
    MaxCrashes = 1
PROPERTY IntentLeavesSubmitting
PROPERTY FillIsRecorded
CHECK_DEADLOCK FALSE
