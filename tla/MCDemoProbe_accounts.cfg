\* Two accounts and two instruments of the symbol, values at both sides of every
\* gate, and two restarts with either key or none.
\* The system may stop: a run that is final leaves nothing to do.
SPECIFICATION FairSpec
CONSTANTS
    AccountIDs = {1, 2}
    Instruments = {1, 2}
    Accounts = {1, 2}
    Bodies <- MCBodies
    Failures <- MCFailures
    OrderID = 7
    ReferenceIndexed = FALSE
    LateRefusals = FALSE
    MaxRestarts = 2
INVARIANT TypeOK
INVARIANT PostedAsReviewed
INVARIANT FinalStatusIsTrue
PROPERTY SubmitsAsDocumented
PROPERTY ForeignKeyDecidesNothing
PROPERTY DoneIsRecorded
CHECK_DEADLOCK FALSE
