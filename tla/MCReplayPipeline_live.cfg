\* Two runs share the relay's batches and one worker, with one restart.
\* The system may stop: with every run finished and acknowledged nothing is left.
SPECIFICATION FairSpec
CONSTANTS
    Keys = {k1, k2}
    NoKey = NoKey
    Inputs = {x1}
    NoInput = NoInput
    Versions = {v1}
    NoVersion = NoVersion
    Workers = {w1}
    BatchLimit = 1
    MaxCopies = 1
    MaxRestarts = 1
PROPERTY AcceptedRunFinishes
PROPERTY QueueDrains
CHECK_DEADLOCK FALSE
