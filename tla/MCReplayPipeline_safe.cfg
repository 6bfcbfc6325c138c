\* One run, up to three messages for it, two workers, two datasets, two restarts.
\* The system may stop: with every run finished and acknowledged nothing is left.
SPECIFICATION Spec
CONSTANTS
    Keys = {k1}
    NoKey = NoKey
    Inputs = {x1, x2}
    NoInput = NoInput
    Versions = {v1, v2}
    NoVersion = NoVersion
    Workers = {w1, w2}
    BatchLimit = 1
    MaxCopies = 3
    MaxRestarts = 2
SYMMETRY Symmetry
INVARIANT TypeOK
INVARIANT NoLostRun
INVARIANT ResultsAreRight
INVARIANT KeyNamesOneExperiment
PROPERTY FinishedRunIsImmutable
PROPERTY KeepsReplayPromise
CHECK_DEADLOCK FALSE
