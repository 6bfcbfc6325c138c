\* Two commits, two contents of settings.env, one change of it and one crash.
SPECIFICATION Spec
CONSTANTS
    Commits = {1, 2}
    NoCommit = NoCommit
    Settings = {s1, s2}
    NoSettings = NoSettings
    MaxEdits = 1
    MaxCrashes = 1
INVARIANT TypeOK
PROPERTY KeepsReleasePromise
PROPERTY AcceptedReleaseRests
PROPERTY FailureCoolsDown
