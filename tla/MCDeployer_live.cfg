\* Two commits, either of which may be unhealthy, and one crash.
SPECIFICATION FairSpec
CONSTANTS
    Commits = {1, 2}
    NoCommit = NoCommit
    Settings = {s1}
    NoSettings = NoSettings
    MaxEdits = 0
    MaxCrashes = 1
PROPERTY HeadIsDeployed
PROPERTY ServicesComeBack
