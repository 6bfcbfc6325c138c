\* Two runs, two experiments, so that a key may be sent again with the other one,
\* the repository's fixture and one that cannot be valued; the page may be reloaded
\* at any time.
\* The system may stop: with no key left and every run shown nothing changes.
SPECIFICATION FairSpec
CONSTANTS
    LongName = LongName
    Keys = {k1, k2}
    None = None
    Forms <- MCForms
    Experiments <- MCExperiments
    NoInput = NoInput
    Fixtures <- MCFixtures
    Versions = {"fixture-v1", "late"}
    NoVersion = NoVersion
    MaxWire = 1
    MaxClicks = 1
INVARIANT TypeOK
INVARIANT RunsAreAccountedFor
INVARIANT ShownIsSelected
INVARIANT ResultsAreComparable
PROPERTY SelectedIsShown
CHECK_DEADLOCK FALSE
