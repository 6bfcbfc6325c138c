\* One release; its settings are changed and changed back.
SPECIFICATION Spec
CONSTANTS
    Commits = {1}
    NoCommit = NoCommit
    Settings = {s1, s2}
    NoSettings = NoSettings
    MaxEdits = 2
    MaxCrashes = 0
PROPERTY SettingsTakeEffect
