SPECIFICATION FileSpec
CONSTANTS
    t1 = t1  t2 = t2  v1 = v1
    Garbled = Garbled
    Text = {t1, t2}
    Views = {v1}
    LevelChoices = {}
    JoinOffered = FALSE
    PushWhileEditing = FALSE
    Steps = {}
    Periods = {}
    MaxLen = 2
    MaxClock = 0
    Uses = {"autosave", "external", "race", "failure", "atomic", "set modified", "undofile", "auto-format"}
    MaxSaves = 2
    MaxMtime = 2
PROPERTY SavesSettle
INVARIANT FileIsWholeBetweenWrites
