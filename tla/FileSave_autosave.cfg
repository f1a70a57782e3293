SPECIFICATION FileSpec
CONSTANTS
    t1 = t1  t2 = t2  v1 = v1
    Garbled = Garbled
    Text = {t1, t2}
    Views = {v1}
    LevelChoices = {}
    JoinOffered = FALSE
    PushWhileEditing = FALSE
    Steps = {}
    Periods = {}
    MaxLen = 3
    MaxClock = 0
    Uses = {"autosave"}
    MaxSaves = 2
    MaxMtime = 3
INVARIANT UnmodifiedMeansSaved
SYMMETRY TextSymmetry
