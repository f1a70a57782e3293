SPECIFICATION Spec
CONSTANTS
    t1 = t1  t2 = t2  t3 = t3  v1 = v1  v2 = v2
    Garbled = Garbled
    Text = {t1, t2}
    Views = {v1, v2}
    LevelChoices = {1, 2}
    JoinOffered = TRUE
    PushWhileEditing = FALSE
    Steps = {1}
    Periods = {}
    MaxLen = 4
    MaxClock = 0
INVARIANT SyncNeverPanics
PROPERTY JoinsKeepHistoryExact
PROPERTY TrimKeepsLinearHistoryExact
PROPERTY CommitsStayWithinUndoLevels
SYMMETRY TextViewSymmetry
VIEW WithoutJumps
