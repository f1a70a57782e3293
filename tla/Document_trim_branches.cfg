SPECIFICATION Spec
CONSTANTS
    t1 = t1  t2 = t2  t3 = t3  v1 = v1  v2 = v2
    Garbled = Garbled
    Text = {t1, t2, t3}
    Views = {v1}
    LevelChoices = {2}
    JoinOffered = FALSE
    PushWhileEditing = FALSE
    Steps = {1, 2}
    Periods = {}
    MaxLen = 5
    MaxClock = 0
INVARIANT BufferIsCurrentRevision
SYMMETRY TextSymmetry
