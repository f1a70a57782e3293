SPECIFICATION Spec
CONSTANTS
    t1 = t1  t2 = t2  t3 = t3  v1 = v1  v2 = v2
    Garbled = Garbled
    Text = {t1, t2, t3}
    Views = {v1, v2}
    LevelChoices = {}
    JoinOffered = FALSE
    PushWhileEditing = FALSE
    Steps = {1, 2}
    Periods = {1, 2}
    MaxLen = 4
    MaxClock = 3
INVARIANT TypeOK
INVARIANT BufferIsCurrentRevision
INVARIANT RedoTakesNewestBranch
INVARIANT ClimbMeetsAtLowestAncestor
INVARIANT ChangesSinceLeadToCurrent
INVARIANT JumpsMatchRevision
INVARIANT FocusedViewInStep
INVARIANT TimeTravelPicksNearest
PROPERTY RevisionsArePermanent
PROPERTY KeepsTimelinePromise
SYMMETRY TextViewSymmetry
