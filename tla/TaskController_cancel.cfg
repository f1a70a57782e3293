SPECIFICATION TaskSpec
CONSTANTS
    h1 = h1  h2 = h2  h3 = h3
    Slots = {h1, h2, h3}
    GenLimit = 3
    MaxCalls = 3
INVARIANT TaskTypeOK
INVARIANT CountIsExact
INVARIANT NeverMiscounts
INVARIANT WaitersAreNotified
PROPERTY CanceledForever
PROPERTY CancelReachesAll
PROPERTY KeepsCancellationPromise
PROPERTY CanceledTasksWake
CHECK_DEADLOCK FALSE
