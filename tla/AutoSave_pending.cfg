\* The user stops editing: there is nothing more to do.
CHECK_DEADLOCK FALSE
SPECIFICATION Spec
CONSTANTS
    d1 = d1
    d2 = d2
    Docs = {d1, d2}
    ChannelCap = 1
    JobCap = 1
    MaxEdits = 3
    MaxOthers = 2
INVARIANT UnsavedIsPending
PROPERTIES ModifiedIsSaved EditorNeverFreezes
