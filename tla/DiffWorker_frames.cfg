SPECIFICATION Spec
CONSTANTS
    MaxEdits = 2
    MaxBases = 2
PROPERTIES FramesWaitForTheDiff RenderNeverStuck DiffCatchesUp
