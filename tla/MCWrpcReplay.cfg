CONSTANTS
    Outpoints = {o1}
    Scores <- Scores3
    Required = 1
    NoScore = NoScore
    MaxFrames = 4
    MaxCrashes = 1
SPECIFICATION Spec
INVARIANTS Consistent DepthRespected
PROPERTIES ReplayIdempotent
CHECK_DEADLOCK FALSE
