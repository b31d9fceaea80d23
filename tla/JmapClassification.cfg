SPECIFICATION JmapSpec
CONSTANTS
    v1 = v1
    v2 = v2
    Values <- TwoValues
    MaxAttempts = 3
SYMMETRY ValueSymmetry
INVARIANT SubmittedAtMostOnce
INVARIANT FailedMeansNotSubmitted
INVARIANT ConfirmedMeansDone
CHECK_DEADLOCK FALSE
