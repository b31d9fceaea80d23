SPECIFICATION Spec
CONSTANTS
    p1 = p1
    p2 = p2
    NoProc = NoProc
    Proc = {p1, p2}
    MaxKeys = 3
    ResetFrom = {"ready"}
    LateMarkerFault = FALSE
INVARIANT NeverLockedOut
INVARIANT CreateMarkerMeansNeverReady
PROPERTY DataLostOnlyByReset
