CONSTANTS
    Frames = {f1, f2}
    Cap = 1
    DoneCap = 1
    MaxFrames = 4
SPECIFICATION FairSpec
INVARIANTS Inv InTransit OkIsComplete
PROPERTIES Returns
CHECK_DEADLOCK FALSE
