SPECIFICATION Spec
CONSTANTS
    Tracked = {"f1", "f2"}
    New = {"n1"}
    TestWrites = {"f2"}
    MayRaise = TRUE
    MayCrash = TRUE
CHECK_DEADLOCK FALSE
INVARIANT PatchHasTestedFiles
INVARIANT OnlyGoodPatchesWait
