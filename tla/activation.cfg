SPECIFICATION HistorySpec
CONSTANTS
    Work = {w1, w2, w3}
    Proposed = {w2}
    Promoted = {w3}
    Broken = {w1}
    Activator = {a1, a2}
    User = {u1}
    UserWork = {w2}
    UserGoals = {"rejected"}
    RequireCleanGit = TRUE
    CommitAfterApply = TRUE
    HasReload = TRUE
    Faults = {"command_fails", "fails_after_commit", "raises", "test_timeout", "raises_after_commit", "crash"}
    MaxFaults = 1
    None = None
SYMMETRY Interchangeable
CHECK_DEADLOCK FALSE
INVARIANT LedgerIsTrue
INVARIANT LiveWasTestedWhenSerial
INVARIANT LiveIsCompletedUnlessCut
PROPERTY DecidesUnlessRaised
