SPECIFICATION HistorySpec
CONSTANTS
    Work = {w1}
    Proposed = {w1}
    Promoted = {}
    Broken = {}
    Activator = {a1}
    User = {}
    UserWork = {}
    UserGoals = {}
    RequireCleanGit = TRUE
    CommitAfterApply = TRUE
    HasReload = TRUE
    Faults = {"test_timeout"}
    MaxFaults = 1
    None = None
CHECK_DEADLOCK FALSE
INVARIANT CleanAtRest
