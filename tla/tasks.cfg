SPECIFICATION HistoryFairSpec
CONSTANTS
    Action = {"get_uptime", "get_waiting_probe", "write_file", "restart_service"}
    Catalog <- MCCatalog
    Task = {t1}
    Specs <- EverySpec
    Thread = {"h1", "h2"}
    Ops <- EveryOp
    MaxRequests = 3
    MaxRestarts = 1
    None = None
CHECK_DEADLOCK FALSE
INVARIANT TablesAgree
INVARIANT RunsAreAuthorised
INVARIANT ExecutedOnceWhenSerial
PROPERTY RunSettlesWhenSerial
