SPECIFICATION HistoryFairSpec
CONSTANTS
    Action = {"get_uptime", "get_waiting_probe", "write_file", "restart_service"}
    Catalog <- MCCatalog
    Task = {t1}
    Specs <- WriteOnly
    Thread = {"h1"}
    Ops <- CreateAndRun
    MaxRequests = 2
    MaxRestarts = 0
    None = None
CHECK_DEADLOCK FALSE
PROPERTY RiskyGoesToApproval
