SPECIFICATION Spec
CONSTANTS
  Action <- MCAction
  Catalog <- MCCatalog
  Executor <- MCExecutor
  AllDefaults = {"get_uptime"}
  Asked = {"uptime", "bench", "write"}
  SpecOf <- MCSpecOf
  Key = {"tone"}
  Commands = {"ask", "do", "plan", "run", "run-task", "approve", "reject", "set", "delete", "reset", "status"}
  Word = {"uptime"}
  Weight <- MCWeight
  Message = {m1, m2}
  None = None
  Prefix = TRUE
  ReplyWithoutPrefix = TRUE
  AllowDms = FALSE
  AutoDo = TRUE
  Preset = {"uptime"}
  Content = {{}, {"uptime"}}
  ContextLimit = 3
  MaxTimeouts = 1
SYMMETRY Sym
CHECK_DEADLOCK FALSE
INVARIANTS
  OneEffect
  SuccessIsBacked
  
  DialogueInOrder
