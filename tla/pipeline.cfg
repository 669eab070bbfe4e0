CONSTANTS
  e1 = e1
  s1 = s1
  s2 = s2
  j1 = j1
  j2 = j2
  j3 = j3
  r1 = r1
  r2 = r2
  w1 = w1
  w2 = w2
  None = None
  Item <- OneSelfPatch
  SelfPatch <- OneSelfPatch
  Job <- TwoJobs
  Request <- TwoThreads
  Worker <- TwoWorkers
  MaxAttempts = 2
  UserGoals <- AcceptOnly
  Faults <- AllFaults
  MaxFaults = 1
SPECIFICATION HistorySpec
INVARIANTS
  DeliveredOnce
  AckedIsAccounted
  ApprovalHasPatch
  OneJobWhenSerial
SYMMETRY Sym
CHECK_DEADLOCK FALSE
