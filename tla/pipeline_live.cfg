CONSTANTS
  e1 = e1
  s1 = s1
  s2 = s2
  j1 = j1
  j2 = j2
  j3 = j3
  r1 = r1
  r2 = r2
  w1 = w1
  w2 = w2
  None = None
  Item <- Family
  SelfPatch <- TwoSelfPatches
  Job <- TwoJobs
  Request <- OneThread
  Worker <- OneWorker
  MaxAttempts = 1
  UserGoals <- AcceptOnly
  Faults <- NoFaults
  MaxFaults = 0
SPECIFICATION HistoryFairSpec
INVARIANTS
  OneChildWhenSerial
PROPERTIES
  ImplementsDelivery
  PromotedGetsJob
  DeliveredIsAcked
CHECK_DEADLOCK FALSE
