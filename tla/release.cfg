SPECIFICATION Spec
CONSTANTS
  Clients = {c1, c2}
  Names = {n1, n2}
  MaxTrainings = 1
  MaxDeploys = 2
  MaxExtras = 1
SYMMETRY Sym
CHECK_DEADLOCK FALSE
INVARIANTS
  OwnTrainingUnlessShared
  PointersResolveUnlessLost
  OneReleaseIsCurrentUnlessRaced
  StagesAreCleanedUnlessLost
PROPERTY ReleaseStands
