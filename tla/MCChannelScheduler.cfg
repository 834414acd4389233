CONSTANTS
  MaxDependsOn = 1000
  MaxNotes = 10000
  Requests <- MCRequests
SPECIFICATION Spec
INVARIANTS
  TypeOK
  NoChannelOverlap
  DependenciesHonoured
  RefusesExactlyTheImpossible
  CycleTimesAgree
  CriticalPathCertified
PROPERTY Terminates
CHECK_DEADLOCK FALSE
