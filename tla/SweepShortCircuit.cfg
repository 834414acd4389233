CONSTANTS
  MaxDependsOn = 1000
  MaxNotes = 10000
  Requests <- SweepRequests
SPECIFICATION Spec
INVARIANT SweepMatchesSchedules
CHECK_DEADLOCK FALSE
