CONSTANTS
  Fleet <- MCFleet
  Sizes <- MCSizes
  Fails <- MCFails
  MaxWorkers = 1
  MaxConnections = 1
  MaxRepairAttempts = 1
  MaxShutdowns = 1
SPECIFICATION Spec
INVARIANTS TypeOK ResourcesBounded
PROPERTIES PromiseKept EveryFleetEnds
CHECK_DEADLOCK FALSE
