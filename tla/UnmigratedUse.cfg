CONSTANTS
  Writers = {w1, w2}
  Readers = {r1}
  Resetters = {s1}
  Migrations <- MCMigrations
  MaxFaults = 2
  MaxCrashes = 1
  Nobody = nobody
SPECIFICATION Spec
INVARIANTS
  MigratedBeforeUse
CHECK_DEADLOCK FALSE
