CONSTANTS
  MaxDependsOn = 10
  MaxNotes = 10000
  MaxRepairAttempts = 2
  Versions <- MCVersions
  Learned <- MCLearned
  Calls <- MCCalls
  Answers <- MCAnswers
  Errors <- MCErrors
SPECIFICATION Spec
INVARIANTS
  TypeOK
  VerdictStillHolds
  DeliveredProgramsRun
  ExportGateAgrees
  MockPlansSound
  AnalyticsAgree
  SmallVehiclesAnswered
PROPERTIES
  RepairDiscipline
  AlwaysAnswers
CHECK_DEADLOCK FALSE
