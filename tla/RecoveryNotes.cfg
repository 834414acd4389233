CONSTANTS
  MaxDependsOn = 1000
  MaxNotes = 10000
  MaxDescription = 1000
  Calls <- MCCalls
  LlmAnswers <- MCLlmAnswers
SPECIFICATION Spec
INVARIANTS
  NeverHardFails
CHECK_DEADLOCK FALSE
