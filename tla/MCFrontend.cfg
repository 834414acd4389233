CONSTANTS
  sample = sample
  own = own
  Specs <- MCSpecs
  Samples <- MCSamples
  First = sample
  Broken = Broken
  Nothing = Nothing
  MaxGenerated = 2
  MaxCalls = 2
SPECIFICATION Spec
INVARIANTS TypeOK ProgramFitsSpec
PROPERTIES TypedTextKept OnlyLateAnswersMismatch ButtonsComeBack
CHECK_DEADLOCK FALSE
