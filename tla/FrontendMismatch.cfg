CONSTANTS
  sample = sample
  own = own
  Specs <- MCSpecs
  Samples <- MCSamples
  First = sample
  Broken = Broken
  Nothing = Nothing
  MaxGenerated = 1
  MaxCalls = 0
SPECIFICATION Spec
INVARIANTS PanelsMatch
CHECK_DEADLOCK FALSE
