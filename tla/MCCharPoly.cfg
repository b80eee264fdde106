CONSTANTS
  M = 4
  Q = 5
  Inputs <- MCInputs
SPECIFICATION Spec
INVARIANTS
  TypeOK
  StaysSimilar
  HessenbergSoFar
  LeadingBlocks
  VerdictRight
CHECK_DEADLOCK FALSE
