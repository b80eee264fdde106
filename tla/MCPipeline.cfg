\* Two processors' worth of tokens and three batches of two signatures; one
\* program may fail, or one of its writes be lost.
CONSTANTS
  NT = 2
  NBatches = 3
  BatchSize = 2
  Plan <- AllTwice
  Sorted <- MCSorted
  MaxFaults = 1
  NoFile = NoFile
  Short = Short
  Torn = Torn
  Garbage = Garbage
SPECIFICATION Spec
INVARIANTS
  KeysMatch
  DamageContained
  RawExact
PROPERTIES
  Delivered
