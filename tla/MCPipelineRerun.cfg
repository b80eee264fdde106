\* Nothing fails, and 02_process_signatures.sh is run a second time.
CONSTANTS
  NT = 2
  NBatches = 2
  BatchSize = 2
  Plan <- ProcessTwice
  Sorted <- MCSorted
  MaxFaults = 0
  NoFile = NoFile
  Short = Short
  Torn = Torn
  Garbage = Garbage
SPECIFICATION Spec
INVARIANTS
  OneSamplePerSignature
