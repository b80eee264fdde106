\* The programs stop when the vector has come back.
CONSTANTS
  Q = 5
  Base = 16
  Size = 8
  Vectors <- MCVectors
  Matrices <- MCVectors
  Hashes <- MCHashes
SPECIFICATION Spec
INVARIANTS
  PackExact
  RoundTrip
  HashLow
CHECK_DEADLOCK FALSE
