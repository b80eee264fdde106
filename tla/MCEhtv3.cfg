CONSTANTS
  M = 4
  D = 2
  N = 3
  K = 2
  Q = 7
  NORM1 = 2
  NORM2 = 2
  ZBOUND = 1
  S = 1
  L = 3
  SEEDBYTES = 2
  MaxTries = 12
  TUPPLE <- MCTuple
  Seeds <- MCSeeds
  Messages <- MCMessages
  Rand <- MCRand
  Hash <- MCHash
SPECIFICATION Spec
INVARIANTS
  TypeOK
  KeyEquation
  CharPolyMatches
  PreimageExact
  LatticeClose
  SignatureVerifies
