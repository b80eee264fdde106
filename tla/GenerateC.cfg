\* Three rows, so that a rejected C1 can leave entries where the next one has
\* none; two steps per row of C2 reach the magnitude at which the comparison
\* decides.
CONSTANTS
  M = 3
  D = 2
  NORM1 = 2
  NORM2 = 2
  Q = 7
SPECIFICATION Spec
INVARIANTS
  TypeOK
  SparseC1
  RowNorm
  InvertibleKept
PROPERTY
  NeverBack
CHECK_DEADLOCK FALSE
