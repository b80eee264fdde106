\* A square of side 4: the last column has a single filling left.
CONSTANTS
  M = 4
  NORM1 = 4
SPECIFICATION Spec
INVARIANTS
  TypeOK
  ColumnsArePermutations
  TrackerExact
  RowsDistinct
  FreshColumnFillable
PROPERTY
  ImplementsPromise
