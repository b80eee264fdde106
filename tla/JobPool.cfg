\* Three workers and seven tasks: the tokens go round twice.
CONSTANTS
  NT = 3
  NTasks = 7
  Failed = {1}
SPECIFICATION Spec
INVARIANTS
  TypeOK
  TokensConserved
  SoonNoticed
  UnnoticedAreLast
PROPERTIES
  Ends
  ImplementsPool
