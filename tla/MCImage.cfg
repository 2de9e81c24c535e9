SPECIFICATION Spec
CONSTANTS
  Files <- MCFiles
  MaxBranches = 2
  MaxRegions = 2
INVARIANTS
  TypeOK
  ReachesExactly
  CyclesPassJoin
  SagaIsTotal
CHECK_DEADLOCK FALSE
