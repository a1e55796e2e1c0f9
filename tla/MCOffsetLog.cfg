CONSTANTS
  MaxInt64 = 9
  MaxUint64 = 19
  MaxBatch = 3
  MaxLog = 5
  CommitLSNs = {1, 2, 12}
SPECIFICATION Spec
INVARIANTS TypeOK TextsAgree 
CHECK_DEADLOCK FALSE
