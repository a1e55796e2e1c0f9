CONSTANTS
  d1 = d1
  d2 = d2
  r1 = r1
  NoRow = NoRow
  NoHandle = NoHandle
  Hash = {d1, d2}
  Dependent = {d2}
  Relation = {r1}
  RelationOf <- MCSameTable
  Key = {1}
  Row = {a}
  Waiter = {w1}
  Durable = TRUE
  CommitLSNs = {0, 1}
  MaxStamp = 2
  MaxLog = 2
  MaxFaults = 1
  WaitOffsets <- MCOneOffset
SPECIFICATION Spec
INVARIANTS TypeOK IndexesConsistent  StoreAgrees
PROPERTY NoResurrection
CHECK_DEADLOCK FALSE
