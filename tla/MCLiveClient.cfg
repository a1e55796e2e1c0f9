CONSTANTS
  d1 = d1
  r1 = r1
  NoRow = NoRow
  NoHandle = NoHandle
  Hash = {d1}
  Dependent = {}
  Relation = {r1}
  RelationOf <- MCRelationOf
  Table = r1
  PartitionOf <- MCOnePartition
  Key = {1, 2}
  Row = {a}
  Waiter = {}
  Client = {c1}
  Durable = TRUE
  CommitLSNs = {0,1,2}
  MaxCommits = 2
  MaxStamp = 2
  MaxLog = 4
  MaxFaults = 0
  WaitOffsets <- MCNoOffsets
SPECIFICATION LiveSpec
INVARIANTS  ClientCaughtUp
CHECK_DEADLOCK FALSE
