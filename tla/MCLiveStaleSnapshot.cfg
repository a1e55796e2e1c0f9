CONSTANTS
  d1 = d1
  r1 = r1
  NoRow = NoRow
  NoHandle = NoHandle
  Hash = {d1}
  Dependent = {}
  Relation = {r1}
  RelationOf <- MCRelationOf
  Table = r1
  PartitionOf <- MCOnePartition
  Key = {1}
  Row = {a}
  Waiter = {}
  Client = {c1}
  Durable = TRUE
  CommitLSNs = {0,1}
  MaxCommits = 1
  MaxStamp = 1
  MaxLog = 4
  MaxFaults = 0
  WaitOffsets <- MCNoOffsets
SPECIFICATION LiveSpec
INVARIANT FollowedShapesCaughtUp
CHECK_DEADLOCK FALSE
