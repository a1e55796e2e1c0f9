CONSTANTS
  d1 = d1
  r1 = r1
  NoRow = NoRow
  NoHandle = NoHandle
  Hash = {d1}
  Dependent = {}
  Relation = {r1}
  RelationOf <- MCRelationOf
  Table = r1
  PartitionOf <- MCOnePartition
  Key = {1}
  Row = {a}
  Waiter = {}
  Client = {c1, c2}
  Durable = TRUE
  CommitLSNs = {0,1,2}
  MaxCommits = 2
  MaxStamp = 1
  MaxLog = 4
  MaxFaults = 2
  WaitOffsets <- MCNoOffsets
SPECIFICATION FairLiveSpec
PROPERTY ShapesConverge
CHECK_DEADLOCK FALSE
