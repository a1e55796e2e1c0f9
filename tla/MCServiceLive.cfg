CONSTANTS
  d1 = d1
  d2 = d2
  r1 = r1
  NoRow = NoRow
  NoHandle = NoHandle
  Hash = {d1}
  Dependent = {d1}
  Relation = {r1}
  RelationOf <- MCOneTable
  Key = {1, 2}
  Row = {a}
  Waiter = {c1}
  Durable = TRUE
  CommitLSNs = {1, 2}
  MaxStamp = 2
  MaxLog = 2
  MaxFaults = 1
  WaitOffsets = {}
  Follower = {c1}
  Limit <- MCLimit
  AllowShapeDeletion = TRUE
SPECIFICATION FairServiceSpec
 
PROPERTIES RequestAnswered StreamEnds
