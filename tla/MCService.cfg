CONSTANTS
  d1 = d1
  d2 = d2
  r1 = r1
  NoRow = NoRow
  NoHandle = NoHandle
  Hash = {d1, d2}
  Dependent = {d1}
  Relation = {r1}
  RelationOf <- MCOneTable
  Key = {1}
  Row = {a}
  Waiter = {c1, c2}
  Durable = TRUE
  CommitLSNs = {1}
  MaxStamp = 2
  MaxLog = 1
  MaxFaults = 0
  WaitOffsets = {}
  Follower = {c1}
  Limit <- MCLimit
  AllowShapeDeletion = TRUE
SPECIFICATION ServiceSpec
INVARIANTS ServiceTypeOK SlotsBalanced NoLostWakeup
PROPERTY RefetchRotates
