----------------------------- MODULE MCLiveSync -----------------------------
(***************************************************************************)
(* Instances of LiveSync for TLC: one definition on one table.             *)
(***************************************************************************)
EXTENDS LiveSync, TLC

CONSTANTS d1, r1

MCRelationOf == [x \in Hash |-> r1]

MCOnePartition  == [k \in Key |-> 1]
MCTwoPartitions == [k \in Key |-> k]

MCNoOffsets == {}

=============================================================================
