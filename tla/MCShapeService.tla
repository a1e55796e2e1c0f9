--------------------------- MODULE MCShapeService ---------------------------
(***************************************************************************)
(* Instances of ShapeService for TLC.                                      *)
(***************************************************************************)
EXTENDS ShapeService, TLC

CONSTANTS d1, d2, r1

MCOneTable == [x \in Hash |-> r1]

\* One slot of each kind.
MCLimit == [k \in Kind |-> 1]

=============================================================================
