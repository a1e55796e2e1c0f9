--------------------------- MODULE MCShapeManager ---------------------------
(***************************************************************************)
(* Instances of ShapeManager for TLC.                                      *)
(***************************************************************************)
EXTENDS ShapeManager, TLC

CONSTANTS d1, d2, r1

\* Both definitions select from r1.
MCSameTable == [x \in Hash |-> r1]

MCOneOffset == {InitialOffset}

=============================================================================
