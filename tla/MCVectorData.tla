---------------------------- MODULE MCVectorData ----------------------------
(* Bounded instances of VectorData for TLC.                                *)
EXTENDS VectorData

\* The first two VectorData of the name can be rendered, a third cannot.
FirstTwo == {1, 2}

=============================================================================
