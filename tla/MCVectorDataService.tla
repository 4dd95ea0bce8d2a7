------------------------- MODULE MCVectorDataService -------------------------
(* Bounded instances of VectorDataService for TLC.                         *)
EXTENDS VectorDataService

\* Every other version has a configuration.
OddVersions == {v \in Versions : v % 2 = 1}

=============================================================================
