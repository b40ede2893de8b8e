--------------------------- MODULE MCLinodeCluster ---------------------------
(***************************************************************************)
(* Constants for model checking LinodeCluster.                             *)
(***************************************************************************)
EXTENDS LinodeCluster, TLC

CONSTANTS m1, m2, n1, n2

ClusterSymmetry == Permutations({m1, m2}) \cup Permutations({n1, n2})

=============================================================================
