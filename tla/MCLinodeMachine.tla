--------------------------- MODULE MCLinodeMachine ---------------------------
(***************************************************************************)
(* Instances of LinodeMachine for TLC.                                     *)
(***************************************************************************)
EXTENDS LinodeMachine, TLC

CONSTANTS m1, m2, i1, i2, i3

OwnLabel == [m \in Machines |-> IF m = m1 THEN "a" ELSE "b"]
SameLabel == [m \in Machines |-> "a"]

InstanceSymmetry == Permutations(InstanceIDs)

=============================================================================
