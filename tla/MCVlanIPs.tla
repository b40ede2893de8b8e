------------------------------ MODULE MCVlanIPs ------------------------------
(***************************************************************************)
(* Instances of VlanIPs for TLC.                                           *)
(***************************************************************************)
EXTENDS VlanIPs, TLC

CONSTANTS m1, m2, m3, l1, l2, l3

\* The machines of the control plane are interchangeable, and so are the others.
VlanSymmetry ==
    {p \in Permutations(Machines) : {p[m] : m \in ControlPlane} = ControlPlane}
        \cup Permutations(Lists)

=============================================================================
