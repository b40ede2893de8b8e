SPECIFICATION Spec
CONSTANTS
    m1 = m1
    m2 = m2
    m3 = m3
    l1 = l1
    l2 = l2
    l3 = l3
    None = None
    Machines = {m1, m2}
    ControlPlane = {m1}
    Lists = {l1, l2, l3}
    FaultKinds = {"error", "lostReply", "lostPatch", "crash", "stale", "earlyDelete"}
    MaxFaults = 3
SYMMETRY VlanSymmetry
INVARIANTS
    AddressIsReal
    UniqueUnlessLost
