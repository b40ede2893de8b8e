SPECIFICATION Spec
CONSTANTS
    m1 = m1
    m2 = m2
    i1 = i1
    i2 = i2
    i3 = i3
    None = None
    Machines = {m1, m2}
    InstanceIDs = {i1, i2}
    Labels = {"a", "b"}
    LabelOf <- OwnLabel
    NDisks = 0
    UsesCreds = {}
    Refs = {}
    ErrorKinds = {}
    FaultKinds = {"lostReply"}
    MaxFaults = 1
SYMMETRY InstanceSymmetry
INVARIANTS
    ProviderIDHasLabel
