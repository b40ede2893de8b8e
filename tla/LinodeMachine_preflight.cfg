SPECIFICATION Spec
CONSTANTS
    m1 = m1
    m2 = m2
    i1 = i1
    i2 = i2
    i3 = i3
    None = None
    Machines = {m1}
    InstanceIDs = {i1, i2}
    Labels = {"a", "b"}
    LabelOf <- OwnLabel
    NDisks = 2
    UsesCreds = {m1}
    Refs = {"firewall", "vpc"}
    ErrorKinds = {"fatal"}
    FaultKinds = {}
    MaxFaults = 1
INVARIANT
    PreflightDone
