SPECIFICATION Spec
CONSTANTS
    m1 = m1
    m2 = m2
    i1 = i1
    i2 = i2
    i3 = i3
    None = None
    Machines = {m1}
    InstanceIDs = {i1, i2}
    Labels = {"a", "b"}
    LabelOf <- OwnLabel
    NDisks = 2
    UsesCreds = {m1}
    Refs = {"firewall", "vpc"}
    ErrorKinds = {"transient", "fatal"}
    FaultKinds = {"lostReply", "lostPatch", "crash", "stale", "noConfigs", "slowBoot"}
    MaxFaults = 2
SYMMETRY InstanceSymmetry
INVARIANTS
    TypeOK
    NoOrphan
    OneDiskPerDevice
    CredentialsHeld
    DisksBeforeBoot
    StateComplete
PROPERTY
    ProviderIDStable
