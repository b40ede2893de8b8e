SPECIFICATION FairSpec
CONSTANTS
    m1 = m1
    m2 = m2
    i1 = i1
    i2 = i2
    i3 = i3
    None = None
    Machines = {m1}
    InstanceIDs = {i1, i2}
    Labels = {"a", "b"}
    LabelOf <- OwnLabel
    NDisks = 1
    UsesCreds = {m1}
    Refs = {"firewall", "vpc"}
    ErrorKinds = {"transient"}
    FaultKinds = {"lostReply", "crash", "stale"}
    MaxFaults = 1
PROPERTIES
    EventuallyReady
    EventuallyGone
