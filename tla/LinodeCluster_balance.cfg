CONSTANTS
    m1 = m1
    m2 = m2
    n1 = n1
    n2 = n2
    None = None
    Machines = {m1, m2}
    NodeBalancers = {n1}
    AdditionalPorts = {}
    Refs = {"firewall"}
    DuplicateNodes = TRUE
    ErrorKinds = {"transient"}
    FaultKinds = {"lostEvent", "stale"}
    MaxFaults = 1

SPECIFICATION FairSpec

PROPERTIES
    EventuallyBalanced
    EventuallyPruned
    NodeKept
    NoMachineLeft
CHECK_DEADLOCK FALSE
