CONSTANTS
    m1 = m1
    m2 = m2
    n1 = n1
    n2 = n2
    None = None
    Machines = {m1}
    NodeBalancers = {n1, n2}
    AdditionalPorts = {"konnectivity"}
    Refs = {}
    DuplicateNodes = TRUE
    ErrorKinds = {"transient", "fatal"}
    FaultKinds = {}
    MaxFaults = 0

SPECIFICATION Spec
SYMMETRY ClusterSymmetry

INVARIANT NodeOnce
CHECK_DEADLOCK FALSE
