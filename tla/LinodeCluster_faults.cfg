CONSTANTS
    m1 = m1
    m2 = m2
    n1 = n1
    n2 = n2
    None = None
    Machines = {m1}
    NodeBalancers = {n1, n2}
    AdditionalPorts = {"konnectivity"}
    Refs = {"vpc"}
    DuplicateNodes = FALSE
    ErrorKinds = {"transient", "fatal"}
    FaultKinds = {"lostReply", "lostPatch", "crash", "stale", "lostEvent", "outOfBand"}
    MaxFaults = 2

SPECIFICATION FairSpec

INVARIANTS
    NoOrphanNodeBalancer
    EndpointSound
PROPERTIES
    EventuallyReady
    EventuallyGone
CHECK_DEADLOCK FALSE
