SPECIFICATION FairSpec
CONSTANTS
    v1 = v1
    v2 = v2
    None = None
    VPCs = {v1, v2}
    Subnets = {"a", "b"}
    FirstSubnets = {"a"}
    RetainedSubnets = {"b"}
    PGs = {v1, v2}
    FWs = {v1, v2}
    MaxIPsPerRule = 2
    MaxRules = 4
    IPChoices <- EditChoices
    MaxEdits = 1
    k1 = k1
    k2 = k2
    k3 = k3
    k4 = k4
    Keys = {k1, k2, k3, k4}
    Forms <- AllForms
    KeyForms <- AllKeyForms
    MaxChanges = 1
    UsesCreds = {"vpc", "pg", "fw", "key", "bucket"}
    ErrorKinds = {"transient"}
    FaultKinds = {"lostReply", "lostPatch", "crash", "stale", "outOfBand", "lostEvent"}
    MaxFaults = 1
INVARIANTS
    CredentialsHeld
    SubnetsKept
    KeysAccounted
PROPERTIES
    ResourcesImplemented
    Retained
    EventuallyReady
    EventuallyGone
CHECK_DEADLOCK FALSE
