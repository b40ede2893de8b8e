SPECIFICATION ServicesSpec
CONSTANTS
    NumMachines = 2
    Providers = {"linode", "akamai"}
    MaxFlaps = 3
    MaxErrors = 1
    Clones = {m1}
    Tags = {"a"}
    AutoGenTags = {"cluster"}
    ManualTags = {"manual"}
    FirewallIDs = {0, 1}
    Contents <- TemplateContents
    MaxTemplateEdits = 2
    MaxTagFaults = 1
    MetadataLimit = 3
    Sizes = {2, 3, 4}
    Pointer = 1
    MaxStoreFaults = 2
    MaxStoreEdits = 1
    Plan = 4
    Swap = 1
    Mega = 10
    DiskSizes = {0, 7, 11, 18, 40}
    Given <- Interfaces
    m1 = m1
    m2 = m2
    m3 = m3
    None = None
    Machines = {m1, m2, m3}
    Limit = 2
    Window = 4
    Second = 2
    FaultKinds = {"lostReply", "badHeader", "foreign", "crash"}
    MaxFaults = 3
INVARIANTS
    NoRecordLeft
    UserDataUsable
    ObjectNotLeft
    NetworkAsAsked
    DisksFit
    RefusedOncePerFault
PROPERTIES
    DeletionsGuarded
    RecordsConverge
    ManualTagsKept
    TagsFollow
    EventuallyJoined
    EventuallyCreated
CHECK_DEADLOCK FALSE
