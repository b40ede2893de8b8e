----------------------------- MODULE MCServices -----------------------------
(***************************************************************************)
(* Instances of DomainRecords, TagPropagation, BootstrapData,              *)
(* CreateOptions and PostRateLimit for TLC.  They share no state: each     *)
(* behaviour is about one of them, and the others rest.                    *)
(***************************************************************************)
EXTENDS DomainRecords, TagPropagation, BootstrapData, CreateOptions, PostRateLimit

CONSTANTS m1, m2, m3

VARIABLE part   \* what the behaviour is about

serviceVars == <<dnsVars, tagVars, bootVars, optionVars, vars, part>>

\* The tags and the firewall of a template.
TemplateContents ==
    {[tags |-> {}, firewall |-> 0], [tags |-> {"a"}, firewall |-> 0],
     [tags |-> {"a"}, firewall |-> 1]}

Interfaces == {<<>>, <<"public">>, <<"public", "vpc">>, <<"vlan", "public">>}

\* Every combination of what concerns the network, of what decides on the generation and
\* on the addresses, and of up to four disks.
NetworkSpecs ==
    [generation: {"legacy_config", "linode"}, interfaces: Given, linodeInterfaces: Given,
     vpc: SUBSET VPCs, subnetName: {"", "two", "three"}, vlan: BOOLEAN, ipv6: BOOLEAN,
     firewall: {"", "id", "ref"}, pg: {FALSE}, privateIP: {""}, networkHelper: {""},
     osDisk: {0}, dataDisks: {<<>>}, checked: {TRUE}]

AddressSpecs ==
    [generation: {"legacy_config", "linode"}, interfaces: Given, linodeInterfaces: Given,
     vpc: {{}, {MachineID}}, subnetName: {""}, vlan: BOOLEAN, ipv6: {FALSE},
     firewall: {""}, pg: {FALSE}, privateIP: Optional, networkHelper: Optional,
     osDisk: {0}, dataDisks: {<<>>}, checked: {TRUE}]

DiskSpecs ==
    [generation: {"legacy_config"}, interfaces: {<<>>}, linodeInterfaces: {<<>>},
     vpc: {{}}, subnetName: {""}, vlan: {FALSE}, ipv6: {FALSE},
     firewall: {""}, pg: BOOLEAN, privateIP: {""}, networkHelper: {""}, osDisk: DiskSizes,
     dataDisks: {<<>>} \cup {<<b, c, 0, 0, 0, 0, h>> : b, c, h \in DiskSizes},
     checked: BOOLEAN]

-----------------------------------------------------------------------------
\* The parts at rest: there is no cluster, machine or spec they would work on.
NoDNS ==
    /\ machines = [m \in Nodes |-> [life |-> "none", addresses |-> FALSE, ready |-> FALSE]]
    /\ records = {}
    /\ cluster = "gone" /\ queued = FALSE
    /\ step = "idle" /\ operation = "create"
    /\ listed = {} /\ entries = <<>> /\ stale = {}
    /\ provider = "linode" /\ dropped = FALSE
    /\ flaps = 0 /\ errors = 0

NoTemplate ==
    /\ template = [spec |-> NoTags, status |-> NoTags]
    /\ lm = [m \in Clones |-> NoClone] /\ linode = [m \in Clones |-> NoLinode]
    /\ work = IdleWork /\ loop = [m \in Clones |-> IdleLoop] /\ pending = {}
    /\ tagFaults = [m \in Clones |-> {}]
    /\ edits = 0 /\ chances = 0

NoBootstrap ==
    /\ owner = "gone" /\ joined = FALSE
    /\ data = CHOOSE d \in [size: Sizes, compressed: Sizes, gzip: BOOLEAN] : TRUE
    /\ refs = 0 /\ objects = {}
    /\ instance = [status |-> "none", data |-> NoData]
    /\ phase = "idle" /\ try = 0 /\ known = 0 /\ userData = NoData
    /\ waiting = FALSE /\ uncleaned = FALSE
    /\ storeFaults = 0 /\ storeEdits = 0

NoOptions ==
    /\ spec = CHOOSE s \in DiskSpecs : TRUE
    /\ found = {} /\ building = "idle" /\ config = NoConfig

NoCreation ==
    /\ api = [remaining |-> Limit, reset |-> Window]
    /\ ctr = None /\ mu = None
    /\ pc = [m \in Machines |-> "done"] /\ wait = [m \in Machines |-> 0]
    /\ resp = [m \in Machines |-> NoResponse]
    /\ refused = 0 /\ turned = [m \in Machines |-> 0]
    /\ budget = 0

ServicesInit ==
    \/ /\ part = "dns" /\ \E p \in Providers : DNSInit(p)
       /\ NoTemplate /\ NoBootstrap /\ NoOptions /\ NoCreation
    \/ /\ part = "tags" /\ TagInit
       /\ NoDNS /\ NoBootstrap /\ NoOptions /\ NoCreation
    \/ /\ part = "bootstrap" /\ BootInit
       /\ NoDNS /\ NoTemplate /\ NoOptions /\ NoCreation
    \/ /\ part = "options" /\ OptionsInit(NetworkSpecs \cup AddressSpecs \cup DiskSpecs)
       /\ NoDNS /\ NoTemplate /\ NoBootstrap /\ NoCreation
    \/ /\ part = "limit" /\ Init
       /\ NoDNS /\ NoTemplate /\ NoBootstrap /\ NoOptions

ServicesNext ==
    /\ UNCHANGED part
    /\ \/ part = "dns" /\ DNSNext /\ UNCHANGED <<tagVars, bootVars, optionVars, vars>>
       \/ part = "tags" /\ TagNext /\ UNCHANGED <<dnsVars, bootVars, optionVars, vars>>
       \/ part = "bootstrap" /\ BootNext /\ UNCHANGED <<dnsVars, tagVars, optionVars, vars>>
       \/ part = "options" /\ OptionsNext /\ UNCHANGED <<dnsVars, tagVars, bootVars, vars>>
       \/ part = "limit" /\ Next /\ UNCHANGED <<dnsVars, tagVars, bootVars, optionVars>>

\* The fairness of the parts; of one that rests, nothing but Tick is enabled.
ServicesFairness ==
    /\ DNSFairness /\ TagFairness /\ BootFairness
    /\ WF_vars(part = "limit" /\ Tick)
    /\ \A m \in Machines : WF_vars(Step(m)) /\ SF_vars(GetPostReqCounter(m))

ServicesSpec == ServicesInit /\ [][ServicesNext]_serviceVars /\ ServicesFairness

\* The state of the parts has its type.
ServicesTypeOK == DNSTypeOK /\ TagTypeOK /\ BootTypeOK /\ OptionsTypeOK /\ TypeOK

=============================================================================
