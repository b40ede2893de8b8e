--------------------------- MODULE CreateOptions ---------------------------
(***************************************************************************)
(* What a Linode instance is created with: newCreateConfig translates the  *)
(* spec of a LinodeMachine, which the webhook admitted, and that of its    *)
(* LinodeCluster to linodego.InstanceCreateOptions, looking up the VPC,    *)
(* the placement group and the firewall they refer to, each of which may   *)
(* not be there yet.  User data and tags are in BootstrapData and          *)
(* TagPropagation, the address on the VLAN is in VlanIPs.                  *)
(***************************************************************************)
EXTENDS Integers, SequencesExt

CONSTANTS
    Plan,       \* the disk of the plan, and the default swap disk, in MB
    Swap,
    Mega,       \* how many of the units that disk sizes are given in are a MB
    DiskSizes,  \* sizes of disks in these units; 0 stands for no disk
    Given       \* the lists of interfaces, by their purpose, a spec may have

ASSUME OptionAssumptions ==
    /\ Plan \in Nat /\ Swap \in Nat /\ Mega \in Nat \ {0} /\ DiskSizes \subseteq Nat
    /\ <<>> \in Given

\* The VPCs that the specs name; 0 is none.
MachineID == 1
ClusterID == 2
MachineRef == 3
ClusterRef == 4
VPCs == {MachineID, ClusterID, MachineRef, ClusterRef}

Subnets(v) == <<[id |-> 10 * v + 1, label |-> "one", ipv6 |-> FALSE],
                [id |-> 10 * v + 2, label |-> "two", ipv6 |-> TRUE]>>

VARIABLES
    spec,       \* the spec of the LinodeMachine and what it takes from the LinodeCluster
    found,      \* the objects that a lookup finds ready: "vpc", "pg", "firewall"
    building,   \* where newCreateConfig is
    config      \* createConfig

optionVars == <<spec, found, building, config>>

\* An interface to create, of either generation.
Interface(p) == [purpose |-> p, subnet |-> 0, ipv6 |-> FALSE, ipam |-> FALSE, firewall |-> FALSE]

NoConfig == [generation |-> "", interfaces |-> <<>>, linodeInterfaces |-> <<>>,
             helper |-> "", privateIP |-> FALSE, boot |-> 0, sized |-> FALSE,
             pg |-> FALSE, firewall |-> ""]

\* A pointer to a Boolean, nil if "".
Optional == {"", "yes", "no"}

NumDevices == 7     \* sdb to sdh

\* dataDisks is nil, or has a size for each of the devices; checked tells whether the
\* webhook found credentials to validate the spec with.
Specs == [generation: {"legacy_config", "linode"}, interfaces: Given, linodeInterfaces: Given,
          vpc: SUBSET VPCs, subnetName: {"", "two", "three"}, vlan: BOOLEAN, ipv6: BOOLEAN,
          firewall: {"", "id", "ref"}, pg: BOOLEAN, privateIP: Optional, networkHelper: Optional,
          osDisk: DiskSizes, dataDisks: {<<>>} \cup [1..NumDevices -> DiskSizes],
          checked: BOOLEAN]

\* A variant that compares each disk with the plan.
validateDisk_Alone(remain, size) == IF size > Mega * Plan THEN -1 ELSE remain

\* A disk must fit in what is left of the plan; -1 once one did not.
validateDisk(remain, size) == IF size > remain THEN -1 ELSE remain - size

\* The root disk and the data disks, in the order of the devices.
Disks(s) == <<s.osDisk>> \o s.dataDisks

validateLinodeMachineDisks(s) == FoldLeft(validateDisk, Mega * Plan, Disks(s)) >= 0

\* A variant that does not look at the private address.
validateLinodeInterfaces_NoPrivateIP(s) == s.interfaces = <<>>

validateLinodeInterfaces(s) == s.interfaces = <<>> /\ s.privateIP # "yes"

\* The specs that the webhook lets in: without credentials it does not ask the API for
\* the plan.  That not both firewalls are given is in the type of the field.
validateLinodeMachineSpec(s) ==
    /\ s.checked => validateLinodeMachineDisks(s)
    /\ ~({MachineID, MachineRef} \subseteq s.vpc) /\ ~({ClusterID, ClusterRef} \subseteq s.vpc)
    /\ s.linodeInterfaces # <<>> => validateLinodeInterfaces(s)

OptionsInit(specs) ==
    /\ spec \in {s \in specs : validateLinodeMachineSpec(s)}
    /\ found = {}
    /\ building = "idle"
    /\ config = NoConfig

-----------------------------------------------------------------------------
\* newCreateConfig goes on, or returns an error and is called again later.
Built(c, next) == config' = c /\ building' = next /\ UNCHANGED <<spec, found>>

Fails == Built(NoConfig, "idle")

\* A variant that leaves the generation as it is when interfaces are given.
linodeMachineSpecToInstanceCreateConfig_AsIs ==
    [NoConfig EXCEPT
        !.generation = spec.generation,
        !.interfaces = [i \in DOMAIN spec.interfaces |-> Interface(spec.interfaces[i])],
        !.linodeInterfaces =
            [i \in DOMAIN spec.linodeInterfaces |-> Interface(spec.linodeInterfaces[i])],
        !.firewall = IF spec.firewall = "id" THEN "id" ELSE ""]

\* The interfaces that the spec gives decide on the generation.
linodeMachineSpecToInstanceCreateConfig ==
    [NoConfig EXCEPT
        !.generation = IF spec.linodeInterfaces # <<>> THEN "linode"
                       ELSE IF spec.interfaces # <<>> THEN "legacy_config"
                       ELSE spec.generation,
        !.interfaces = [i \in DOMAIN spec.interfaces |-> Interface(spec.interfaces[i])],
        !.linodeInterfaces =
            [i \in DOMAIN spec.linodeInterfaces |-> Interface(spec.linodeInterfaces[i])],
        !.firewall = IF spec.firewall = "id" THEN "id" ELSE ""]

\* A variant that rounds down.
ScaledValue_Down(size) == size \div Mega

\* Quantity.ScaledValue(Mega) rounds up.
ScaledValue(size) == (size + Mega - 1) \div Mega

\* The MB that a list of disks takes.
Scaled(disks) == FoldLeft(LAMBDA sum, size : sum + ScaledValue(size), 0, disks)

\* Whether calculateRootDisk has to ask the API for the plan.
NeedsPlan == spec.osDisk = 0 /\ spec.dataDisks # <<>>

\* The size of the root disk: that of osDisk, the API's default without data disks, or
\* what the data disks and the swap disk, which is there without an sdb, leave.
calculateRootDisk(c) ==
    IF spec.osDisk # 0 THEN [c EXCEPT !.boot = ScaledValue(spec.osDisk), !.sized = TRUE]
    ELSE IF spec.dataDisks = <<>> THEN c
    ELSE [c EXCEPT !.sized = TRUE,
                   !.boot = Plan - Scaled(spec.dataDisks)
                            - (IF spec.dataDisks[1] = 0 THEN Swap ELSE 0)]

\* The network helper is for Linode interfaces only and on unless the spec says otherwise,
\* the private address is for the legacy ones unless the spec says otherwise.
fillCreateConfig(c) ==
    calculateRootDisk(
        [c EXCEPT !.helper = IF c.generation # "linode" THEN ""
                             ELSE IF spec.networkHelper # "" THEN spec.networkHelper ELSE "yes",
                  !.privateIP = IF spec.privateIP # "" THEN spec.privateIP = "yes"
                                ELSE c.generation # "linode"])

StartConfig ==
    /\ building = "idle"
    /\ \/ Built(fillCreateConfig(linodeMachineSpecToInstanceCreateConfig), "vpc")
       \/ NeedsPlan /\ Fails     \* GetType fails

\* Which of the two lists the VPC and the VLAN interface are added to.
Linode(c) == c.linodeInterfaces # <<>> \/ spec.generation = "linode"

\* What an interface of the spec takes over from one that was made up.
Merged(given, i) ==
    [given EXCEPT !.subnet = IF i.purpose = "vpc" THEN i.subnet ELSE @,
                  !.ipv6 = @ \/ i.ipv6, !.ipam = @ \/ i.ipam]

\* A variant that always adds an interface.
Placed_Inserted(list, i) == <<i>> \o list

\* The first interface of that purpose is set up, or else a new one is put in front.
Placed(list, i) ==
    LET at == {n \in DOMAIN list : list[n].purpose = i.purpose}
    IN  IF at = {} THEN <<i>> \o list
        ELSE [list EXCEPT ![CHOOSE n \in at : \A m \in at : n <= m] = Merged(@, i)]

Add(c, i) ==
    IF Linode(c) THEN [c EXCEPT !.linodeInterfaces = Placed(@, i)]
    ELSE [c EXCEPT !.interfaces = Placed(@, i)]

\* The VPC to use: an id given for the machine or the cluster, or else a reference.
VPC ==
    CASE MachineID \in spec.vpc -> MachineID
      [] MachineID \notin spec.vpc /\ ClusterID \in spec.vpc -> ClusterID
      [] spec.vpc \cap {MachineID, ClusterID} = {} /\ MachineRef \in spec.vpc -> MachineRef
      [] spec.vpc = {ClusterRef} -> ClusterRef
      [] spec.vpc = {} -> 0

\* The subnets of the VPC that subnetName allows; the first of them is taken.
Eligible == SelectSeq(Subnets(VPC), LAMBDA s : spec.subnetName \in {"", s.label})

\* getMachineIPv6Config: IPv6 ranges only from a subnet that has some.
IPv6Config(subnet) == subnet.ipv6 /\ spec.ipv6

configureVPCInterface ==
    /\ building = "vpc"
    /\ IF VPC = 0 THEN Built(config, "vlan")
       ELSE IF "vpc" \notin found \/ Eligible = <<>> THEN Fails
       ELSE LET subnet == Head(Eligible)
                vpc == [Interface("vpc") EXCEPT !.subnet = subnet.id, !.ipv6 = IPv6Config(subnet)]
            IN  Built(Add(config, vpc), "vlan")

configureVlanInterface ==
    /\ building = "vlan"
    /\ LET vlan == [Interface("vlan") EXCEPT !.ipam = TRUE]
       IN  Built(IF spec.vlan THEN Add(config, vlan) ELSE config, "pg")

configurePlacementGroup ==
    /\ building = "pg"
    /\ IF spec.pg /\ "pg" \notin found THEN Fails
       ELSE Built([config EXCEPT !.pg = spec.pg], "firewall")

\* A variant that does not tell the interfaces.
configureFirewall_InstanceOnly ==
    /\ building = "firewall"
    /\ IF spec.firewall = "ref" /\ "firewall" \notin found THEN Fails
       ELSE Built([config EXCEPT !.firewall = spec.firewall], "done")

\* An id is that of the instance; a firewall that is referred to is given to the Linode
\* interfaces, too.
configureFirewall ==
    /\ building = "firewall"
    /\ IF spec.firewall # "ref" THEN Built([config EXCEPT !.firewall = spec.firewall], "done")
       ELSE IF "firewall" \notin found THEN Fails
       ELSE Built([config EXCEPT !.firewall = "ref",
                                 !.linodeInterfaces =
                      [i \in DOMAIN @ |-> [@[i] EXCEPT !.firewall = TRUE]]], "done")

\* The objects get ready, or are deleted, at any time.
ObjectTurns ==
    /\ building # "done"
    /\ \E o \in (IF VPC = 0 THEN {} ELSE {"vpc"}) \cup (IF spec.pg THEN {"pg"} ELSE {})
                \cup (IF spec.firewall = "ref" THEN {"firewall"} ELSE {}) :
          found' = IF o \in found THEN found \ {o} ELSE found \cup {o}
    /\ UNCHANGED <<spec, building, config>>

OptionsNext ==
    \/ StartConfig \/ configureVPCInterface \/ configureVlanInterface
    \/ configurePlacementGroup \/ configureFirewall \/ ObjectTurns

OptionsTypeOK ==
    /\ spec \in Specs
    /\ building \in {"idle", "vpc", "vlan", "pg", "firewall", "done"}
    /\ config.generation \in {"", "legacy_config", "linode"}

-----------------------------------------------------------------------------
(***************************************************************************)
(* Properties.  Nothing forbids an interfaceGeneration that contradicts    *)
(* the interfaces that are given: the instance is then of the legacy       *)
(* generation, but the VPC and the VLAN are added to its linodeInterfaces. *)
(***************************************************************************)
Contradictory == spec.generation = "linode" /\ spec.interfaces # <<>>

Configured == building = "done"

\* The interfaces that the API takes from the generation.
Effective ==
    IF config.generation = "linode" THEN config.linodeInterfaces ELSE config.interfaces

OfPurpose(p) == SelectSeq(Effective, LAMBDA i : i.purpose = p)

\* The options of an instance mix the two generations of interfaces in two cases only.
\* Both lists are there, or the one that is not of its generation, exactly if the spec is
\* contradictory and there is a VPC or a VLAN to be in; a Linode instance has a private
\* address exactly if the spec asks for one without giving linodeInterfaces, which is
\* where the webhook would refuse it, and a legacy one has none only if the spec says so
\* (linodeMachineSpecToInstanceCreateConfig, fillCreateConfig, validateLinodeInterfaces).
OneGeneration ==
    LET linode == config.generation = "linode"
    IN  Configured =>
          /\ linode => config.interfaces = <<>> /\ config.helper # ""
          /\ ~linode => config.helper = ""
          /\ (~linode /\ config.linodeInterfaces # <<>>)
               <=> (Contradictory /\ (VPC # 0 \/ spec.vlan))
          /\ (linode /\ config.privateIP)
               <=> (linode /\ spec.privateIP = "yes" /\ spec.linodeInterfaces = <<>>)
          /\ (~linode /\ ~config.privateIP) <=> (~linode /\ spec.privateIP = "no")

\* An instance of a cluster with a VPC or a VLAN is in it, once: whether the interface is
\* one of the spec or added, and whichever lookups failed before, the first interface of
\* that purpose has the subnet or the address, the one subnet that subnetName allows,
\* an IPv6 range only if the subnet has some, and none is there twice.  With a
\* contradictory spec it is in no network that the spec does not give an interface for.
InTheNetwork ==
    LET given == spec.interfaces \o spec.linodeInterfaces
        Count(p) == Len(SelectSeq(given, LAMBDA x : x = p))
        Expected(p, wanted) ==
            IF wanted /\ ~Contradictory /\ Count(p) = 0 THEN 1 ELSE Count(p)
    IN  Configured =>
          /\ Len(OfPurpose("vpc")) = Expected("vpc", VPC # 0)
          /\ Len(OfPurpose("vlan")) = Expected("vlan", spec.vlan)
          /\ Len(OfPurpose("public")) = Count("public")
          /\ (VPC # 0 /\ ~Contradictory) => \E s \in ToSet(Subnets(VPC)) :
                 /\ Head(OfPurpose("vpc")).subnet = s.id
                 /\ spec.subnetName \in {"", s.label}
                 /\ Head(OfPurpose("vpc")).ipv6 => s.ipv6
          /\ (spec.vlan /\ ~Contradictory) => Head(OfPurpose("vlan")).ipam

\* A machine with a firewallRef is behind the firewall with all of its Linode interfaces,
\* those included that were added for the VPC and the VLAN.
BehindFirewall ==
    (Configured /\ spec.firewall # "") =>
        /\ config.firewall = spec.firewall
        /\ spec.firewall = "ref" => \A i \in ToSet(config.linodeInterfaces) : i.firewall

\* Whatever the machine and the cluster ask for together, the network of the instance
\* is of one generation, has what was asked for once, and is behind the firewall, but for
\* the contradictory specs and the private addresses that OneGeneration names.
NetworkAsAsked == OneGeneration /\ InTheNetwork /\ BehindFirewall

\* The disks fit on the plan, up to rounding: the root disk of a spec with an osDisk that
\* the webhook checked and its data disks exceed the plan by less than a MB for each but
\* one, as the webhook adds up the sizes and the API is sent each one rounded up.  A root
\* disk that calculateRootDisk chooses is what the data disks and the swap disk leave, to
\* less than a MB for each data disk; it is not positive if they leave nothing, as the
\* webhook asks for no room for it (validateDisk, ScaledValue, calculateRootDisk).
DisksFit ==
    LET given == SelectSeq(Disks(spec), LAMBDA size : size > 0)
        sum == FoldLeft(LAMBDA x, y : x + y, 0, given)
        swap == IF NeedsPlan /\ spec.dataDisks[1] = 0 THEN Swap ELSE 0
        left == Mega * (Plan - swap) - sum
    IN  (Configured /\ config.sized) =>
          /\ (spec.osDisk # 0 /\ spec.checked) =>
                 config.boot + Scaled(spec.dataDisks) <= Plan + Len(given) - 1
          /\ spec.osDisk = 0 =>
                 /\ Mega * config.boot <= left
                 /\ given # <<>> => left < Mega * (config.boot + Len(given))
                 /\ given = <<>> => Mega * config.boot = left

=============================================================================
