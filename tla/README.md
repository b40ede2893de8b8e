# A TLA+ model of the Cluster API Provider for Linode

The Cluster API Provider Linode (CAPL) is a set of Kubernetes controllers. Each
one watches a kind of custom resource (LinodeMachine, LinodeCluster, LinodeVPC,
LinodeFirewall, ...) and makes the Linode API agree with it. This directory
holds TLA+ modules that model these controllers step by step, TLC
configurations that check them on small instances, and proofs that the TLA+
proof system (TLAPS) checks for instances of every size.

    tlc -workers 2 -config LinodeMachine_safety.cfg MCLinodeMachine
    tlapm LinodeMachineProofs.tla

`PROJECT.json` lists the parts of the system, the runs, the source lines behind
every definition, the hazards that the properties are about, and, for every
property, a mutant: a plausible bug that makes TLC find the property violated.

## The system

### How the parts interact

All controllers run in one process (`cmd/main.go`) and have the same shape:

1. A watch event puts the name of an object into the controller's work queue.
   Up to ten workers reconcile different objects at the same time, never the
   same object twice. An error, or a result with `RequeueAfter`, queues the
   object again; an empty result does not.
2. A reconcile reads the object from the informer cache, which may lag behind
   the API server, and works on that copy (the *scope*).
3. It calls the Linode API one request after the other. A request may fail
   before or after it was served, and the code divides the errors into
   retryable ones, ignored ones and the rest.
4. On return a deferred `Close` writes the copy back with Cluster API's patch
   helper: a merge patch against the copy taken at the start, sent as three
   requests (conditions, object, status), any of which may fail.
5. Finalizers keep an object, and the Secret with its credentials, until the
   cloud resource is gone.

Only two things are remembered in memory across reconciles, and lost with the
process: the POST rate limit counters and the lists of VLAN addresses.
Everything else is in the objects, and the questions about this code are mostly
what an object says, at any time, about the resource it stands for.

The objects depend on each other. Machines and clusters wait for the VPC and the
firewall they reference; a cluster puts the addresses of its control plane
machines into its NodeBalancer or DNS records, and outlives those machines; a
bucket holds the access key it needs for its deletion; a machine template pushes
changes to the machines cloned from it.

### Inventory

| Part | Source | State | Operations | Modelled by |
|---|---|---|---|---|
| LinodeMachine controller | `internal/controller/linodemachine_controller*.go` | ProviderID, DiskIDs, conditions, InstanceState, addresses | create (firewall, VPC, metadata, instance, disks, boot, ready), update, delete | `LinodeMachine` |
| Create options | `newCreateConfig` and its helpers, the machine webhook | none | validate, assemble | `CreateOptions` |
| Bootstrap data | `resolveBootstrapData`, `cloud/services/object_storage_objects.go` | objects in up to two stores | choose the delivery, upload, clean up | `BootstrapData` |
| Tags and firewall of instances | `linodemachinetemplate_controller.go`, `reconcileUpdate`, `getTags`, `reconcileFirewallID` | tags in template, machine, statuses and instance | copy to the machines, merge into the instance | `TagPropagation` |
| Credentials | `cloud/scope/common.go` and the scopes | finalizers on Secrets | hold, release, read the token | `LinodeMachine`, `LinodeCluster`, `Reconciler` |
| POST rate limiter | `util/ratelimits.go` | counter and lock per token | check, response hook, retry time | `PostRateLimit` |
| VLAN addresses | `util/vlanips.go` | list of addresses per cluster | get next, rebuild, drop | `VlanIPs` |
| LinodeCluster controller | `internal/controller/linodecluster_controller*.go` | endpoint, NodeBalancer and configuration ids, conditions | preflight checks, load balancer, nodes, delete | `LinodeCluster`, `DomainRecords` |
| NodeBalancer service | `cloud/services/loadbalancers.go` | NodeBalancers, configurations, nodes | ensure, add nodes, delete nodes | `LinodeCluster` |
| DNS service | `cloud/services/domains.go` | A, AAAA and TXT records at Linode or Akamai | ensure, remove stale ones, check the owner | `DomainRecords` |
| LinodeVPC controller | `internal/controller/linodevpc_controller*.go` | VPCID, subnet ids, Retain | adopt or create, update subnets, delete or retain | `LinodeVPC` |
| LinodeFirewall controller | `internal/controller/linodefirewall_controller*.go` | FirewallID, rules | create, adopt, update rules, delete | `LinodeFirewall`, `FirewallRules` |
| LinodePlacementGroup controller | `internal/controller/linodeplacementgroup_controller*.go` | PGID, members | create, wait for members, delete | `LinodePlacementGroup` |
| Object storage keys | `linodeobjectstoragekey_controller.go`, `cloud/services/object_storage_keys.go` | AccessKeyRef, key generations, generated Secret | create, rotate, restore the Secret, revoke | `ObjectStorage` |
| Object storage buckets | `linodeobjectstoragebucket_controller.go`, `cloud/services/object_storage_buckets.go` | bucket, finalizer on the key | ensure, update, empty and delete | `ObjectStorage` |
| Webhooks | `internal/webhook/v1alpha2/` | none | validate one object | `CreateOptions` (the machine's) |
| Clients, tracing, mocks, API types, generated code | `clients`, `observability`, `mock`, `api` | none | none | no behaviour of their own |

## The modules

### LinodeMachine

The variables are the places where a machine is stored: `obj` (API server),
`seen` (cache), `base` (the patch helper's copy), `scope` (the copy a reconcile
works on). `inst` holds the instances at the Linode API, `secret` the
credentials Secrets, `pc` where each reconcile is. A reconcile is a sequence of
actions with one API call each, named after the functions they model:
`Reconcile`, `AddFinalizer`, `Dispatch` (the switch of `reconcile`),
`AddCredentialsRefFinalizer`, the `reconcilePreflight...` steps,
`createInstance`, `createDisks`, `reconcileUpdate`, `reconcileFirewallID`,
`reconcileDelete`, `RemoveCredentialsRefFinalizer` and `Close`. Between any two
of them another machine's reconcile, a user, the cache, the API or a crash may
act. An update of the stored object reaches the controller with `CacheSync`, and
queues the machine only if it passes the event filter of `SetupWithManager`
(`PassesFilter`).

Each API call may fail with a retryable error, with another error
(`retryIfTransient` then ends a step *without* an error, and the code carries
on: so does the model), or be served with its reply lost. `Close` may lose any
part of the patch. `faults` remembers what hit a machine, so that a property can
say which fault it does not survive; `budget` bounds how many there are.

Abstracted: which options an instance is created with, its user data and its
tags, which have modules of their own (`CreateOptions`, `BootstrapData`,
`TagPropagation`); time-outs are a choice between waiting and giving up.

### PostRateLimit

The critical section of `createInstance`: `GetPostReqCounter` takes the lock,
`CheckLimit` reads the counter, `CreateInstance` sends the POST and
`ApiResponseRatelimitCounter` stores what the response's headers say before the
lock is released. Time is relative: `Tick` lowers every time by one, so that the
state space is finite without a bound on the clock. The clock may move between
`IsPOSTLimitReached` and `RetryAfter`, which read it separately.

### VlanIPs

Several machines of one cluster take their VLAN address from a list in memory.
The two locks of `GetNextVlanIP` make two steps (`getClusterIPs`, `getNextIP`),
between which `DeleteClusterIPs` may drop the list. Of the machine controller it
keeps what decides about addresses: each attempt takes a new one, the instance
keeps the one of its creation, the status gets the one the instance reports.
Lists have identities (`Lists`), since a reconcile may hold one that was dropped;
a new list takes one that nothing refers to, so that one more than there are
machines is always enough.

### LinodeCluster

One LinodeCluster with load balancer type NodeBalancer and the LinodeMachines of
its control plane, which appear, get addresses and go. Its reconcile is divided
like that of `LinodeMachine`; `EnsureNodeBalancerConfigs` creates one
configuration a step, `AddNodesToNB` one node a step, both in any order of the
ports or machines. `DuplicateNodes` says whether the API accepts a node whose address
is taken, which the source does not tell: the runs cover both answers.

### Reconciler and ManagedResource

`Reconciler` is what the controllers of the smaller resources share: the cached
copy (`seen`), the scope and the patch base, the work queue, the patch helper with
its requests for object and status (`ClosePatch`; conditions, which these
controllers do not read, are left out), `AddFinalizer`, the finalizer on the credentials
Secret, and what happens around them (`CacheSync`, `Crash`, `Wakeup`, deletions by
the user). The modules of the controllers extend it; an object is named by its kind.
`faults` has, besides faults, notes about what the code did ("dropped": an error
that `retryIfTransient` drops), so that a property can name its exceptions.

`ManagedResource` is the abstract specification of such a controller: an object is
present, being deleted or gone; at most one resource is created for it, none for one
that is gone; and the object goes only when its resource is gone. Two flags record
the disturbances that the code does not make good. `LinodeVPC`,
`LinodePlacementGroup` and `LinodeFirewall` each give a refinement mapping
(`VPCResource`, `PGResource`, `FWResource`) that says which faults set the flags.

### LinodeVPC, LinodePlacementGroup, LinodeFirewall and FirewallRules

One object each, one API call a step. A VPC is looked up by id or label before it is
created, its subnets are adopted or created one by one, and instances attach and
leave meanwhile. A placement group is read before it is deleted and may get members
in between. A firewall is created, enabled and given its rules; the user edits the
spec, an AddressSet, a FirewallRule and an AddressSet behind that rule, of which the
controller watches the first three. `FirewallRules` has the assembly of the rules as
operators: CIDR notation, duplicates, pieces of `MaxIPsPerRule` addresses
(`chunkIPs`), at most `MaxRules` of them. `Covered` and `WithinLimits` say
independently what the API lets through and accepts.

### ObjectStorage

The key and the bucket controller with one object each, since the bucket's controller
writes a finalizer into the key object and uses its access key. Access keys are
made for a generation, rotated and revoked; the generated Secret may be in another
namespace, where it has no owner, and with a format it is made only once the bucket can
be read (`KeyForms`). A bucket is adopted or created, updated, and, with
forceDeleteBucket, emptied and deleted.

### DomainRecords

The DNS records of one cluster at either provider. The reconcile lists the machines,
builds `dnsEntries` (addresses by age, the TXT record last), removes stale records and
then ensures or deletes the entries one by one. Machines appear, turn ready and
unready, and go between any two calls. An IPv6 address is written with "::" in the status
of a machine and with ":0:0:" by Edge DNS, and the code replaces one by the other before it
compares (`Target`, `EdgeTarget`, `Replace`); that this is exact, as it is for the addresses
Linode gives out, with two groups of zeros, is assumed. Records have no copy in Kubernetes, so
a pass that stops in between leaves what it has done to the next one.

### TagPropagation

A template, the machines cloned from it and their instances. The template's controller
compares its spec with its own status and copies what differs; the machine's loop
merges `getTags` of what it read into the instance and then sets the firewall. Each
call may fail, with an error that is retried or, in `GetInstance`, with one that is not.

### BootstrapData

One machine from `resolveBootstrapData` to the clean-up: data below the limit is sent
as it is, compressed data if that fits, else the object goes to the first of up to two
stores that takes it. The user edits the references to the stores meanwhile.

### CreateOptions

`newCreateConfig` over every admitted spec of a bounded set: the two generations of
interfaces, a VPC from four places, a VLAN, IPv6, private address and network helper, the
firewall, the placement group and up to eight disks, whose sizes are in units smaller than
the megabytes of the API. A spec may have been admitted without a look at the plan, when
the webhook had no credentials. A lookup that does not find its object ends the attempt, and the next one
starts from the spec.

### How the modules fit together

The machines of `LinodeCluster` stand for those of `LinodeMachine` (state "up"
is `addresses` there), and the creations of `VlanIPs` and `PostRateLimit` for
its step `createInstance`; `CreateOptions`, `BootstrapData` and `TagPropagation`
detail what that step and `reconcileUpdate` send. "VPC ready" in `LinodeMachine` and
`LinodeCluster` is what `LinodeVPC` comes to, and so for the firewall. They are
separate specifications because each adds detail at a point where the others need
none. Modules that share no state are instantiated together: `MCResources` has
behaviours of `LinodeVPC`, of `LinodePlacementGroup`, of `LinodeFirewall` and of
`ObjectStorage`, `MCServices` of `DomainRecords`, `TagPropagation`, `BootstrapData`,
`CreateOptions` and `PostRateLimit`.

## What is checked

All runs finish within four minutes on two cores.

| Run | Instance | Distinct states | Shows |
|---|---|---|---|
| machine_safety | 1 machine, 2 instance ids, 2 disks, every kind of error and fault, at most 2 of them | 449,000 | `TypeOK`, `NoOrphan`, `OneDiskPerDevice`, `CredentialsHeld`, `DisksBeforeBoot`, `StateComplete`, `ProviderIDStable` |
| machine_pair | 2 machines with different labels, 2 ids, one lost reply | 1,550,000 | `ProviderIDHasLabel` |
| machine_liveness | 1 machine, 1 disk, one transient error, lost reply, crash or stale read | 45,500 | `EventuallyReady`, `EventuallyGone` |
| machine_preflight | as machine_safety, one fatal error | | violates `PreflightDone` |
| vlan_safety | a control plane machine and a worker, 3 lists, 3 faults | 1,490,000 | `AddressIsReal`, `UniqueUnlessLost` |
| vlan_crash | 2 machines, 1 crash | | violates `UniqueVlanIP` |
| cluster_faults | 1 machine, 2 NodeBalancer ids, 2 ports, VPC, any 2 errors or faults | 1,770,000 | `NoOrphanNodeBalancer`, `EndpointSound`, `EventuallyReady`, `EventuallyGone` |
| cluster_balance | 2 machines, 1 port, firewall, one error, stale read or lost event | 1,500,000 | `EventuallyBalanced`, `EventuallyPruned`, `NodeKept`, `NoMachineLeft` |
| cluster_node | 1 machine, 2 ports, no fault | | violates `NodeOnce` |
| resources | a VPC with 2 subnets, a placement group, a firewall with 4 sources of addresses, or a key with a bucket; 2 ids each, 4 access keys, one error or fault | 429,000 | `ResourcesImplemented`, `CredentialsHeld`, `SubnetsKept`, `Retained`, `KeysAccounted`, `EventuallyReady`, `EventuallyGone` |
| bucket_key | a key with a bucket, no fault | | violates `KeyOutlivesBucket` |
| services | see the bounds below | 601,000 | `NoRecordLeft`, `DeletionsGuarded`, `RecordsConverge`, `ManualTagsKept`, `TagsFollow`, `UserDataUsable`, `ObjectNotLeft`, `EventuallyJoined`, `NetworkAsAsked`, `DisksFit`, `RefusedOncePerFault`, `EventuallyCreated` |

Some properties are conjunctions of one statement for each kind of object, which are
defined and commented where the object is:

- `ResourcesImplemented`: `VPCImplements`, `PGImplements`, `FWImplements`, the refinements
  of `ManagedResource`.
- `CredentialsHeld` of `MCResources`: `VPCCredentials`, `PGCredentials`,
  `FWCredentials`, `SecretReleased`; `Retained`: `VPCRetained`, `BucketRetained`.
- `EventuallyReady` and `EventuallyGone` of `MCResources`: one of each for the VPC, the
  placement group, the firewall, the key and the bucket.
- `KeysAccounted`: `AccessKeysAccounted`, `SecretNotLeft`; `EndpointSound`:
  `EndpointComplete`, `NeverExternalised`; `DeletionsGuarded`: `InServiceKept`,
  `OwnershipLast`; `RecordsConverge`: `EventuallyCurrent`, `EventuallyReleased`;
  `TagsFollow`: `TagsPropagated`, `TagsRemoved`; `UserDataUsable`: `UserDataFits`,
  `ObjectAvailable`; `NetworkAsAsked`: `OneGeneration`, `InTheNetwork`,
  `BehindFirewall`.

Every conjunct is broken by a mutant in `PROJECT.json`, not only the conjunction;
`Balanced_NoConfigIDs` breaks both halves of `EndpointSound`.
The type invariants of the modules other than `LinodeMachine` are not part of a run;
to add one to a `.cfg` is the first thing to do when a module is changed.

In `cluster_faults` the API refuses duplicate nodes, in the other cluster runs it
accepts them.

### Where the code and its comments disagree

- **machine_preflight.** `reconcileCreate` sets InstanceState "to signal preflight
  process is done" also when a step of the preflight failed with an error that is
  not retryable: `retryIfTransient` returns neither an error nor a requeue, and the
  failed step is never tried again.
- **vlan_crash.** `GetNextVlanIP` "returns the next available IP", but after a
  restart it does not know the address of an instance whose status was not patched.
- **cluster_node.** Nodes are created "if the IP:Port combination does not exist",
  but the nodes of additional ports are looked for in the API server's
  configuration and are created again in every reconcile.
- **bucket_key.** "It's critical to add the access key finalizer, or else the access key
  could be deleted before the associated bucket with its contents deleted." The finalizer
  of the bucket keeps the LinodeObjectStorageKey, but not the access key: once the object
  is to be deleted, the first reconcile of its own controller revokes the key, whatever
  finalizers it has. That controller's patch of the finalizers may also lose the bucket's,
  which it has not read yet. A forced deletion of the bucket then fails for good
  ("dropped" in `BucketEventuallyGone`).

Other observations show up as exceptions that a property has to name:

- `EnsureNodeBalancerConfigs` looks only for an id in the spec, which is written after
  the last configuration was created. After an error in between, the first one is
  created again, which the API refuses from then on (`EventuallyReady` of
  `LinodeCluster`, "config"). A NodeBalancer that someone else deletes before the cluster
  is ready is not replaced either, since its id stays in the spec ("outOfBand").
- The merge patch of a LinodeVPC sends the whole list of subnets and overwrites one
  that the user added meanwhile (`SubnetsKept`, "overlap").
- An AddressSet that only a FirewallRule refers to is not watched
  (`FWEventuallyCurrent`, "nested"), and an adopted firewall keeps its rules until the
  next edit ("adoptedOld").
- A LinodeFirewall that is deleted before it has an id keeps its finalizer on the
  Secret (`SecretReleased`, "keptSecret").
- A LinodeObjectStorageKey that is deleted before it has an access key, or whose Secret
  in another namespace is missing, does not go (`KeyEventuallyGone`, "noKey",
  "noSecret").
- A machine that is cloned while the status of its template is out of date may keep its
  old tags (`TagsPropagated`, "unrecorded"), and after a failed `UpdateInstance` a
  tag to be removed is forgotten (`TagsRemoved`). If the last `GetInstance` of a machine
  fails with an error that is not retryable, nothing reconciles it again, and its instance
  keeps what it has (`TagsPropagated`, "dropped").
- The webhook adds up the disks in bytes, `calculateRootDisk` rounds each one up to
  megabytes: what an admitted spec asks for may exceed the plan by up to one megabyte less
  than it has disks, although "the total size of these disks + the OS Disk cannot exceed
  the linode instance plan size". Without osDisk the root disk gets what the data disks
  leave, which may be nothing or less (`DisksFit` says exactly how much it is).
- "Linode Interfaces do not support private IPs", but the webhook looks only at
  `linodeInterfaces`: with interfaceGeneration linode alone, privateIP is sent. Interfaces of
  one generation in the spec together with interfaceGeneration of the other mix both
  when a VPC or a VLAN is added (`OneGeneration`).
- The error of the clean-up of bootstrap data is only logged (`ObjectNotLeft`,
  `uncleaned`).

### What the named faults mean

Several properties hold except after particular faults, and say which. This is what the
code can promise: an instance whose creation was answered to nobody is adopted
by its label in the next attempt, but not if the machine is deleted first
(`NoOrphan`); a second disk can only come from a lost answer, patch or an
outdated copy (`OneDiskPerDevice`); and so on. The mutants show that without a
fault the properties depend on the code.

### Bounds

- *Errors, faults and out-of-band changes* are bounded together by `MaxFaults`.
  One is enough for all violations found; two let one hit the recovery from the
  other (a lost patch followed by a stale read, say). The exception that
  `EndpointComplete` names takes three, which only the proof covers.
- *Ids of instances, NodeBalancers, VPCs, placement groups and firewalls*: two, so that
  a second one can be created while the first one exists. When both are used, the API
  serves no further creation. *Access keys*: four, which the
  creation, a rotation and the repeats after a lost answer do not use up.
- *Disks*: two in the safety run, so that an error can fall between two of them.
- *Machines*: reconciles of different machines share only the Linode account, the
  counter and the address list. Two machines make every conflict about labels
  and addresses and every order of DNS records, three overrun a limit of two.
- *Window and second*: a window of four ticks and a second of two let the clock
  move at every point of the critical section.
- *Subnets*: one of the spec, one that the user adds, which is to be retained.
- *Addresses of a firewall*: three IPv4 hosts, one in two notations, and an IPv6 host,
  in each of four places; pieces of two and at most four rules, so that there are full
  and short pieces and too many of them. One edit (`MaxEdits`).
- *Behaviours of ObjectStorage* start with both objects new and no fault, with a new key
  whose bucket was retained, or with a new bucket object for a key that has been made;
  one change of a spec (`MaxChanges`).
- *Records*: two machines, three changes of readiness (`MaxFlaps`), one failing call
  (`MaxErrors`).
- *Tags*: one machine, one tag, two edits of the template, one fault.
- *Bootstrap data*: a limit of 3 and sizes below, at and above it; two faults, one edit.
- *Create options*: every combination of generation, four lists of interfaces for each
  generation, the places that name a VPC, subnet name, VLAN, IPv6 and firewall; every
  combination of generation, interfaces, VLAN, privateIP and networkHelper, each absent, on
  or off; and disks of 0.7, 1.1, 1.8 and 4 MB (`DiskSizes`, in tenths of a MB, `Mega`) on
  a plan of 4 MB with a swap disk of 1, as osDisk and on three of the seven devices.

### Fairness

- A reconcile goes on and `CacheSync` happens (weak fairness): workers and
  informers run as long as the process does. A crash is followed by a restart,
  which lists all objects.
- A requeue is served: `RequeueAfter` and the rate limited queue use timers.
- An instance that was booted gets to run, cloud-init reads its data, and time passes.
- In `PostRateLimit` the lock is granted fairly (strong fairness): Go's
  `sync.Mutex` hands itself to a waiter that has starved for a millisecond.
- In `LinodeCluster` new machines get addresses, the events of machines arrive
  unless `lostEvent` takes them, and the machines of a deleted cluster are deleted,
  which Cluster API does.
- In `ObjectStorage` each controller has its own worker and informer (`MCResources`). The
  bucket's two writes to the key object are strongly fair: an update that
  meets an outdated copy is retried, while the key's own retries get rarer, so that the
  copy is current sooner or later.

Not fair: users, errors and faults, events of owner objects (`Wakeup`), machines of
`DomainRecords`. The events of owners matter: periodic resyncs would hide a missing
requeue.

## What is proved

TLAPS checks these for every value of the constants that satisfies the named
assumptions `MachineAssumptions`, `ClusterAssumptions`, `VlanAssumptions`,
`LimitAssumptions`, `BootstrapAssumptions`, `ReconcilerAssumptions`, `PGAssumptions` and
`VPCAssumptions`.

The proofs about the machine and the cluster controller have the same plan. The
type invariant and `Course`, which says what a reconcile has behind it at each of its
places, are proved first. Then each action is reduced to its *effect*, a predicate
that says what it does to the copies of the object (`obj`, `seen`, `base`,
`scope`) and to the resource, and no more (`Begins`, `Closes`, `Dies`, ...). The
invariants are proved from the effects, one case each, and never look at the
actions again.

`LinodeMachineProofs`:

- `TypeCorrect`: `Spec => []TypeOK`.
- `ProviderIDCorrect`: `Spec => []ProviderIDHasLabel`. The invariant speaks of
  all four copies, because a ProviderID travels from scope to obj to seen to base;
  together with `TypeOK` it is inductive. The lemmas reduce the actions to what
  they can do to one variable: a step changes one instance and keeps its label
  (`InstanceStep`), puts into a scope an object whose ProviderID is the one it had,
  none, or an instance with the machine's label (`ScopeStep`), and stores an object
  whose ProviderID comes from the stored one or the scope (`ObjectStep`, with
  `PatchedObject` for the merge of the three parts).
- `InstancesNotShared`: `Spec => []NoForeignInstance`, which follows.

`LinodeMachineInstanceProofs`:

- `CourseOfReconcile`: `Spec => []Course`, and `ReconcileInSync`: `Spec => []Sync`.
  A reconcile that read the current object patches the object it read: until its
  `Close` nobody stores anything in it but the mark of deletion. Most of what
  the properties below except under "stale" is what `Sync` loses then.
- `NoInstanceOrphaned`: `Spec => []NoOrphan`. `NoOrphan` speaks of the moment when an
  object is gone; the invariant `Tracked` of all the moments before: a live instance is
  the one that the stored object or the running reconcile names, and whatever names
  one has the finalizer.
- `DisksCreatedOnce`: `Spec => []OneDiskPerDevice`, from `Counted`: the DiskID of every
  disk that exists is kept in the scope or in the stored object.
- `CredentialsKept`: `Spec => []CredentialsHeld`, from `Held`: where a reconcile creates
  or still has an instance, the Secret is held, and at the release the stored
  ProviderID names nothing that is live.
- `DisksCompleteAtBoot`: `Spec => []DisksBeforeBoot`, from `Booted`: a copy whose
  conditions say that the disks are done names an instance that has them.
- `StatusComplete`: `Spec => []StateComplete`, from `AllWhole`, which relates the
  copies as well: a merge patch of a stale copy must not take from the stored one what
  its conditions speak of.
- `ProviderIDNotReplaced`: `Spec => ProviderIDStable`, an action property, from
  `Replaced` and from `OneLive`: the API refuses a label that is taken, so that even a
  stale reconcile comes back to the instance that the stored object names.

`LinodeClusterProofs`:

- `TypeCorrect` and `CourseOfReconcile`, as for the machine.
- `EndpointIsSound`: `Spec => []EndpointSound`. The inductive invariant `EndpointInv` adds
  to it that the cached copy and the patch base are behind the stored cluster
  (`Ordered`), that at most one NodeBalancer is live (`OneLive`), that a NodeBalancer whose
  id was cleared for deletion is gone (`Cleared`), what an attempt at the
  configurations has reached (`Attempt`), and that a reconcile which read the current
  cluster patches that one (`Current`).
- `NodeBalancerNotOrphaned`: `Spec => []NoOrphanNodeBalancer`, from `Tracked`.
- `MachinesAreKnown`: `Spec => []MachinesKnown`. Machines come up once and go once, so
  a list of them is never ahead: a machine that has a node was up when it got it, and is
  up or gone in every later list.
- `NodesAreKept`: `Spec => NodeKept`, and `MachinesGoFirst`: `Spec => NoMachineLeft`, action
  properties that follow from `MachinesKnown`: a node is removed only if the list does
  not have its machine as up, which by the invariant means that it is gone; a cluster
  is released only with an empty list, which by then nothing can make outdated, since
  no machine is created once the deletion is known.

`VlanIPsProofs`:

- `TypeCorrect`: `Spec => []TypeInv`. The lists are finite, and a reconcile has a list where
  it takes an address; without both, the types are not inductive.
- `AddressesAreReal`: `Spec => []AddressIsReal`. The danger is an address in some copy that
  outlives its instance into the creation of the next one. `MachineInv` excludes it: the
  phases of the copies are in order (`Ordered`), an instance only goes after the
  deletion was read, and until it is, no copy has an address without an instance
  (`Truthful`).
- `AddressesUnique`: `Spec => []UniqueUnlessLost`, from `AddressInv`: a machine in creation
  holds the present list (`Sourced`), the address of each instance is in the list, or in
  the cache while there is none (`Known`), and no two machines claim the same one, for
  an instance or in a createConfig (`Distinct`). Machines whose object is gone are
  left out of `Known`: their address may be forgotten by then.

The attempts at the proofs changed four properties, whose counterexamples
need more faults, or more machines, than the runs had:

- `DisksBeforeBoot` excepted only the faults of the machine that created the instance;
  another machine with the same label may adopt it, so that its faults count too.
- `EndpointComplete` had no exception. If a reconcile of an outdated copy meets a
  NodeBalancer that was deleted out of band, it creates another one; when one of its
  configurations fails, the new id is stored in a spec that has the endpoint
  already, and the next reconcile takes it for complete.
- `VPCRetained` recognised a deletion out of band by the fault it notes, which a second
  one of the same VPC does not add again; it now names the action `OutOfBandVPC`.
  `BucketRetained` left out every step that is charged to the bound on faults, a deletion
  by the controller whose reply is lost among them; it now names `OutOfBandBucket`.

`PostRateLimitProofs`:

- `LimiterTypes`: `Spec => []TypeOK`.
- `RefusalsBounded`: `Spec => []RefusedOncePerFault`, for any number of machines,
  limit and window. The bound is not inductive. The strengthening `IInv` says in
  addition: only the owner of the lock is in the critical section (`Critical`); a time
  in the future that the controller knows is the end of the current window
  (`Current`); when the API has no request left, the controller knows, is about
  to learn it, or a fault has not been paid for yet (`Counted`).
- `WaitsLongEnough`: `Spec => []TurnedAwayOnce`, from the conjunct `Waiting`: a
  machine that was turned away waits until after the end of the window.

`BootstrapDataProofs`:

- `UserDataStaysUsable`: `BootSpec => []UserDataUsable`, from `DeliveredDataFits` and
  `DataStaysAvailable`, for every limit, size, number of faults and edits.
- `DataIsSwept`: `BootSpec => []ObjectNotLeft`.
- The inductive invariant `IInv` adds what the phases of the reconcile know
  (`Phases`: objects are only removed when the node has joined or the machine is being
  deleted), that the URL on its way to the instance is that of an object that is there
  (`Available`), and that the sweep has emptied the stores it has passed (`Swept`).

`LinodePlacementGroupProofs`:

- `PlacementGroupImplements`: `PGSpec => PGImplements`, the refinement of
  `ManagedResource` by the placement group controller, where `PGSpec` is the part of
  the behaviours of `MCResources` that is about a placement group.
- It rests on `InvariantHolds`. The inductive invariant says that a reconcile comes to
  the creation only when there is no group (`Alone`); that the finalizer is given up
  only by a reconcile that knows of the deletion, so that one that was read is
  otherwise still stored (`Known`), which keeps even a reconcile of an outdated copy
  from creating a group for an object that is gone; and, unless one of the four
  faults hit the object, that the only group is the one that the stored object, or the
  copy of the running reconcile, names and holds (`Recorded`).
- A step of the reconcile that stores nothing is described once (`Continues`), and so is
  what a patch does (`IsPatch`); the actions are reduced to these.
- `CredentialsHeldForGroup`: `PGSpec => [](PGCredentials /\ SecretReleased)`. The inductive
  `SecretInv` says that the Secret is taken after the object has its finalizer and
  released before it gives it up (`SecretFirst`), and that a reconcile that looks for a
  group, makes one or has one holds the Secret (`SecretForGroup`).

`LinodeVPCProofs`, with `VPCSpec` for the part of the behaviours of `MCResources` that is
about a VPC:

- `VPCControllerImplements`: `VPCSpec => VPCImplements`, from the same kind of invariant as
  for the placement group. In addition to `Known` and `Recorded` it says that, unless a
  VPC is deleted out of band, an id names a VPC that exists until a reconcile knows of the
  deletion (`Existing`): otherwise `reconcileVPC` would look for the label of a VPC that it
  has, or create a second one.
- `SubnetsStay`: `VPCSpec => []SubnetsKept`. `SubnetInv` says of every copy that it lists no
  subnet but the user's, and of the stored object and the running reconcile's copy that
  they list all of them: a patch sends the whole list, so both have to.
- `RetainedVPCsStay`: `VPCSpec => VPCRetained`, an action property. `Spared` says of one VPC
  that a step neither deletes it nor takes a subnet from it, and holds of all steps but the
  two that delete, `deleteVPCResources` and `handleRetainedSubnets`; these are reached only
  as the object's deletion and its field Retain say.
- `CredentialsHeldForVPC`: `VPCSpec => [](VPCCredentials /\ SecretReleased)`, from `SecretInv`
  as for the placement group, for a VPC that the controller made and does not retain.

Only model-checked:

- Liveness, which needs fairness and ENABLED, out of the prover's reach.
- The firewall's part of `ResourcesImplemented` and of `CredentialsHeld`, the bucket's part
  of `Retained`, and `KeysAccounted`: safety properties that could be
  proved along the same lines, but are not yet.
- `NoRecordLeft` and `DeletionsGuarded` of `DomainRecords`, whose entries are built by folding
  over sequences, and `NetworkAsAsked` and `DisksFit` of `CreateOptions`, which
  are about what such functions compute: induction over data.
- `ManualTagsKept` of `TagPropagation`.

## Not modelled

- Paused objects, FailureReason and messages, events for users, metrics: they change
  nothing that another step reads.
- Two processes at the same time. The flag `--leader-elect` is off by default, but
  the manifest in `config/manager` sets it and asks for one replica.
- The end of the VLAN address range (2^24 addresses).
- Two clusters with the same name in different namespaces, which share the label
  of their NodeBalancer, and two clusters with the same subdomain.
- Conflicts of resource versions: the patches of object and status carry none, and
  the patch helper itself tries the one of the conditions again. The bucket's updates
  of the key object do carry one, and are modelled with it.
- A NodeBalancer configuration whose id the user puts into the spec, which
  `EnsureNodeBalancerConfigs` reads and does not create.
- Which subnet, address and firewall a NodeBalancer gets, address ranges of VPCs and
  subnets, ports, protocols and policies of firewall rules, the layout of the generated
  Secret: data that no control flow depends on once the API accepted it.
- In `TagPropagation` the firewallRef of a template, which is copied like the
  firewall id, outdated cached machines, and a failure to list the machines.
- The webhooks other than the machine's: stateless checks of single objects against
  names, regions and ranges that the models abstract.
- `cmd/main.go` beyond the restart, clients, tracing wrappers, mocks, generated deep
  copies: configuration and delegation without state of their own.
