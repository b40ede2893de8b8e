---------------------------- MODULE LinodeMachine ----------------------------
(***************************************************************************)
(* The LinodeMachine controller (internal/controller/linodemachine_*.go):  *)
(* one reconcile loop per LinodeMachine that creates a Linode instance,    *)
(* attaches its data disks, boots it, follows its state and deletes it.    *)
(*                                                                         *)
(* A reconcile reads the object from the informer cache, works on a copy   *)
(* (the MachineScope) one API call at a time, and writes the copy back in  *)
(* the deferred Close, as a merge patch of three separate requests.  Every *)
(* API call is one step here, so that user actions, reconciles of other    *)
(* machines, cache lag, lost replies, failed patches and a crash of the    *)
(* controller can fall between any two of them.                            *)
(***************************************************************************)
EXTENDS Naturals, FiniteSets

CONSTANTS
    Machines,       \* the LinodeMachine objects
    InstanceIDs,    \* the ids the Linode API can hand out; none is used twice
    Labels,         \* instance labels
    LabelOf,        \* createConfig.Label of each machine: its name unless the spec sets one
    None,           \* a nil pointer
    NDisks,         \* number of data disks of a machine (sdb, sdc, ...)
    UsesCreds,      \* the machines whose spec names a credentials Secret
    Refs,           \* which of "firewall" and "vpc" the machines reference
    ErrorKinds,     \* API errors that may happen: "transient", "fatal"
    FaultKinds,     \* faults that may happen: see Faults
    MaxFaults       \* bound on errors, faults and out-of-band changes together

\* "lostReply": a request is served but the client gets an error; "lostPatch":
\* some of the requests of a patch fail; "crash": the controller dies; "stale":
\* a reconcile reads an outdated copy from the cache; "noConfigs": the API lists
\* no configuration profile for an instance; "slowBoot": an instance takes longer
\* than DefaultMachineControllerWaitForRunningTimeout to boot.
Faults == {"lostReply", "lostPatch", "crash", "stale", "noConfigs", "slowBoot"}

ASSUME MachineAssumptions ==
    /\ LabelOf \in [Machines -> Labels]
    /\ None \notin InstanceIDs
    /\ NDisks \in Nat
    /\ UsesCreds \subseteq Machines
    /\ Refs \subseteq {"firewall", "vpc"}
    /\ ErrorKinds \subseteq {"transient", "fatal"}
    /\ FaultKinds \subseteq Faults
    /\ MaxFaults \in Nat

Disks == 1..NDisks

\* The conditions of a LinodeMachine that gate the steps; a set of them holds
\* the ones whose status is True.
Conditions ==
    {"BootstrapDataSecretReady", "FirewallReady", "VPCReady", "MetadataSupportConfigured",
     "Created", "AdditionalDisksCreated", "Configured", "BootTriggered", "PreflightReady",
     "Ready"}

\* Instance statuses: "offline" and "booting" stand for the statuses of
\* requeueInstanceStatuses, "shutting_down" for the incompatible ones.
Status == {"offline", "booting", "running", "shutting_down"}

requeueInstanceStatuses == {"offline", "booting"}

VARIABLES
    obj,        \* the LinodeMachines as stored by the Kubernetes API server
    seen,       \* the controller's cached copies of them
    unseen,     \* machines with an undelivered update event that passes the event filter
    queue,      \* the controller's work queue
    pc,         \* where the reconcile of a machine is
    base,       \* the patch helper's copy, taken when the reconcile started
    scope,      \* machineScope.LinodeMachine
    inst,       \* the instances at the Linode API
    secret,     \* the credentials Secrets
    bootstrap,  \* machines whose owner Machine has a bootstrap data secret
    deps,       \* which of Refs are Ready
    faults,     \* history: the faults that hit each machine
    budget      \* how many more errors, faults and out-of-band changes may happen

k8sVars == <<obj, seen, unseen, queue>>
ctrlVars == <<pc, base, scope>>
envVars == <<secret, bootstrap, deps>>
histVars == <<faults, budget>>
vars == <<k8sVars, ctrlVars, inst, envVars, histVars>>

LinodeMachineObject ==
    [exists: BOOLEAN, deleting: BOOLEAN, finalizer: BOOLEAN,
     providerID: InstanceIDs \cup {None},
     diskIDs: SUBSET Disks,                \* the disks whose DiskID is set
     conds: SUBSET Conditions,
     instanceState: Status \cup {None}, ready: BOOLEAN, addresses: BOOLEAN]

New ==
    [exists |-> TRUE, deleting |-> FALSE, finalizer |-> FALSE, providerID |-> None,
     diskIDs |-> {}, conds |-> {}, instanceState |-> None, ready |-> FALSE,
     addresses |-> FALSE]

Gone == [New EXCEPT !.exists = FALSE]

\* An instance: "unused" before it is created, "deleted" after.  disks counts
\* the disks created for each device, profile says that the configuration
\* profile maps them, creator is the machine whose request created it.
Instance ==
    [state: Status \cup {"unused", "deleted"}, label: Labels \cup {None},
     creator: Machines \cup {None}, disks: [Disks -> Nat], profile: BOOLEAN]

Unused ==
    [state |-> "unused", label |-> None, creator |-> None,
     disks |-> [d \in Disks |-> 0], profile |-> FALSE]

Live(i) == i # None /\ inst[i].state \in Status

PCs == {"idle", "addFinalizer", "credentials", "addCredentialsFinalizer", "firewall", "vpc",
        "metadata", "create", "adopt", "configure", "disks", "config", "boot", "ready",
        "update", "sync", "delete", "release", "return", "requeue"}

TypeOK ==
    /\ obj \in [Machines -> LinodeMachineObject]
    /\ seen \in [Machines -> LinodeMachineObject]
    /\ base \in [Machines -> LinodeMachineObject]
    /\ scope \in [Machines -> LinodeMachineObject]
    /\ pc \in [Machines -> PCs]
    /\ unseen \subseteq Machines
    /\ queue \subseteq Machines
    /\ inst \in [InstanceIDs -> Instance]
    /\ secret \in [Machines -> [exists: BOOLEAN, deleting: BOOLEAN, held: BOOLEAN]]
    /\ bootstrap \subseteq Machines
    /\ deps \subseteq Refs
    /\ faults \in [Machines -> SUBSET Faults]
    /\ budget \in 0..MaxFaults

Init ==
    /\ obj = [m \in Machines |-> New]
    /\ seen = [m \in Machines |-> New]
    /\ unseen = {}
    /\ queue = Machines
    /\ pc = [m \in Machines |-> "idle"]
    /\ base = [m \in Machines |-> Gone]
    /\ scope = [m \in Machines |-> Gone]
    /\ inst = [i \in InstanceIDs |-> Unused]
    /\ secret = [m \in Machines |-> [exists |-> TRUE, deleting |-> FALSE, held |-> FALSE]]
    /\ bootstrap = {}
    /\ deps = {}
    /\ faults = [m \in Machines |-> {}]
    /\ budget = MaxFaults

-----------------------------------------------------------------------------
(***************************************************************************)
(* Control flow of a reconcile.                                            *)
(***************************************************************************)
Goto(m, l) == pc' = [pc EXCEPT ![m] = l]

SetCondition(m, c) == scope' = [scope EXCEPT ![m].conds = @ \cup {c}]

\* A call to an API fails.
Spend == budget > 0 /\ budget' = budget - 1

Error == "transient" \in ErrorKinds /\ Spend /\ UNCHANGED faults

\* A fault hits machine m.
Fault(m, f) ==
    /\ f \in FaultKinds
    /\ Spend
    /\ faults' = [faults EXCEPT ![m] = @ \cup {f}]

\* A retryable error asks to be requeued.  For any other error the result is
\* empty, and the caller carries on with its next step.
retryIfTransient(m, next) ==
    /\ Spend
    /\ UNCHANGED faults
    /\ \/ "transient" \in ErrorKinds /\ Goto(m, "requeue")
       \/ "fatal" \in ErrorKinds /\ Goto(m, next)

\* Reconcile: read the object (NewMachineScope copies it for the patch helper).
Reconcile(m) ==
    /\ pc[m] = "idle" /\ m \in queue
    /\ queue' = queue \ {m}
    /\ \/ /\ ~seen[m].exists
          /\ UNCHANGED <<ctrlVars, histVars>>
       \/ /\ seen[m].exists
          /\ scope' = [scope EXCEPT ![m] = seen[m]]
          /\ base' = [base EXCEPT ![m] = seen[m]]
          /\ Goto(m, "addFinalizer")
          /\ IF seen[m] = obj[m] THEN UNCHANGED histVars ELSE Fault(m, "stale")
    /\ UNCHANGED <<obj, seen, unseen, inst, envVars>>

\* AddFinalizer patches the object at once when the finalizer is missing.
AddFinalizer(m) ==
    /\ pc[m] = "addFinalizer"
    /\ scope' = [scope EXCEPT ![m].finalizer = TRUE]
    /\ \/ /\ scope[m].finalizer
          /\ Goto(m, "credentials")
          /\ UNCHANGED <<obj, unseen, histVars>>
       \/ /\ ~scope[m].finalizer /\ obj[m].exists
          /\ obj' = [obj EXCEPT ![m].finalizer = TRUE]
          /\ unseen' = unseen \cup {m}
          /\ Goto(m, "credentials")
          /\ UNCHANGED histVars
       \/ /\ ~scope[m].finalizer
          /\ Goto(m, "requeue")
          /\ IF obj[m].exists THEN Error ELSE UNCHANGED histVars
          /\ UNCHANGED <<obj, unseen>>
    /\ UNCHANGED <<seen, queue, base, inst, envVars>>

\* The middle of reconcile: the credentials of the Secret, then the choice
\* between delete, waiting for bootstrap data, update and create.
Dispatch(m) ==
    /\ pc[m] = "credentials"
    /\ \/ /\ m \in UsesCreds /\ ~secret[m].exists
          /\ Goto(m, "requeue")
          /\ UNCHANGED scope
       \/ /\ m \in UsesCreds => secret[m].exists
          /\ scope[m].deleting
          /\ Goto(m, "delete")
          /\ UNCHANGED scope
       \/ /\ m \in UsesCreds => secret[m].exists
          /\ ~scope[m].deleting
          /\ "BootstrapDataSecretReady" \notin scope[m].conds /\ m \notin bootstrap
          /\ Goto(m, "return")
          /\ UNCHANGED scope
       \/ /\ m \in UsesCreds => secret[m].exists
          /\ ~scope[m].deleting
          /\ "BootstrapDataSecretReady" \in scope[m].conds \/ m \in bootstrap
          /\ SetCondition(m, "BootstrapDataSecretReady")
          /\ Goto(m, IF scope[m].instanceState # None
                     THEN "update" ELSE "addCredentialsFinalizer")
    /\ UNCHANGED <<k8sVars, base, inst, envVars, histVars>>

-----------------------------------------------------------------------------
(***************************************************************************)
(* reconcileCreate: a ladder of steps, each skipped when its condition is  *)
(* already True.                                                           *)
(***************************************************************************)
\* A variant that forgets the finalizer.
AddCredentialsRefFinalizer_Forgets(m) ==
    /\ pc[m] = "addCredentialsFinalizer"
    /\ Goto(m, "firewall")
    /\ UNCHANGED <<k8sVars, base, scope, inst, envVars, histVars>>

AddCredentialsRefFinalizer(m) ==
    /\ pc[m] = "addCredentialsFinalizer"
    /\ \/ /\ m \notin UsesCreds
          /\ Goto(m, "firewall")
          /\ UNCHANGED <<secret, histVars>>
       \/ /\ m \in UsesCreds /\ secret[m].exists
          /\ secret' = [secret EXCEPT ![m].held = TRUE]
          /\ Goto(m, "firewall")
          /\ UNCHANGED histVars
       \/ /\ m \in UsesCreds
          /\ Goto(m, "requeue")
          /\ IF secret[m].exists THEN Error ELSE UNCHANGED histVars
          /\ UNCHANGED secret
    /\ UNCHANGED <<k8sVars, base, scope, inst, bootstrap, deps>>

\* A step before the creation is taken only while there is no ProviderID.
BeforeCreation(m, c) == c \notin scope[m].conds /\ scope[m].providerID = None

\* A variant that returns without asking to be requeued.
DependencyMissing_NoRequeue(m, next) == Goto(m, "return")

\* A LinodeFirewall or LinodeVPC that is not found or not ready ends the
\* reconcile with a requeue or an error.
DependencyMissing(m, next) == Goto(m, "requeue")

\* The check of a referenced LinodeFirewall or LinodeVPC.
CheckDependency(m, d, c, next) ==
    /\ \/ /\ ~(d \in Refs /\ BeforeCreation(m, c))
          /\ Goto(m, next)
          /\ UNCHANGED scope
       \/ /\ d \in Refs /\ BeforeCreation(m, c) /\ d \in deps
          /\ SetCondition(m, c)
          /\ Goto(m, next)
       \/ /\ d \in Refs /\ BeforeCreation(m, c) /\ d \notin deps
          /\ DependencyMissing(m, next)
          /\ UNCHANGED scope
    /\ UNCHANGED <<k8sVars, base, inst, envVars, histVars>>

reconcilePreflightLinodeFirewallCheck(m) ==
    pc[m] = "firewall" /\ CheckDependency(m, "firewall", "FirewallReady", "vpc")

reconcilePreflightVPC(m) ==
    pc[m] = "vpc" /\ CheckDependency(m, "vpc", "VPCReady", "metadata")

\* GetRegion and GetImage.
reconcilePreflightMetadataSupportConfigure(m) ==
    /\ pc[m] = "metadata"
    /\ \/ /\ ~BeforeCreation(m, "MetadataSupportConfigured")
          /\ Goto(m, "create")
          /\ UNCHANGED <<scope, histVars>>
       \/ /\ BeforeCreation(m, "MetadataSupportConfigured")
          /\ SetCondition(m, "MetadataSupportConfigured")
          /\ Goto(m, "create")
          /\ UNCHANGED histVars
       \/ /\ BeforeCreation(m, "MetadataSupportConfigured")
          /\ retryIfTransient(m, "create")
          /\ UNCHANGED scope
    /\ UNCHANGED <<k8sVars, base, inst, envVars>>

\* The API refuses a label that a live instance has.
LabelTaken(l) == \E i \in InstanceIDs : Live(i) /\ inst[i].label = l

CreatedBy(x, m) == [x EXCEPT !.state = "offline", !.label = LabelOf[m], !.creator = m]

\* A variant whose labels differ from one attempt to the next.
NewInstance_FreshLabel(m, i) ==
    /\ inst[i].state = "unused"
    /\ inst' = [inst EXCEPT ![i] = CreatedBy(@, m)]

\* The API creates an instance, switched off (createConfig.Booted is false).
NewInstance(m, i) ==
    /\ inst[i].state = "unused"
    /\ ~LabelTaken(LabelOf[m])
    /\ inst' = [inst EXCEPT ![i] = CreatedBy(@, m)]

\* A variant that forgets the ProviderID.
Created_NoProviderID(m, i) == SetCondition(m, "Created")

WithInstance(o, i) == [o EXCEPT !.providerID = i, !.conds = @ \cup {"Created"}]

Created(m, i) == scope' = [scope EXCEPT ![m] = WithInstance(@, i)]

\* newCreateConfig and createInstance: the rate limit, the POST, its errors,
\* and the 400 answer to a label that is taken.
reconcilePreflightCreate(m) ==
    /\ pc[m] = "create"
    /\ \/ /\ ~BeforeCreation(m, "Created")
          /\ Goto(m, "configure")
          /\ UNCHANGED <<scope, inst, histVars>>
       \/ /\ BeforeCreation(m, "Created")
          /\ \/ \E i \in InstanceIDs :
                    /\ NewInstance(m, i)
                    /\ \/ Created(m, i) /\ Goto(m, "configure") /\ UNCHANGED histVars
                       \/ Fault(m, "lostReply") /\ Goto(m, "requeue") /\ UNCHANGED scope
             \/ /\ retryIfTransient(m, "configure")
                /\ UNCHANGED <<scope, inst>>
             \/ /\ LabelTaken(LabelOf[m])
                /\ Goto(m, "adopt")
                /\ UNCHANGED <<scope, inst, histVars>>
    /\ UNCHANGED <<k8sVars, base, envVars>>

\* A variant without the filter.
ListInstances_NoFilter(m) == {i \in InstanceIDs : Live(i)}

\* The instances that ListInstances returns for the filter on the label.
ListInstances(m) == {i \in InstanceIDs : Live(i) /\ inst[i].label = LabelOf[m]}

\* The rest of createInstance when the label was taken: list the instances
\* with that label and adopt the first.  An empty list returns the 400 error.
createInstance(m) ==
    /\ pc[m] = "adopt"
    /\ \/ /\ \E i \in ListInstances(m) : Created(m, i)
          /\ Goto(m, "configure")
          /\ UNCHANGED histVars
       \/ /\ ListInstances(m) = {}
          /\ Goto(m, "configure")
          /\ UNCHANGED <<scope, histVars>>
       \/ /\ retryIfTransient(m, "configure")
          /\ UNCHANGED scope
    /\ UNCHANGED <<k8sVars, base, inst, envVars>>

\* GetInstanceID, then the entry of reconcilePreflightConfigure and
\* configureDisks.
GetInstanceID(m) ==
    /\ pc[m] = "configure"
    /\ Goto(m, CASE scope[m].providerID = None -> "requeue"
                 [] scope[m].providerID # None /\ "Configured" \in scope[m].conds -> "boot"
                 [] scope[m].providerID # None /\ "Configured" \notin scope[m].conds
                    /\ (NDisks = 0 \/ "AdditionalDisksCreated" \in scope[m].conds) -> "config"
                 [] OTHER -> "disks")
    /\ UNCHANGED <<k8sVars, base, scope, inst, envVars, histVars>>

\* The device configureDisk works on: those with a DiskID are skipped.
NextDisk(m, d) == d \notin scope[m].diskIDs /\ \A e \in 1..(d - 1) : e \in scope[m].diskIDs

\* A variant that carries on, as the other half of reconcilePreflightConfigure does.
DiskError_CarriesOn(m) == Goto(m, "config")

\* An error of configureDisks ends the reconcile with a requeue or an error.
DiskError(m) == Goto(m, "requeue")

\* createDisks: one CreateInstanceDisk for each device in order, and then the
\* configuration profile.
createDisks(m) ==
    LET i == scope[m].providerID IN
    /\ pc[m] = "disks"
    /\ \/ \E d \in Disks :
             /\ NextDisk(m, d) /\ Live(i)
             /\ inst' = [inst EXCEPT ![i].disks[d] = @ + 1]
             /\ \/ /\ scope' = [scope EXCEPT ![m].diskIDs = @ \cup {d}]
                   /\ UNCHANGED <<pc, histVars>>
                \/ Fault(m, "lostReply") /\ DiskError(m) /\ UNCHANGED scope
       \/ /\ Disks \subseteq scope[m].diskIDs /\ Live(i)
          /\ SetCondition(m, "AdditionalDisksCreated")
          /\ Goto(m, "config")
          /\ \/ inst' = [inst EXCEPT ![i].profile = TRUE] /\ UNCHANGED histVars
             \/ Fault(m, "noConfigs") /\ UNCHANGED inst
       \/ /\ DiskError(m)
          /\ IF Live(i) THEN Error ELSE UNCHANGED histVars
          /\ UNCHANGED <<scope, inst>>
    /\ UNCHANGED <<k8sVars, base, envVars>>

\* The rest of reconcilePreflightConfigure: the kernel and the network helper.
reconcilePreflightConfigure(m) ==
    /\ pc[m] = "config"
    /\ \/ /\ Live(scope[m].providerID)
          /\ SetCondition(m, "Configured")
          /\ Goto(m, "boot")
          /\ UNCHANGED histVars
       \/ /\ Live(scope[m].providerID)
          /\ retryIfTransient(m, "boot")
          /\ UNCHANGED scope
       \/ /\ ~Live(scope[m].providerID)
          /\ Goto(m, "boot")
          /\ UNCHANGED <<scope, histVars>>
    /\ UNCHANGED <<k8sVars, base, inst, envVars>>

\* Booting an instance that is already booted is no error.
Boot(i) == inst' = [inst EXCEPT ![i].state = IF @ = "offline" THEN "booting" ELSE @]

reconcilePreflightBoot(m) ==
    LET i == scope[m].providerID IN
    /\ pc[m] = "boot"
    /\ \/ /\ "BootTriggered" \in scope[m].conds
          /\ Goto(m, "ready")
          /\ UNCHANGED <<scope, inst, histVars>>
       \/ /\ "BootTriggered" \notin scope[m].conds /\ Live(i)
          /\ Boot(i)
          /\ \/ SetCondition(m, "BootTriggered") /\ Goto(m, "ready") /\ UNCHANGED histVars
             \/ Fault(m, "lostReply") /\ Goto(m, "requeue") /\ UNCHANGED scope
       \/ /\ "BootTriggered" \notin scope[m].conds
          /\ Goto(m, "requeue")
          /\ IF Live(i) THEN Error ELSE UNCHANGED histVars
          /\ UNCHANGED <<scope, inst>>
    /\ UNCHANGED <<k8sVars, base, envVars>>

Preflighted(o) ==
    [o EXCEPT !.addresses = TRUE, !.conds = @ \cup {"PreflightReady"}, !.instanceState = "offline"]

\* The addresses, and the end of reconcileCreate, which sets InstanceState.
reconcilePreflightReady(m) ==
    /\ pc[m] = "ready"
    /\ \/ /\ "PreflightReady" \in scope[m].conds
          /\ scope' = [scope EXCEPT ![m].instanceState = "offline"]
          /\ Goto(m, "return")
          /\ UNCHANGED histVars
       \/ /\ "PreflightReady" \notin scope[m].conds /\ Live(scope[m].providerID)
          /\ scope' = [scope EXCEPT ![m] = Preflighted(@)]
          /\ Goto(m, "return")
          /\ UNCHANGED histVars
       \/ /\ "PreflightReady" \notin scope[m].conds
          /\ Goto(m, "requeue")
          /\ IF Live(scope[m].providerID) THEN Error ELSE UNCHANGED histVars
          /\ UNCHANGED scope
    /\ UNCHANGED <<k8sVars, base, inst, envVars>>

-----------------------------------------------------------------------------
(***************************************************************************)
(* reconcileUpdate and reconcileDelete.                                    *)
(***************************************************************************)
\* A variant that takes the answer for a deleted instance.
Found_AlsoDeleted(i) == i # None /\ inst[i].state # "unused"

\* GetInstance finds the instance.
Found(i) == Live(i)

Observed(o, s, rdy, cs) == [o EXCEPT !.instanceState = s, !.ready = rdy, !.conds = cs]

\* GetInstance and what its status means for the machine.  An error that is
\* not retryable, such as 404, ends the reconcile without a requeue.  The
\* age of a booting instance decides between waiting and giving up on it.
reconcileUpdate(m) ==
    LET i == scope[m].providerID
        Observe(rdy, cs, next) ==
            /\ scope' = [scope EXCEPT ![m] = Observed(@, inst[i].state, rdy, cs)]
            /\ Goto(m, next)
    IN
    /\ pc[m] = "update"
    /\ \/ /\ i = None
          /\ Goto(m, "requeue")
          /\ UNCHANGED <<scope, histVars>>
       \/ /\ i # None /\ ~Found(i)
          /\ Goto(m, "return")
          /\ UNCHANGED <<scope, histVars>>
       \/ /\ Found(i)
          /\ retryIfTransient(m, "return")
          /\ UNCHANGED scope
       \/ /\ Found(i) /\ inst[i].state \in requeueInstanceStatuses
          /\ Observe(scope[m].ready, scope[m].conds, "requeue")
          /\ UNCHANGED histVars
       \/ /\ Found(i) /\ inst[i].state # "running"
          /\ Observe(scope[m].ready, scope[m].conds \ {"Ready"}, "sync")
          /\ IF inst[i].state \in requeueInstanceStatuses
             THEN Fault(m, "slowBoot") ELSE UNCHANGED histVars
       \/ /\ Found(i) /\ inst[i].state = "running"
          /\ Observe(TRUE, scope[m].conds \cup {"Ready"}, "sync")
          /\ UNCHANGED histVars
    /\ UNCHANGED <<k8sVars, base, inst, envVars>>

\* The rest of reconcileUpdate: tags and firewalls (reconcileFirewallID).
\* Most errors requeue; a 400 from the firewall update is returned as an
\* error, for which the deferred function clears the Ready condition.
reconcileFirewallID(m) ==
    /\ pc[m] = "sync"
    /\ \/ Goto(m, "return") /\ UNCHANGED <<scope, histVars>>
       \/ Error /\ Goto(m, "requeue") /\ UNCHANGED scope
       \/ /\ "fatal" \in ErrorKinds /\ Spend /\ UNCHANGED faults
          /\ scope' = [scope EXCEPT ![m].conds = @ \ {"Ready"}]
          /\ Goto(m, "requeue")
    /\ UNCHANGED <<k8sVars, base, inst, envVars>>

Delete(i) == inst' = [inst EXCEPT ![i].state = "deleted"]

\* The fields that reconcileDelete clears once the instance is gone.
WithoutInstance(o) ==
    [o EXCEPT !.providerID = None, !.instanceState = None, !.conds = @ \ {"Ready"}]

InstanceDeleted(m) == scope' = [scope EXCEPT ![m] = WithoutInstance(@)]

\* Variants of DeleteError: take any error for "not found"; give up.
DeleteError_Ignored(m) == InstanceDeleted(m) /\ Goto(m, "release")
DeleteError_NoRequeue(m) == Goto(m, "return") /\ UNCHANGED scope

\* An error other than 404 ends the reconcile with a requeue or an error.
DeleteError(m) == Goto(m, "requeue") /\ UNCHANGED scope

\* reconcileDelete up to the release; 404 counts as deleted.
reconcileDelete(m) ==
    LET i == scope[m].providerID IN
    /\ pc[m] = "delete"
    /\ \/ /\ i = None
          /\ Goto(m, "release")
          /\ UNCHANGED <<scope, inst, histVars>>
       \/ /\ Live(i)
          /\ Delete(i)
          /\ \/ InstanceDeleted(m) /\ Goto(m, "release") /\ UNCHANGED histVars
             \/ Fault(m, "lostReply") /\ DeleteError(m)
       \/ /\ i # None /\ ~Live(i)
          /\ InstanceDeleted(m)
          /\ Goto(m, "release")
          /\ UNCHANGED <<inst, histVars>>
       \/ Live(i) /\ Error /\ DeleteError(m) /\ UNCHANGED inst
    /\ UNCHANGED <<k8sVars, base, envVars>>

\* A Secret loses its finalizer; if it is being deleted it goes away.
Released(s) == [s EXCEPT !.held = FALSE, !.exists = s.exists /\ ~s.deleting]

\* The end of reconcileDelete: release the Secret, then the machine itself.
RemoveCredentialsRefFinalizer(m) ==
    /\ pc[m] = "release"
    /\ \/ /\ secret' = IF m \in UsesCreds
                       THEN [secret EXCEPT ![m] = Released(@)] ELSE secret
          /\ scope' = [scope EXCEPT ![m].finalizer = FALSE]
          /\ Goto(m, "return")
          /\ UNCHANGED histVars
       \/ /\ m \in UsesCreds /\ secret[m].exists /\ Error
          /\ Goto(m, "requeue")
          /\ UNCHANGED <<secret, scope>>
    /\ UNCHANGED <<k8sVars, base, inst, bootstrap, deps>>

-----------------------------------------------------------------------------
(***************************************************************************)
(* Close: the patch helper sends what changed between its copy and the     *)
(* scope, in three requests: the conditions, the object (metadata and      *)
(* spec) and the rest of the status.                                       *)
(***************************************************************************)
PatchParts == {"conditions", "object", "status"}

\* v if the reconcile changed the field, the stored value otherwise.
Merged(sent, before, after, stored) == IF sent /\ before # after THEN after ELSE stored

\* A set of flags that are patched one by one.
MergedSet(sent, before, after, stored) ==
    IF sent THEN (stored \cup (after \ before)) \ (before \ after) ELSE stored

\* A variant that keeps the DiskIDs in memory only.
Patched_NoDiskIDs(o, b, s, parts) ==
    [o EXCEPT
        !.conds = MergedSet("conditions" \in parts, b.conds, s.conds, @),
        !.finalizer = Merged("object" \in parts, b.finalizer, s.finalizer, @),
        !.providerID = Merged("object" \in parts, b.providerID, s.providerID, @),
        !.instanceState = Merged("status" \in parts, b.instanceState, s.instanceState, @),
        !.ready = Merged("status" \in parts, b.ready, s.ready, @),
        !.addresses = Merged("status" \in parts, b.addresses, s.addresses, @)]

Patched(o, b, s, parts) ==
    [o EXCEPT
        !.conds = MergedSet("conditions" \in parts, b.conds, s.conds, @),
        !.finalizer = Merged("object" \in parts, b.finalizer, s.finalizer, @),
        !.providerID = Merged("object" \in parts, b.providerID, s.providerID, @),
        !.diskIDs = MergedSet("object" \in parts, b.diskIDs, s.diskIDs, @),
        !.instanceState = Merged("status" \in parts, b.instanceState, s.instanceState, @),
        !.ready = Merged("status" \in parts, b.ready, s.ready, @),
        !.addresses = Merged("status" \in parts, b.addresses, s.addresses, @)]

\* An object that is being deleted goes away with its last finalizer.
Stored(o) == IF o.deleting /\ ~o.finalizer THEN Gone ELSE o

\* The event filter drops the update event of the request that sets ProviderID.
PassesFilter(o, p) ==
    \/ o.conds # p.conds
    \/ o.instanceState # p.instanceState \/ o.ready # p.ready \/ o.addresses # p.addresses
    \/ /\ o.finalizer # p.finalizer \/ o.providerID # p.providerID \/ o.diskIDs # p.diskIDs
       /\ ~(o.providerID = None /\ p.providerID # None)

Close(m) ==
    LET Finish(parts) ==
            LET p == Patched(obj[m], base[m], scope[m], parts) IN
            /\ obj' = [obj EXCEPT ![m] = Stored(p)]
            /\ unseen' = IF PassesFilter(obj[m], p) THEN unseen \cup {m} ELSE unseen
        Requeue == queue' = queue \cup {m}
    IN
    /\ pc[m] \in {"return", "requeue"}
    /\ Goto(m, "idle")
    /\ scope' = [scope EXCEPT ![m] = Gone]
    /\ base' = [base EXCEPT ![m] = Gone]
    /\ \/ /\ ~obj[m].exists           \* NotFound is ignored
          /\ UNCHANGED <<obj, unseen, histVars>>
          /\ IF pc[m] = "requeue" THEN Requeue ELSE UNCHANGED queue
       \/ /\ obj[m].exists
          /\ Finish(PatchParts)
          /\ UNCHANGED histVars
          /\ IF pc[m] = "requeue" THEN Requeue ELSE UNCHANGED queue
       \/ /\ obj[m].exists
          /\ \E parts \in SUBSET PatchParts : parts # PatchParts /\ Finish(parts)
          /\ Fault(m, "lostPatch")
          /\ Requeue
    /\ UNCHANGED <<seen, inst, envVars>>

-----------------------------------------------------------------------------
(***************************************************************************)
(* What happens around the controller.                                     *)
(***************************************************************************)
\* The informer delivers what it has not delivered yet.
CacheSync(m) ==
    /\ seen[m] # obj[m]
    /\ seen' = [seen EXCEPT ![m] = obj[m]]
    /\ unseen' = unseen \ {m}
    /\ queue' = IF m \in unseen THEN queue \cup {m} ELSE queue
    /\ UNCHANGED <<obj, ctrlVars, inst, envVars, histVars>>

\* The controller dies; the next one lists all objects and queues them.
Crash ==
    /\ "crash" \in FaultKinds /\ Spend
    /\ \E m \in Machines : pc[m] # "idle"
    /\ faults' = [m \in Machines |->
                     IF pc[m] = "idle" THEN faults[m] ELSE faults[m] \cup {"crash"}]
    /\ pc' = [m \in Machines |-> "idle"]
    /\ scope' = [m \in Machines |-> Gone]
    /\ base' = [m \in Machines |-> Gone]
    /\ seen' = obj
    /\ unseen' = {}
    /\ queue' = {m \in Machines : obj[m].exists}
    /\ UNCHANGED <<obj, inst, envVars>>

\* An event of a watched Machine, Cluster or LinodeCluster, or a resync.
Wakeup(m) ==
    /\ m \notin queue
    /\ queue' = queue \cup {m}
    /\ UNCHANGED <<obj, seen, unseen, ctrlVars, inst, envVars, histVars>>

UserDelete(m) ==
    /\ obj[m].exists /\ ~obj[m].deleting
    /\ obj' = [obj EXCEPT ![m] = Stored([@ EXCEPT !.deleting = TRUE])]
    /\ unseen' = unseen \cup {m}
    /\ UNCHANGED <<seen, queue, ctrlVars, inst, envVars, histVars>>

UserDeletesSecret(m) ==
    /\ m \in UsesCreds /\ secret[m].exists /\ ~secret[m].deleting
    /\ secret' = [secret EXCEPT ![m] = [@ EXCEPT !.deleting = TRUE, !.exists = secret[m].held]]
    /\ UNCHANGED <<k8sVars, ctrlVars, inst, bootstrap, deps, histVars>>

BootstrapDataReady(m) ==
    /\ m \notin bootstrap
    /\ bootstrap' = bootstrap \cup {m}
    /\ queue' = queue \cup {m}
    /\ UNCHANGED <<obj, seen, unseen, ctrlVars, inst, secret, deps, histVars>>

DependencyReady(d) ==
    /\ d \notin deps
    /\ deps' = deps \cup {d}
    /\ UNCHANGED <<k8sVars, ctrlVars, inst, secret, bootstrap, histVars>>

InstanceStarted(i) ==
    /\ inst[i].state = "booting"
    /\ inst' = [inst EXCEPT ![i].state = "running"]
    /\ UNCHANGED <<k8sVars, ctrlVars, envVars, histVars>>

\* Someone changes an instance without the controller.
OutOfBand(i) ==
    /\ Live(i) /\ Spend
    /\ \E s \in {"shutting_down", "deleted"} : inst' = [inst EXCEPT ![i].state = s]
    /\ UNCHANGED <<k8sVars, ctrlVars, envVars, faults>>

ReconcileStep(m) ==
    \/ Reconcile(m) \/ AddFinalizer(m) \/ Dispatch(m)
    \/ AddCredentialsRefFinalizer(m)
    \/ reconcilePreflightLinodeFirewallCheck(m) \/ reconcilePreflightVPC(m)
    \/ reconcilePreflightMetadataSupportConfigure(m)
    \/ reconcilePreflightCreate(m) \/ createInstance(m)
    \/ GetInstanceID(m) \/ createDisks(m) \/ reconcilePreflightConfigure(m)
    \/ reconcilePreflightBoot(m) \/ reconcilePreflightReady(m)
    \/ reconcileUpdate(m) \/ reconcileFirewallID(m)
    \/ reconcileDelete(m) \/ RemoveCredentialsRefFinalizer(m)
    \/ Close(m)

Next ==
    \/ \E m \in Machines :
          \/ ReconcileStep(m) \/ CacheSync(m) \/ Wakeup(m)
          \/ UserDelete(m) \/ UserDeletesSecret(m) \/ BootstrapDataReady(m)
    \/ \E d \in Refs : DependencyReady(d)
    \/ \E i \in InstanceIDs : InstanceStarted(i) \/ OutOfBand(i)
    \/ Crash

Spec == Init /\ [][Next]_vars

\* The work queue hands out what is in it, a reconcile runs to its end, the
\* informer delivers, and a booting instance comes up.
Fairness ==
    /\ \A m \in Machines : WF_vars(ReconcileStep(m)) /\ WF_vars(CacheSync(m))
    /\ \A i \in InstanceIDs : WF_vars(InstanceStarted(i))

FairSpec == Spec /\ Fairness

-----------------------------------------------------------------------------
(***************************************************************************)
(* Properties.                                                             *)
(***************************************************************************)
\* The ProviderID of a machine, wherever a copy of it is kept, names an
\* instance that was created with the machine's own label: createInstance
\* never takes over an instance of another label.
ProviderIDHasLabel ==
    \A m \in Machines : \A o \in {obj[m], seen[m], base[m], scope[m]} :
        o.providerID # None =>
            /\ inst[o.providerID].state # "unused"
            /\ inst[o.providerID].label = LabelOf[m]

\* Two machines manage the same instance only if they have the same label.
NoForeignInstance ==
    \A m, n \in Machines :
        obj[m].providerID # None /\ obj[m].providerID = obj[n].providerID =>
            LabelOf[m] = LabelOf[n]

\* When a machine is gone (reconcileDelete removed its finalizer), no instance
\* it created is left, unless a fault hit it on the way.
NoOrphan ==
    \A m \in Machines : ~obj[m].exists /\ faults[m] = {} =>
        \A i \in InstanceIDs : ~(Live(i) /\ inst[i].creator = m)

UniqueLabel(m) == \A n \in Machines : LabelOf[n] = LabelOf[m] => n = m

\* configureDisk creates one disk for each device: the DiskIDs that the failed
\* reconciles before it have set are never forgotten, unless a fault hit the
\* machine.
OneDiskPerDevice ==
    \A i \in InstanceIDs : \A d \in Disks :
        inst[i].disks[d] > 1 =>
            \/ ~UniqueLabel(inst[i].creator)
            \/ faults[inst[i].creator] # {}

\* While a stored ProviderID names a live instance, the credentials Secret that
\* deleting it needs is there: reconcileCreate takes the Secret's finalizer
\* before it creates anything, reconcileDelete gives it back after the instance
\* is gone.  Only a reconcile that worked from a stale copy can break this.
CredentialsHeld ==
    \A m \in UsesCreds : Live(obj[m].providerID) /\ "stale" \notin faults[m] =>
        secret[m].exists /\ secret[m].held

\* An instance is never started before all its data disks are there and its
\* configuration profile maps them (configureDisks comes before BootInstance),
\* unless a machine with its label was listed no profile to update, or worked
\* from a stale copy and replaced an instance that someone had deleted.
DisksBeforeBoot ==
    \A i \in InstanceIDs : inst[i].state \in {"booting", "running"} =>
        \/ \A d \in Disks : inst[i].disks[d] > 0 /\ inst[i].profile
        \/ \E m \in Machines : /\ LabelOf[m] = inst[i].label
                               /\ faults[m] \cap {"noConfigs", "stale"} # {}

\* A machine that has finished its preflight has a ProviderID and addresses,
\* unless one of the requests of a patch was lost.
StateComplete ==
    \A m \in Machines : "lostPatch" \notin faults[m] /\ ~obj[m].deleting =>
        /\ "Created" \in obj[m].conds => obj[m].providerID # None
        /\ obj[m].instanceState # None => obj[m].providerID # None /\ obj[m].addresses

\* A stored ProviderID is replaced by another one only when the instance it
\* named is gone.
ProviderIDStable ==
    [][\A m \in Machines :
          obj[m].providerID # None /\ obj'[m].providerID \notin {None, obj[m].providerID}
              => ~Live(obj[m].providerID)]_vars

\* InstanceState is set "to signal preflight process is done" (end of
\* reconcileCreate): then every step of the preflight has succeeded.
PreflightDone ==
    \A m \in Machines : obj[m].instanceState # None =>
        {"Created", "Configured", "BootTriggered", "PreflightReady"} \subseteq obj[m].conds

\* A machine whose bootstrap data and dependencies are ready becomes ready, or
\* is deleted, or loses its instance.
EventuallyReady ==
    \A m \in Machines :
        m \in bootstrap /\ deps = Refs ~>
            \/ obj[m].ready \/ obj[m].deleting \/ ~obj[m].exists
            \/ (m \in UsesCreds /\ ~secret[m].exists)
            \/ \E i \in InstanceIDs : inst[i].state \in {"deleted", "shutting_down"}

\* A machine that is deleted goes away, as long as its credentials are there.
EventuallyGone ==
    \A m \in Machines :
        obj[m].deleting ~> ~obj[m].exists \/ (m \in UsesCreds /\ ~secret[m].exists)

=============================================================================
