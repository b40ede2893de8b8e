---------------------------- MODULE LinodeCluster ----------------------------
(***************************************************************************)
(* The LinodeCluster controller (internal/controller/linodecluster_*.go)   *)
(* with a NodeBalancer in front of the control plane                       *)
(* (cloud/services/loadbalancers.go): it creates the NodeBalancer and one  *)
(* configuration for each port, keeps its backend nodes in step with the   *)
(* LinodeMachines of the control plane, and deletes it with the cluster.   *)
(*                                                                         *)
(* One LinodeCluster, one reconcile at a time, one API call at a step.     *)
(***************************************************************************)
EXTENDS Naturals, FiniteSets

CONSTANTS
    Machines,           \* LinodeMachines of the control plane
    NodeBalancers,      \* the ids the Linode API can hand out; none is used twice
    AdditionalPorts,    \* the ports of Spec.Network.AdditionalPorts
    None,               \* a nil pointer
    Refs,               \* which of "vpc" and "firewall" the cluster references
    DuplicateNodes,     \* whether the API takes a second node with the same address
    ErrorKinds,         \* API errors that may happen: "transient", "fatal"
    FaultKinds,         \* faults that may happen: see Faults
    MaxFaults           \* bound on errors and faults together

\* "lostReply": a request is served but the client gets an error; "lostPatch":
\* some of the requests of a patch fail; "crash": the controller dies; "stale":
\* a reconcile reads outdated copies from the cache; "lostEvent": the event of a
\* deleted machine does not reach the cluster; "outOfBand": someone else deletes
\* the NodeBalancer.
Faults == {"lostReply", "lostPatch", "crash", "stale", "lostEvent", "outOfBand"}

ASSUME ClusterAssumptions ==
    /\ None \notin NodeBalancers
    /\ "api" \notin AdditionalPorts
    /\ Refs \subseteq {"vpc", "firewall"}
    /\ DuplicateNodes \in BOOLEAN
    /\ ErrorKinds \subseteq {"transient", "fatal"}
    /\ FaultKinds \subseteq Faults
    /\ MaxFaults \in Nat

\* The port of the API server, and the others.
Ports == {"api"} \cup AdditionalPorts

VARIABLES
    obj,        \* the LinodeCluster as stored by the Kubernetes API server
    seen,       \* the controller's cached copy
    mach,       \* the LinodeMachines: "absent", "new", "up" (with addresses) or "gone"
    mseen,      \* the cached copies of them
    queued,     \* the cluster is in the work queue
    pc,         \* where its reconcile is
    base,       \* the patch helper's copy, taken when the reconcile started
    scope,      \* clusterScope.LinodeCluster
    list,       \* clusterScope.LinodeMachines: the machines with their states
    made,       \* the ports whose configuration this reconcile has created
    nodes,      \* nodeBalancerNodes: the listed nodes of the API server's configuration
    todo,       \* the nodes that are still to be created
    nb,         \* the NodeBalancers at the Linode API
    secret,     \* the credentials Secret
    deps,       \* which of Refs are ready
    again,      \* history: what was created although it was there already
    faults,     \* history: the faults that happened
    budget      \* how many more errors and faults may happen

k8sVars == <<obj, seen, mach, mseen, queued>>
localVars == <<list, made, nodes, todo>>
histVars == <<faults, budget>>
vars == <<k8sVars, pc, base, scope, localVars, nb, secret, deps, again, histVars>>

LinodeClusterObject ==
    [exists: BOOLEAN, deleting: BOOLEAN, finalizer: BOOLEAN,
     given: BOOLEAN,                \* ControlPlaneEndpoint was set by the user
     host: BOOLEAN,                 \* ControlPlaneEndpoint.Host is set
     nbID: NodeBalancers \cup {None},
     configIDs: BOOLEAN,            \* the ids of all configurations are set
     external: BOOLEAN,             \* LoadBalancerType is "external"
     conds: SUBSET {"vpc", "firewall"},
     ready: BOOLEAN]

New(given) ==
    [exists |-> TRUE, deleting |-> FALSE, finalizer |-> FALSE, given |-> given, host |-> given,
     nbID |-> None, configIDs |-> FALSE, external |-> FALSE, conds |-> {}, ready |-> FALSE]

Gone == [New(FALSE) EXCEPT !.exists = FALSE]

MachineState == {"absent", "new", "up", "gone"}

\* A NodeBalancer: the ports that have a configuration, and the machines whose
\* address is a node of it.
NodeBalancer ==
    [state: {"unused", "live", "deleted"}, configs: SUBSET Ports, nodes: [Ports -> SUBSET Machines]]

Unused == [state |-> "unused", configs |-> {}, nodes |-> [p \in Ports |-> {}]]

Live(n) == n # None /\ nb[n].state = "live"

PCs == {"idle", "credentials", "addFinalizer", "vpc", "firewall", "addCredentialsFinalizer",
        "nodeBalancer", "adopt", "configs", "ready", "listNodes", "addNodes", "prune",
        "delete", "deleteNB", "wait", "release", "return", "requeue"}

TypeOK ==
    /\ \A o \in {obj, seen, base, scope} : o \in LinodeClusterObject
    /\ \A f \in {mach, mseen, list} : f \in [Machines -> MachineState]
    /\ queued \in BOOLEAN
    /\ pc \in PCs
    /\ made \subseteq Ports
    /\ nodes \subseteq Machines
    /\ todo \subseteq Machines \X Ports
    /\ nb \in [NodeBalancers -> NodeBalancer]
    /\ secret \in [exists: BOOLEAN, deleting: BOOLEAN, held: BOOLEAN]
    /\ deps \subseteq Refs
    /\ again \subseteq {"config", "node"}
    /\ faults \subseteq Faults
    /\ budget \in 0..MaxFaults

Init ==
    /\ \E given \in BOOLEAN : obj = New(given)
    /\ seen = obj
    /\ mach = [m \in Machines |-> "absent"]
    /\ mseen = mach
    /\ queued = TRUE
    /\ pc = "idle"
    /\ base = Gone
    /\ scope = Gone
    /\ list = mach
    /\ made = {}
    /\ nodes = {}
    /\ todo = {}
    /\ nb = [n \in NodeBalancers |-> Unused]
    /\ secret = [exists |-> TRUE, deleting |-> FALSE, held |-> FALSE]
    /\ deps = {}
    /\ again = {}
    /\ faults = {}
    /\ budget = MaxFaults

-----------------------------------------------------------------------------
(***************************************************************************)
(* Control flow of a reconcile.                                            *)
(***************************************************************************)
Spend == budget > 0 /\ budget' = budget - 1

\* A call fails, and its caller has the cluster reconciled again whatever the error.
Error == ErrorKinds # {} /\ Spend /\ UNCHANGED faults /\ pc' = "requeue"

\* A call to the NodeBalancer n fails, and only a retryable error has the
\* cluster reconciled again; that the NodeBalancer does not exist is none.
retryIfTransient(n) ==
    /\ UNCHANGED faults
    /\ \/ "transient" \in ErrorKinds /\ Spend /\ pc' = "requeue"
       \/ "fatal" \in ErrorKinds /\ Spend /\ pc' = "return"
       \/ ~Live(n) /\ pc' = "return" /\ UNCHANGED budget

Fault(f) ==
    /\ f \in FaultKinds
    /\ Spend
    /\ faults' = faults \cup {f}

Listed == {m \in Machines : list[m] \in {"new", "up"}}

\* Reconcile: read the cluster and list its control plane machines.  Every
\* reconcile starts with Status.Ready = false.
Reconcile ==
    /\ pc = "idle" /\ queued
    /\ queued' = FALSE
    /\ \/ /\ ~seen.exists
          /\ UNCHANGED <<pc, base, scope, list, histVars>>
       \/ /\ seen.exists
          /\ base' = seen
          /\ scope' = [seen EXCEPT !.ready = FALSE]
          /\ list' = mseen
          /\ pc' = "credentials"
          /\ IF seen = obj /\ mseen = mach THEN UNCHANGED histVars ELSE Fault("stale")
    /\ UNCHANGED <<obj, seen, mach, mseen, made, nodes, todo, nb, secret, deps, again>>

\* The token of the credentials Secret, then deletion or the rest.
SetCredentialRefTokenForLinodeClients ==
    /\ pc = "credentials"
    /\ pc' = CASE ~secret.exists -> "requeue"
               [] secret.exists /\ scope.deleting -> "delete"
               [] secret.exists /\ ~scope.deleting -> "addFinalizer"
    /\ UNCHANGED <<k8sVars, base, scope, localVars, nb, secret, deps, again, histVars>>

\* The patch helper sends what changed between its copy and the scope in three
\* requests: the conditions, the object (metadata and spec) and the status.
PatchParts == {"conditions", "object", "status"}

Merged(sent, before, after, stored) == IF sent /\ before # after THEN after ELSE stored

Patched(o, b, s, parts) ==
    LET object == "object" \in parts IN
    [o EXCEPT
        !.conds = IF "conditions" \in parts THEN @ \cup s.conds ELSE @,
        !.finalizer = Merged(object, b.finalizer, s.finalizer, @),
        !.host = Merged(object, b.host, s.host, @),
        !.nbID = Merged(object, b.nbID, s.nbID, @),
        !.configIDs = Merged(object, b.configIDs, s.configIDs, @),
        !.external = Merged(object, b.external, s.external, @),
        !.ready = Merged("status" \in parts, b.ready, s.ready, @)]

\* AddFinalizer patches the object at once when the finalizer is missing.
AddFinalizer ==
    /\ pc = "addFinalizer"
    /\ scope' = [scope EXCEPT !.finalizer = TRUE]
    /\ \/ /\ scope.finalizer
          /\ pc' = "vpc"
          /\ UNCHANGED <<obj, histVars>>
       \/ /\ ~scope.finalizer /\ obj.exists
          /\ obj' = Patched(obj, base, [scope EXCEPT !.finalizer = TRUE], PatchParts)
          /\ pc' = "vpc"
          /\ UNCHANGED histVars
       \/ /\ ~scope.finalizer /\ obj.exists /\ Error
          /\ UNCHANGED obj
       \/ /\ ~scope.finalizer /\ ~obj.exists
          /\ pc' = "requeue"
          /\ UNCHANGED <<obj, histVars>>
    /\ UNCHANGED <<seen, mach, mseen, queued, base, localVars, nb, secret, deps, again>>

\* A variant that gives up without a requeue.
DependencyMissing_GivesUp(next) == pc' = "return"

\* A LinodeVPC or LinodeFirewall that is not found or not ready ends the
\* reconcile with a requeue or an error.
DependencyMissing(next) == pc' = "requeue"

\* performPreflightChecks, for one reference.
CheckDependency(d, next) ==
    /\ \/ /\ d \notin Refs \/ d \in scope.conds
          /\ pc' = next
          /\ UNCHANGED scope
       \/ /\ d \in Refs \ scope.conds /\ d \in deps
          /\ scope' = [scope EXCEPT !.conds = @ \cup {d}]
          /\ pc' = next
       \/ /\ d \in Refs \ scope.conds /\ d \notin deps
          /\ DependencyMissing(next)
          /\ UNCHANGED scope
    /\ UNCHANGED <<k8sVars, base, localVars, nb, secret, deps, again, histVars>>

reconcilePreflightLinodeVPCCheck == pc = "vpc" /\ CheckDependency("vpc", "firewall")

\* A cluster with an endpoint skips reconcileCreate.
reconcilePreflightLinodeFirewallCheck ==
    pc = "firewall" /\ CheckDependency("firewall", IF scope.host THEN "ready" ELSE "addCredentialsFinalizer")

-----------------------------------------------------------------------------
(***************************************************************************)
(* reconcileCreate with handleNBCreate.                                    *)
(***************************************************************************)
AddCredentialsRefFinalizer ==
    /\ pc = "addCredentialsFinalizer"
    /\ \/ /\ secret.exists
          /\ secret' = [secret EXCEPT !.held = TRUE]
          /\ pc' = "nodeBalancer"
          /\ UNCHANGED histVars
       \/ /\ secret.exists /\ Error
          /\ UNCHANGED secret
       \/ /\ ~secret.exists
          /\ pc' = "requeue"
          /\ UNCHANGED <<secret, histVars>>
    /\ UNCHANGED <<k8sVars, base, scope, localVars, nb, deps, again>>

WithNodeBalancer(n) ==
    /\ scope' = [scope EXCEPT !.nbID = n]
    /\ pc' = "configs"
    /\ made' = {}

\* The NodeBalancer of the spec, or a new one.  The API refuses a label that is
\* taken, here by a NodeBalancer whose creation got no answer.
EnsureNodeBalancer ==
    LET taken == \E n \in NodeBalancers : Live(n) IN
    /\ pc = "nodeBalancer"
    /\ \/ /\ scope.nbID # None
          /\ Live(scope.nbID)
          /\ WithNodeBalancer(scope.nbID)
          /\ UNCHANGED <<nb, histVars>>
       \/ /\ scope.nbID = None /\ ~taken
          /\ \E n \in NodeBalancers :
                /\ nb[n].state = "unused"
                /\ nb' = [nb EXCEPT ![n].state = "live"]
                /\ \/ WithNodeBalancer(n) /\ UNCHANGED histVars
                   \/ Fault("lostReply") /\ pc' = "requeue" /\ UNCHANGED <<scope, made>>
       \/ /\ scope.nbID = None /\ taken
          /\ pc' = "adopt"
          /\ UNCHANGED <<scope, made, nb, histVars>>
       \/ /\ scope.nbID # None /\ ~Live(scope.nbID)
          /\ pc' = "requeue"
          /\ UNCHANGED <<scope, made, nb, histVars>>
       \/ Error /\ UNCHANGED <<scope, made, nb>>
    /\ UNCHANGED <<k8sVars, base, list, nodes, todo, secret, deps, again>>

\* List the NodeBalancers with the label and take the first.
getNBFromLabel ==
    /\ pc = "adopt"
    /\ \/ (\E n \in NodeBalancers : Live(n) /\ WithNodeBalancer(n)) /\ UNCHANGED histVars
       \/ /\ \A n \in NodeBalancers : ~Live(n)
          /\ pc' = "requeue"
          /\ UNCHANGED <<scope, made, histVars>>
       \/ Error /\ UNCHANGED <<scope, made>>
    /\ UNCHANGED <<k8sVars, base, list, nodes, todo, nb, secret, deps, again>>

\* The ports are served in order, the API server's first.
NextPort(p) == p \notin made /\ (p = "api" \/ "api" \in made)

\* The configuration of every port is created in each attempt, since the ids
\* get into the spec only when all of them are there.  The API refuses a second
\* one for a port.  A user may put the id of a configuration into the spec, which
\* is then read and not created: the clusters here have none.
EnsureNodeBalancerConfigs ==
    LET n == scope.nbID IN
    /\ pc = "configs" /\ made # Ports
    /\ \E p \in Ports :
          /\ NextPort(p)
          /\ \/ /\ Live(n) /\ p \notin nb[n].configs
                /\ nb' = [nb EXCEPT ![n].configs = @ \cup {p}]
                /\ \/ made' = made \cup {p} /\ UNCHANGED <<pc, histVars>>
                   \/ Fault("lostReply") /\ pc' = "requeue" /\ UNCHANGED made
                /\ UNCHANGED again
             \/ /\ Live(n) /\ p \in nb[n].configs
                /\ again' = again \cup {"config"}
                /\ pc' = "requeue"
                /\ UNCHANGED <<nb, made, histVars>>
             \/ /\ ~Live(n)
                /\ pc' = "requeue"
                /\ UNCHANGED <<nb, made, again, histVars>>
             \/ Error /\ UNCHANGED <<nb, made, again>>
    /\ UNCHANGED <<k8sVars, base, scope, list, nodes, todo, secret, deps>>

\* A variant that forgets the ids of the configurations.
Balanced_NoConfigIDs(o) == [o EXCEPT !.host = TRUE]

\* The spec with the ids of the configurations and the endpoint.
Balanced(o) == [o EXCEPT !.configIDs = TRUE, !.host = TRUE]

\* The end of handleNBCreate.
handleNBCreate ==
    /\ pc = "configs" /\ made = Ports
    /\ scope' = Balanced(scope)
    /\ made' = {}
    /\ pc' = "ready"
    /\ UNCHANGED <<k8sVars, base, list, nodes, todo, nb, secret, deps, again, histVars>>

-----------------------------------------------------------------------------
(***************************************************************************)
(* addMachineToLB.                                                         *)
(***************************************************************************)
\* The cluster is ready; its machines are added once all of them have addresses.
\* Without a NodeBalancer of its own the cluster is managed externally.
SetReady ==
    /\ pc = "ready"
    /\ scope' = [scope EXCEPT !.ready = TRUE,
                   !.external = @ \/ (/\ \A m \in Listed : list[m] = "up"
                                      /\ scope.nbID = None \/ ~scope.configIDs)]
    /\ pc' = IF scope'.external \/ \E m \in Listed : list[m] = "new"
             THEN "return" ELSE "listNodes"
    /\ UNCHANGED <<k8sVars, base, localVars, nb, secret, deps, again, histVars>>

\* The nodes of the API server's configuration are listed; of the other ports
\* nothing is known.
ListNodeBalancerNodes ==
    /\ pc = "listNodes"
    /\ \/ /\ Live(scope.nbID)
          /\ nodes' = nb[scope.nbID].nodes["api"]
          /\ todo' = {mp \in Listed \X Ports : mp[2] = "api" => mp[1] \notin nodes'}
          /\ pc' = "addNodes"
          /\ UNCHANGED histVars
       \/ retryIfTransient(scope.nbID) /\ UNCHANGED <<nodes, todo>>
    /\ UNCHANGED <<k8sVars, base, scope, list, made, nb, secret, deps, again>>

AddNode(n, m, p) == nb' = [nb EXCEPT ![n].nodes[p] = @ \cup {m}]

\* AddNodesToNB for each machine and processAndCreateNodeBalancerNodes for each
\* port, the API server's first.
AddNodesToNB ==
    LET n == scope.nbID IN
    /\ pc = "addNodes"
    /\ \/ /\ todo = {}
          /\ pc' = "prune"
          /\ UNCHANGED <<todo, nb, again, histVars>>
       \/ \E mp \in todo :
             /\ mp[2] = "api" \/ <<mp[1], "api">> \notin todo
             /\ \/ /\ Live(n) /\ (mp[1] \in nb[n].nodes[mp[2]] => DuplicateNodes)
                   /\ AddNode(n, mp[1], mp[2])
                   /\ again' = IF mp[1] \in nb[n].nodes[mp[2]] THEN again \cup {"node"} ELSE again
                   /\ \/ todo' = todo \ {mp} /\ UNCHANGED <<pc, histVars>>
                      \/ Fault("lostReply") /\ pc' = "requeue" /\ UNCHANGED todo
                \/ /\ Live(n) /\ mp[1] \in nb[n].nodes[mp[2]] /\ ~DuplicateNodes
                   /\ again' = again \cup {"node"}
                   /\ pc' = "return"
                   /\ UNCHANGED <<todo, nb, histVars>>
                \/ retryIfTransient(n) /\ UNCHANGED <<todo, nb, again>>
    /\ UNCHANGED <<k8sVars, base, scope, list, made, nodes, secret, deps>>

\* Variants of getIPPortCombo: the machines that were not listed at the
\* NodeBalancer; all that were ever known.
getIPPortCombo_New == {m \in Listed : list[m] = "up"} \ nodes
getIPPortCombo_All == Machines

\* The machines whose addresses belong into the NodeBalancer.
getIPPortCombo == {m \in Listed : list[m] = "up"}

\* The end of addMachineToLB: nodes of machines that are not listed are deleted.
DeleteNodeBalancerNode ==
    LET n == scope.nbID IN
    /\ pc = "prune"
    /\ \/ /\ nodes \subseteq getIPPortCombo
          /\ pc' = "return"
          /\ UNCHANGED <<nodes, nb, histVars>>
       \/ \E m \in nodes \ getIPPortCombo :
             \/ /\ Live(n)
                /\ nb' = [nb EXCEPT ![n].nodes["api"] = @ \ {m}]
                /\ \/ nodes' = nodes \ {m} /\ UNCHANGED <<pc, histVars>>
                   \/ Fault("lostReply") /\ pc' = "requeue" /\ UNCHANGED nodes
             \/ retryIfTransient(n) /\ UNCHANGED <<nodes, nb>>
    /\ UNCHANGED <<k8sVars, base, scope, list, made, todo, secret, deps, again>>

-----------------------------------------------------------------------------
(***************************************************************************)
(* reconcileDelete.                                                        *)
(***************************************************************************)
\* A variant that takes a cluster without an endpoint for one without a
\* NodeBalancer.
HasNodeBalancer_Endpoint == ~scope.external /\ scope.nbID # None /\ scope.host

\* The cases of reconcileDelete: a NodeBalancer of its own, or none.
HasNodeBalancer == ~scope.external /\ scope.nbID # None

\* DeleteNodesFromNB addresses the nodes by the ids of the instances: the calls
\* find nothing and their 404 is ignored.  Without an endpoint there are none.
DeleteNodesFromNB ==
    /\ pc = "delete"
    /\ \/ /\ pc' = IF HasNodeBalancer THEN "deleteNB" ELSE "wait"
          /\ UNCHANGED histVars
       \/ HasNodeBalancer /\ scope.host /\ Listed # {} /\ Error
    /\ UNCHANGED <<k8sVars, base, scope, localVars, nb, secret, deps, again>>

\* A NodeBalancer that is gone already is fine.
DeleteNodeBalancer ==
    LET n == scope.nbID
        Deleted == nb' = [nb EXCEPT ![n] = [Unused EXCEPT !.state = "deleted"]]
    IN
    /\ pc = "deleteNB"
    /\ \/ /\ Deleted
          /\ scope' = [scope EXCEPT !.nbID = None, !.configIDs = FALSE]
          /\ pc' = "wait"
          /\ UNCHANGED histVars
       \/ Deleted /\ Fault("lostReply") /\ pc' = "requeue" /\ UNCHANGED scope
       \/ Error /\ UNCHANGED <<nb, scope>>
    /\ UNCHANGED <<k8sVars, base, localVars, secret, deps, again>>

\* Variants: do not wait; wait for an event of the machines.
WaitForMachines_Not == pc = "wait" /\ pc' = "release"
WaitForMachines_Event == pc = "wait" /\ pc' = IF Listed = {} THEN "release" ELSE "return"

\* Machines of the control plane hold the deletion up.
WaitForMachines == pc = "wait" /\ pc' = IF Listed = {} THEN "release" ELSE "requeue"

reconcileDelete ==
    /\ WaitForMachines
    /\ UNCHANGED <<k8sVars, base, scope, localVars, nb, secret, deps, again, histVars>>

\* The Secret is released, then the cluster itself.
RemoveCredentialsRefFinalizer ==
    /\ pc = "release"
    /\ \/ /\ secret' = [secret EXCEPT !.held = FALSE, !.exists = @ /\ ~secret.deleting]
          /\ scope' = [scope EXCEPT !.finalizer = FALSE]
          /\ pc' = "return"
          /\ UNCHANGED histVars
       \/ secret.exists /\ Error /\ UNCHANGED <<secret, scope>>
    /\ UNCHANGED <<k8sVars, base, localVars, nb, deps, again>>

-----------------------------------------------------------------------------
\* An object that is being deleted goes away with its last finalizer.
Stored(o) == IF o.deleting /\ ~o.finalizer THEN Gone ELSE o

\* The end of reconcile: the deferred patch.  Its failure is the result of the
\* reconcile, except that the object is gone.
Close ==
    /\ pc \in {"return", "requeue"}
    /\ \/ /\ obj' = IF obj.exists THEN Stored(Patched(obj, base, scope, PatchParts)) ELSE obj
          /\ queued' = (queued \/ pc = "requeue")
          /\ UNCHANGED histVars
       \/ /\ obj.exists /\ Fault("lostPatch")
          /\ \E parts \in SUBSET PatchParts \ {PatchParts} :
                obj' = Stored(Patched(obj, base, scope, parts))
          /\ queued' = TRUE
    /\ pc' = "idle"
    /\ base' = Gone
    /\ scope' = Gone
    /\ list' = [m \in Machines |-> "absent"]
    /\ made' = {}
    /\ nodes' = {}
    /\ todo' = {}
    /\ UNCHANGED <<seen, mach, mseen, nb, secret, deps, again>>

\* The controller dies in a reconcile; the next one lists all objects.
Crash ==
    /\ pc # "idle" /\ Fault("crash")
    /\ pc' = "idle"
    /\ seen' = obj
    /\ mseen' = mach
    /\ queued' = obj.exists
    /\ base' = Gone
    /\ scope' = Gone
    /\ list' = [m \in Machines |-> "absent"]
    /\ made' = {}
    /\ nodes' = {}
    /\ todo' = {}
    /\ UNCHANGED <<obj, mach, nb, secret, deps, again>>

-----------------------------------------------------------------------------
(***************************************************************************)
(* The environment.                                                        *)
(***************************************************************************)
ctrlVars == <<pc, base, scope, localVars>>

CacheSync ==
    /\ seen # obj
    /\ seen' = obj
    /\ queued' = TRUE
    /\ UNCHANGED <<obj, mach, mseen, ctrlVars, nb, secret, deps, again, histVars>>

\* linodeMachineToLinodeCluster: an event of a machine wakes its cluster, unless
\* the owner of the machine is gone already.
linodeMachineToLinodeCluster(m) ==
    /\ mseen[m] # mach[m]
    /\ mseen' = [mseen EXCEPT ![m] = mach[m]]
    /\ \/ queued' = TRUE /\ UNCHANGED histVars
       \/ mach[m] = "gone" /\ Fault("lostEvent") /\ UNCHANGED queued
    /\ UNCHANGED <<obj, seen, mach, ctrlVars, nb, secret, deps, again>>

\* An event of the Cluster or a Machine, or a resync.
Wakeup ==
    /\ ~queued /\ seen.exists
    /\ queued' = TRUE
    /\ UNCHANGED <<obj, seen, mach, mseen, ctrlVars, nb, secret, deps, again, histVars>>

MachineCreated(m) ==
    /\ mach[m] = "absent" /\ obj.exists /\ ~obj.deleting
    /\ mach' = [mach EXCEPT ![m] = "new"]
    /\ UNCHANGED <<obj, seen, mseen, queued, ctrlVars, nb, secret, deps, again, histVars>>

MachineUp(m) ==
    /\ mach[m] = "new"
    /\ mach' = [mach EXCEPT ![m] = "up"]
    /\ UNCHANGED <<obj, seen, mseen, queued, ctrlVars, nb, secret, deps, again, histVars>>

MachineDeleted(m) ==
    /\ mach[m] \in {"new", "up"}
    /\ mach' = [mach EXCEPT ![m] = "gone"]
    /\ UNCHANGED <<obj, seen, mseen, queued, ctrlVars, nb, secret, deps, again, histVars>>

DependencyReady(d) ==
    /\ d \notin deps
    /\ deps' = deps \cup {d}
    /\ UNCHANGED <<k8sVars, ctrlVars, nb, secret, again, histVars>>

UserDelete ==
    /\ obj.exists /\ ~obj.deleting
    /\ obj' = Stored([obj EXCEPT !.deleting = TRUE])
    /\ UNCHANGED <<seen, mach, mseen, queued, ctrlVars, nb, secret, deps, again, histVars>>

UserDeletesSecret ==
    /\ secret.exists /\ ~secret.deleting
    /\ secret' = [secret EXCEPT !.deleting = TRUE, !.exists = secret.held]
    /\ UNCHANGED <<k8sVars, ctrlVars, nb, deps, again, histVars>>

OutOfBand(n) ==
    /\ Live(n) /\ Fault("outOfBand")
    /\ nb' = [nb EXCEPT ![n] = [Unused EXCEPT !.state = "deleted"]]
    /\ UNCHANGED <<k8sVars, ctrlVars, secret, deps, again>>

ReconcileStep ==
    \/ Reconcile \/ SetCredentialRefTokenForLinodeClients \/ AddFinalizer
    \/ reconcilePreflightLinodeVPCCheck \/ reconcilePreflightLinodeFirewallCheck
    \/ AddCredentialsRefFinalizer \/ EnsureNodeBalancer \/ getNBFromLabel
    \/ EnsureNodeBalancerConfigs \/ handleNBCreate \/ SetReady \/ ListNodeBalancerNodes
    \/ AddNodesToNB \/ DeleteNodeBalancerNode \/ DeleteNodesFromNB \/ DeleteNodeBalancer
    \/ reconcileDelete \/ RemoveCredentialsRefFinalizer \/ Close

Next ==
    \/ ReconcileStep \/ Crash \/ CacheSync \/ Wakeup \/ UserDelete \/ UserDeletesSecret
    \/ \E m \in Machines : \/ linodeMachineToLinodeCluster(m)
                           \/ MachineCreated(m) \/ MachineUp(m) \/ MachineDeleted(m)
    \/ \E d \in Refs : DependencyReady(d)
    \/ \E n \in NodeBalancers : OutOfBand(n)

Spec == Init /\ [][Next]_vars

\* The controller goes on, the cache follows, new machines get addresses, and
\* machines of a cluster that is being deleted are deleted.
Fairness ==
    /\ WF_vars(ReconcileStep)
    /\ WF_vars(CacheSync)
    /\ \A m \in Machines : /\ WF_vars(linodeMachineToLinodeCluster(m))
                           /\ WF_vars(MachineUp(m))
                           /\ WF_vars(obj.deleting /\ MachineDeleted(m))

FairSpec == Spec /\ Fairness

-----------------------------------------------------------------------------
(***************************************************************************)
(* Properties.                                                             *)
(***************************************************************************)
Undisturbed(fs) == faults \cap fs = {}

\* When the cluster is gone (reconcileDelete removed its finalizer), so is its
\* NodeBalancer: its id is in the spec as soon as handleNBCreate has it, also
\* when the configurations fail.  Only a lost answer or patch, a crash or an
\* outdated copy can leave it behind.
NoOrphanNodeBalancer ==
    ~obj.exists /\ Undisturbed({"lostReply", "lostPatch", "crash", "stale"}) =>
        \A n \in NodeBalancers : ~Live(n)

\* An endpoint that handleNBCreate published belongs to a NodeBalancer whose id
\* and configuration ids are known, in every copy of the cluster and whatever
\* part of a patch got lost: DeleteNodesFromNB dereferences them.  The
\* configurations are complete as well, unless a reconcile of an outdated copy
\* replaced a NodeBalancer that someone else had deleted: its id goes into a
\* spec that has the endpoint already, even when a configuration failed.
EndpointComplete ==
    \A o \in {obj, seen, base, scope} :
        o.host /\ ~o.given /\ (o.nbID # None \/ ~o.deleting) =>
            /\ o.nbID # None /\ o.configIDs
            /\ Live(o.nbID) => \/ nb[o.nbID].configs = Ports
                               \/ {"stale", "outOfBand"} \subseteq faults

\* addMachineToLB hands only a cluster over to external management whose
\* endpoint the user gave: reconcileDelete would keep the NodeBalancer.
NeverExternalised == obj.external => obj.given

\* What the cluster says about its endpoint is true: it is that of a complete
\* NodeBalancer of the controller, or the user gave it.
EndpointSound == EndpointComplete /\ NeverExternalised

\* addMachineToLB never takes a machine out of the NodeBalancer that is up,
\* however old the lists it works with are.
NodeKept ==
    [][\A n \in NodeBalancers, m \in Machines :
          m \in nb[n].nodes["api"] /\ Live(n)' /\ m \notin nb'[n].nodes["api"] =>
              mach[m] = "gone"]_vars

\* reconcileDelete lets the cluster go only after the machines of its control
\* plane: its list of them is short only if it is outdated.
NoMachineLeft ==
    [][obj.finalizer /\ ~obj'.exists /\ Undisturbed({"stale"}) =>
          \A m \in Machines : mach[m] \in {"absent", "gone"}]_vars

\* What the controller needs to work on a cluster that is not being deleted.
Workable == obj.exists /\ ~obj.deleting /\ secret.exists /\ deps = Refs

\* The cluster becomes ready, whatever was lost on the way, unless a configuration
\* was tried again that exists, or someone else deleted the NodeBalancer, whose id
\* stays in the spec: those never succeed.
EventuallyReady ==
    Workable ~> obj.ready \/ ~Workable \/ "config" \in again \/ "outOfBand" \in faults

\* A cluster on which the controller can work and whose events all arrive.
Watched == Workable /\ obj.ready /\ "lostEvent" \notin faults

\* A machine that is up gets its place in the NodeBalancer and keeps it,
\* although the reconcile that saw it come up may have left it to a later one
\* because another machine had no address yet.
EventuallyBalanced ==
    \A m \in Machines :
        <>[](Watched /\ ~obj.given /\ mach[m] = "up") =>
            <>[](\E n \in NodeBalancers : Live(n) /\ m \in nb[n].nodes["api"])

\* The node of a machine that is gone is removed for good by addMachineToLB,
\* also when an outdated list brought it back.
EventuallyPruned ==
    \A m \in Machines :
        <>[](Watched /\ mach[m] = "gone") =>
            <>[](\A n \in NodeBalancers : Live(n) => m \notin nb[n].nodes["api"])

\* A cluster that is deleted goes away, unless its Secret went first.
EventuallyGone == obj.deleting ~> ~obj.exists \/ ~secret.exists

\* processAndCreateNodeBalancerNodes creates a node if its address does not
\* exist.
NodeOnce == "node" \notin again

=============================================================================
