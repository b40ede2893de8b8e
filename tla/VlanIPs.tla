------------------------------- MODULE VlanIPs -------------------------------
(***************************************************************************)
(* The addresses of the machines of one cluster on its VLAN                *)
(* (util/vlanips.go).  They are handed out from a list in the memory of    *)
(* the controller, which is lost with the process and dropped with the     *)
(* LinodeCluster, and rebuilt from the addresses that the LinodeMachines   *)
(* have in their status by then.                                           *)
(*                                                                         *)
(* Of the LinodeMachine controller (module LinodeMachine) this module      *)
(* keeps what decides about addresses: every attempt at a creation takes   *)
(* a new one, the instance keeps the one it was created with, and the      *)
(* status gets the one that the instance reports.                          *)
(***************************************************************************)
EXTENDS Naturals, FiniteSets

CONSTANTS
    Machines,       \* the LinodeMachines of the cluster
    ControlPlane,   \* those with the control plane label
    Lists,          \* identities of the ClusterIPs structs
    None,           \* a nil pointer
    FaultKinds,     \* faults that may happen: see Faults
    MaxFaults       \* bound on the faults together

\* "error": a request fails, or the POST limit is reached; "lostReply": a
\* request is served but fails for the client; "lostPatch": some of the requests
\* of a patch fail; "crash": the controller dies; "stale": a reconcile reads an
\* outdated copy; "earlyDelete": the LinodeCluster is deleted while it has
\* machines (Cluster API itself deletes the machines first).
Faults == {"error", "lostReply", "lostPatch", "crash", "stale", "earlyDelete"}

ASSUME VlanAssumptions ==
    /\ IsFiniteSet(Machines)
    /\ ControlPlane \subseteq Machines
    /\ None \notin Lists
    /\ FaultKinds \subseteq Faults
    /\ MaxFaults \in Nat

VARIABLES
    entry,      \* vlanIPsMap[key]: the list of the cluster, or None
    ips,        \* the addresses in each list
    obj,        \* the LinodeMachines as stored by the Kubernetes API server
    seen,       \* the controller's cached copies
    inst,       \* VLAN address of the instance labelled for each machine, 0 without one
    pc,         \* where the reconcile of a machine is
    scope,      \* its copy of the machine
    base,       \* the patch helper's copy, taken when the reconcile started
    held,       \* the list that GetNextVlanIP got for it
    ip,         \* the address in its createConfig
    cluster,    \* "up", "deleting" or "gone"
    lost,       \* history: machines whose address was unrecorded when a list was dropped
    budget      \* how many more faults may happen

ctrlVars == <<pc, scope, base, held, ip>>
vars == <<entry, ips, obj, seen, inst, ctrlVars, cluster, lost, budget>>

\* What matters of a LinodeMachine: whether Spec.ProviderID is set, and the VLAN
\* address in Status.Addresses (0 without one).
LinodeMachineObject ==
    [phase: {"absent", "present", "deleting", "gone"}, providerID: BOOLEAN, address: Nat]

Absent == [phase |-> "absent", providerID |-> FALSE, address |-> 0]

Exists(o) == o.phase \in {"present", "deleting"}

TypeOK ==
    /\ entry \in Lists \cup {None}
    /\ ips \in [Lists -> SUBSET Nat]
    /\ \A o \in {obj, seen, scope, base} : o \in [Machines -> LinodeMachineObject]
    /\ inst \in [Machines -> Nat]
    /\ pc \in [Machines -> {"idle", "list", "next", "post", "ready", "delete",
                            "return", "requeue"}]
    /\ held \in [Machines -> Lists \cup {None}]
    /\ ip \in [Machines -> Nat]
    /\ cluster \in {"up", "deleting", "gone"}
    /\ lost \subseteq Machines
    /\ budget \in 0..MaxFaults

Init ==
    /\ entry = None
    /\ ips = [l \in Lists |-> {}]
    /\ obj = [m \in Machines |-> Absent]
    /\ seen = [m \in Machines |-> Absent]
    /\ inst = [m \in Machines |-> 0]
    /\ pc = [m \in Machines |-> "idle"]
    /\ scope = [m \in Machines |-> Absent]
    /\ base = [m \in Machines |-> Absent]
    /\ held = [m \in Machines |-> None]
    /\ ip = [m \in Machines |-> 0]
    /\ cluster = "up"
    /\ lost = {}
    /\ budget = MaxFaults

-----------------------------------------------------------------------------
Goto(m, l) == pc' = [pc EXCEPT ![m] = l]

Fault(f) == f \in FaultKinds /\ budget > 0 /\ budget' = budget - 1

\* A reconcile needs the LinodeCluster; it deletes, creates or completes the
\* machine as far as its copy of it says.
Reconcile(m) ==
    LET o == seen[m] IN
    /\ pc[m] = "idle" /\ Exists(o) /\ cluster # "gone"
    /\ o.phase = "present" => o.address = 0
    /\ scope' = [scope EXCEPT ![m] = o]
    /\ base' = [base EXCEPT ![m] = o]
    /\ Goto(m, CASE o.phase = "deleting" -> "delete"
                 [] o.phase = "present" /\ o.providerID -> "ready"
                 [] o.phase = "present" /\ ~o.providerID -> "list")
    /\ IF o = obj[m] THEN UNCHANGED budget ELSE Fault("stale")
    /\ UNCHANGED <<entry, ips, obj, seen, inst, held, ip, cluster, lost>>

\* A variant that starts with an empty list.
getExistingIPsForCluster_None == {}

\* The addresses in the status of the cluster's LinodeMachines.
getExistingIPsForCluster == {seen[m].address : m \in {n \in Machines : Exists(seen[n])}} \ {0}

\* Under vlanIPsMu: the list of the cluster, made when there is none.  It is none
\* of the dropped ones that a reconcile still holds.
getClusterIPs(m) ==
    /\ pc[m] = "list"
    /\ \/ /\ entry # None
          /\ held' = [held EXCEPT ![m] = entry]
          /\ Goto(m, "next")
          /\ UNCHANGED <<entry, ips, budget>>
       \/ /\ entry = None
          /\ \E l \in Lists :
                /\ \A n \in Machines : held[n] # l
                /\ ips' = [ips EXCEPT ![l] = getExistingIPsForCluster]
                /\ entry' = l
                /\ held' = [held EXCEPT ![m] = l]
          /\ Goto(m, "next")
          /\ UNCHANGED budget
       \/ /\ entry = None /\ Fault("error")
          /\ Goto(m, "requeue")
          /\ UNCHANGED <<entry, ips, held>>
    /\ UNCHANGED <<obj, seen, inst, scope, base, ip, cluster, lost>>

\* Under the lock of the list: the first address that it does not have.
getNextIP(m) ==
    \E a \in 1..(Cardinality(ips[held[m]]) + 1) :
        /\ a \notin ips[held[m]] /\ \A b \in 1..(a - 1) : b \in ips[held[m]]
        /\ ip' = [ip EXCEPT ![m] = a]
        /\ ips' = [ips EXCEPT ![held[m]] = @ \cup {a}]

GetNextVlanIP(m) ==
    /\ pc[m] = "next"
    /\ getNextIP(m)
    /\ Goto(m, "post")
    /\ UNCHANGED <<entry, obj, seen, inst, scope, base, held, cluster, lost, budget>>

\* createInstance: a new instance gets the address of the createConfig.  If the
\* label is taken, the instance that has it is adopted, with its own address.
createInstance(m) ==
    /\ pc[m] = "post"
    /\ \/ /\ inst' = [inst EXCEPT ![m] = IF @ = 0 THEN ip[m] ELSE @]
          /\ scope' = [scope EXCEPT ![m].providerID = TRUE]
          /\ Goto(m, "ready")
          /\ UNCHANGED budget
       \/ /\ inst[m] = 0 /\ Fault("lostReply")
          /\ inst' = [inst EXCEPT ![m] = ip[m]]
          /\ Goto(m, "requeue")
          /\ UNCHANGED scope
       \/ /\ Fault("error")
          /\ Goto(m, "requeue")
          /\ UNCHANGED <<inst, scope>>
    /\ held' = [held EXCEPT ![m] = None]
    /\ ip' = [ip EXCEPT ![m] = 0]
    /\ UNCHANGED <<entry, ips, obj, seen, base, cluster, lost>>

\* A variant that takes the address that was handed out last.
handleVlanIps_Last(m) == IF entry = None THEN inst[m] ELSE Cardinality(ips[entry])

\* The address that the interfaces of the instance report.
handleVlanIps(m) == inst[m]

\* reconcilePreflightReady: the addresses of the instance go into the status.
reconcilePreflightReady(m) ==
    /\ pc[m] = "ready"
    /\ \/ /\ inst[m] # 0
          /\ scope' = [scope EXCEPT ![m].address = handleVlanIps(m)]
          /\ Goto(m, "return")
          /\ UNCHANGED budget
       \/ /\ Fault("error")
          /\ Goto(m, "requeue")
          /\ UNCHANGED scope
    /\ UNCHANGED <<entry, ips, obj, seen, inst, base, held, ip, cluster, lost>>

\* The instance is deleted if the copy has its ProviderID, then the finalizer
\* is taken away.
reconcileDelete(m) ==
    /\ pc[m] = "delete"
    /\ \/ /\ inst' = [inst EXCEPT ![m] = IF scope[m].providerID THEN 0 ELSE @]
          /\ scope' = [scope EXCEPT ![m].phase = "gone"]
          /\ Goto(m, "return")
          /\ UNCHANGED budget
       \/ /\ Fault("error")
          /\ Goto(m, "requeue")
          /\ UNCHANGED <<inst, scope>>
    /\ UNCHANGED <<entry, ips, obj, seen, base, held, ip, cluster, lost>>

\* The deferred patch: ProviderID and the finalizer go in one request, the
\* status in another.
Patched(o, b, s, parts) ==
    IF "object" \in parts /\ s.phase = "gone" THEN [Absent EXCEPT !.phase = "gone"]
    ELSE [o EXCEPT
            !.providerID = IF "object" \in parts /\ b.providerID # s.providerID
                           THEN s.providerID ELSE @,
            !.address = IF "status" \in parts /\ b.address # s.address THEN s.address ELSE @]

Close(m) ==
    /\ pc[m] \in {"return", "requeue"}
    /\ \/ /\ ~Exists(obj[m])
          /\ UNCHANGED <<obj, budget>>
       \/ /\ Exists(obj[m])
          /\ obj' = [obj EXCEPT ![m] = Patched(@, base[m], scope[m], {"object", "status"})]
          /\ UNCHANGED budget
       \/ /\ Exists(obj[m]) /\ Fault("lostPatch")
          /\ \E parts \in {{}, {"object"}, {"status"}} :
                obj' = [obj EXCEPT ![m] = Patched(@, base[m], scope[m], parts)]
    /\ Goto(m, "idle")
    /\ scope' = [scope EXCEPT ![m] = Absent]
    /\ base' = [base EXCEPT ![m] = Absent]
    /\ UNCHANGED <<entry, ips, seen, inst, held, ip, cluster, lost>>

-----------------------------------------------------------------------------
CacheSync(m) ==
    /\ seen[m] # obj[m]
    /\ seen' = [seen EXCEPT ![m] = obj[m]]
    /\ UNCHANGED <<entry, ips, obj, inst, ctrlVars, cluster, lost, budget>>

UserCreate(m) ==
    /\ cluster = "up" /\ obj[m].phase = "absent"
    /\ obj' = [obj EXCEPT ![m].phase = "present"]
    /\ UNCHANGED <<entry, ips, seen, inst, ctrlVars, cluster, lost, budget>>

UserDelete(m) ==
    /\ obj[m].phase = "present"
    /\ obj' = [obj EXCEPT ![m].phase = "deleting"]
    /\ UNCHANGED <<entry, ips, seen, inst, ctrlVars, cluster, lost, budget>>

\* Deleting a LinodeCluster that still has machines is left to "earlyDelete".
UserDeletesCluster ==
    /\ cluster = "up"
    /\ \/ (\A m \in Machines : ~Exists(obj[m])) /\ UNCHANGED budget
       \/ (\E m \in Machines : Exists(obj[m])) /\ Fault("earlyDelete")
    /\ cluster' = "deleting"
    /\ UNCHANGED <<entry, ips, obj, seen, inst, ctrlVars, lost>>

UserCreatesCluster ==
    /\ cluster = "gone"
    /\ cluster' = "up"
    /\ UNCHANGED <<entry, ips, obj, seen, inst, ctrlVars, lost, budget>>

\* Machines whose instance has an address that the records o do not show.
Unrecorded(o) ==
    {m \in Machines : inst[m] # 0 /\ ~(Exists(o[m]) /\ o[m].address = inst[m])}

\* Machines that are being created with an address of a list.
InFlight == {m \in Machines : pc[m] \in {"next", "post"}}

\* The end of the LinodeCluster's reconcileDelete: only the machines of the
\* control plane hold it up.  It is tried again if the finalizer stays.
DeleteClusterIPs ==
    /\ cluster = "deleting"
    /\ \A m \in ControlPlane : ~Exists(seen[m])
    /\ entry' = None
    /\ lost' = lost \cup Unrecorded(seen) \cup InFlight
    /\ \/ cluster' = "gone" /\ UNCHANGED budget
       \/ Fault("error") /\ UNCHANGED cluster
    /\ UNCHANGED <<ips, obj, seen, inst, ctrlVars>>

\* The controller dies; the next one lists all objects.
Crash ==
    /\ Fault("crash")
    /\ entry' = None
    /\ ips' = [l \in Lists |-> {}]
    /\ lost' = lost \cup Unrecorded(obj)
    /\ seen' = obj
    /\ pc' = [m \in Machines |-> "idle"]
    /\ scope' = [m \in Machines |-> Absent]
    /\ base' = [m \in Machines |-> Absent]
    /\ held' = [m \in Machines |-> None]
    /\ ip' = [m \in Machines |-> 0]
    /\ UNCHANGED <<obj, inst, cluster>>

Next ==
    \/ \E m \in Machines :
          \/ Reconcile(m) \/ getClusterIPs(m) \/ GetNextVlanIP(m) \/ createInstance(m)
          \/ reconcilePreflightReady(m) \/ reconcileDelete(m) \/ Close(m)
          \/ CacheSync(m) \/ UserCreate(m) \/ UserDelete(m)
    \/ UserDeletesCluster \/ UserCreatesCluster \/ DeleteClusterIPs \/ Crash

Spec == Init /\ [][Next]_vars

-----------------------------------------------------------------------------
(***************************************************************************)
(* Properties.                                                             *)
(***************************************************************************)
\* GetNextVlanIP returns an available address: the instances of two machines of
\* a cluster never have the same one.
UniqueVlanIP ==
    \A m, n \in Machines :
        m # n /\ Exists(obj[m]) /\ Exists(obj[n]) /\ inst[m] # 0 => inst[m] # inst[n]

\* The same, except for machines whose address was in no status yet when the
\* list was dropped, by a crash or by DeleteClusterIPs: what the records show
\* getExistingIPsForCluster recovers.
UniqueUnlessLost ==
    \A m, n \in Machines \ lost :
        m # n /\ Exists(obj[m]) /\ Exists(obj[n]) /\ inst[m] # 0 => inst[m] # inst[n]

\* The VLAN address in the status of a machine is the one its instance has, also
\* when a later attempt adopted the instance of an earlier one
\* (reconcilePreflightReady asks the instance, not the createConfig).
AddressIsReal ==
    \A m \in Machines : obj[m].address # 0 /\ inst[m] # 0 => obj[m].address = inst[m]

=============================================================================
