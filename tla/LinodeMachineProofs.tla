------------------------ MODULE LinodeMachineProofs ------------------------
(***************************************************************************)
(* Proofs about LinodeMachine for any number of machines, instances and    *)
(* disks and any number of faults: type correctness, and that the          *)
(* ProviderID of a machine only ever names an instance with its label.     *)
(*                                                                         *)
(* The proofs go variable by variable.  A lemma says what a step may do to *)
(* the instances, another what it may do to the scope, a third what it may *)
(* do to the stored objects, each with one step per action that touches    *)
(* the variable; the invariants follow from these.                         *)
(*                                                                         *)
(* The second half prepares the other safety properties, which relate the  *)
(* variables: each action is summarised by an effect, which says what it   *)
(* may do to the object, the scope, the instances and the Secret of its    *)
(* machine without the branches that lead there (Begins ... Closes).  The  *)
(* invariants of LinodeMachineInstanceProofs and LinodeMachineStatusProofs *)
(* are proved effect by effect.                                            *)
(***************************************************************************)
EXTENDS LinodeMachine, TLAPS

\* A nil ProviderID, or one of an instance with the machine's label.
LabelledFor(m, i) ==
    i # None => inst[i].state # "unused" /\ inst[i].label = LabelOf[m]

\* y is what instance x may become: an id is never unused again, and a label
\* is for life.
Keeps(x, y) ==
    y \in Instance /\ (x.state # "unused" => y.state # "unused" /\ y.label = x.label)

Secret == [exists: BOOLEAN, deleting: BOOLEAN, held: BOOLEAN]

-----------------------------------------------------------------------------
(***************************************************************************)
(* The updates of records that the actions make.                           *)
(***************************************************************************)
\* The initial and the deleted object are LinodeMachine objects without a
\* ProviderID, and an unused id is an instance record.
LEMMA Constructors ==
    /\ New \in LinodeMachineObject /\ New.providerID = None
    /\ Gone \in LinodeMachineObject /\ Gone.providerID = None
    /\ Unused \in Instance
  BY Zenon DEF New, Gone, Unused, LinodeMachineObject, Instance

\* The updates that leave ProviderID alone.
SetFinalizer(o, b) == [o EXCEPT !.finalizer = b]
SetConds(o, c) == [o EXCEPT !.conds = c]
AddDiskID(o, d) == [o EXCEPT !.diskIDs = @ \cup {d}]

\* u is an object with the ProviderID of o.
SameInstance(o, u) == u \in LinodeMachineObject /\ u.providerID = o.providerID

\* The updates that leave ProviderID alone do so, and yield an object.
LEMMA ObjectUpdates ==
  ASSUME NEW o \in LinodeMachineObject
  PROVE  /\ \A c \in SUBSET Conditions : SameInstance(o, SetConds(o, c))
         /\ \A b \in BOOLEAN : SameInstance(o, SetFinalizer(o, b))
         /\ \A d \in Disks : SameInstance(o, AddDiskID(o, d))
         /\ \A s \in Status : \A r \in BOOLEAN : \A c \in SUBSET Conditions :
               SameInstance(o, Observed(o, s, r, c))
         /\ SameInstance(o, Preflighted(o))
         /\ SameInstance(o, [o EXCEPT !.instanceState = "offline"])
         /\ SameInstance(o, [o EXCEPT !.deleting = TRUE])
  <1> USE DEF SameInstance, LinodeMachineObject
  <1>1. \A c \in SUBSET Conditions : SameInstance(o, SetConds(o, c))
    BY DEF SetConds
  <1>2. \A b \in BOOLEAN : SameInstance(o, SetFinalizer(o, b))
    BY DEF SetFinalizer
  <1>3. \A d \in Disks : SameInstance(o, AddDiskID(o, d))
    BY DEF AddDiskID
  <1>4. \A s \in Status : \A r \in BOOLEAN : \A c \in SUBSET Conditions :
           SameInstance(o, Observed(o, s, r, c))
    BY Zenon DEF Observed
  <1>5. SameInstance(o, Preflighted(o))
    BY Zenon DEF Preflighted, Conditions, Status
  <1>6. SameInstance(o, [o EXCEPT !.instanceState = "offline"])
    BY DEF Status
  <1>7. SameInstance(o, [o EXCEPT !.deleting = TRUE])
    BY Zenon
  <1> HIDE DEF SameInstance, LinodeMachineObject
  <1> QED
    BY <1>1, <1>2, <1>3, <1>4, <1>5, <1>6, <1>7

\* createInstance sets the ProviderID, reconcileDelete clears it.
LEMMA ProviderIDUpdates ==
  ASSUME NEW o \in LinodeMachineObject
  PROVE  /\ \A i \in InstanceIDs :
               WithInstance(o, i) \in LinodeMachineObject /\ WithInstance(o, i).providerID = i
         /\ WithoutInstance(o) \in LinodeMachineObject /\ WithoutInstance(o).providerID = None
  BY Zenon DEF WithInstance, WithoutInstance, LinodeMachineObject, Conditions

\* A merge patch of one LinodeMachine object with another is an object whose
\* ProviderID comes from one of the two.
LEMMA PatchedObject ==
  ASSUME NEW o \in LinodeMachineObject, NEW b \in LinodeMachineObject,
         NEW s \in LinodeMachineObject, NEW parts
  PROVE  /\ Patched(o, b, s, parts) \in LinodeMachineObject
         /\ Patched(o, b, s, parts).providerID \in {o.providerID, s.providerID}
  <1> DEFINE c == MergedSet("conditions" \in parts, b.conds, s.conds, o.conds)
             f == Merged("object" \in parts, b.finalizer, s.finalizer, o.finalizer)
             p == Merged("object" \in parts, b.providerID, s.providerID, o.providerID)
             d == MergedSet("object" \in parts, b.diskIDs, s.diskIDs, o.diskIDs)
             i == Merged("status" \in parts, b.instanceState, s.instanceState, o.instanceState)
             r == Merged("status" \in parts, b.ready, s.ready, o.ready)
             a == Merged("status" \in parts, b.addresses, s.addresses, o.addresses)
             u == [o EXCEPT !.conds = c, !.finalizer = f, !.providerID = p, !.diskIDs = d,
                            !.instanceState = i, !.ready = r, !.addresses = a]
  <1>1. c \in SUBSET Conditions /\ d \in SUBSET Disks
    BY DEF MergedSet, LinodeMachineObject
  <1>2. f \in BOOLEAN /\ r \in BOOLEAN /\ a \in BOOLEAN
    BY DEF Merged, LinodeMachineObject
  <1>3. p \in InstanceIDs \cup {None} /\ i \in Status \cup {None}
    BY DEF Merged, LinodeMachineObject
  <1>4. p \in {o.providerID, s.providerID}
    BY DEF Merged
  <1> HIDE DEF c, f, p, d, i, r, a
  <1>5. u \in LinodeMachineObject /\ u.providerID = p
    BY ZenonT(60), <1>1, <1>2, <1>3 DEF LinodeMachineObject
  <1> QED
    BY <1>4, <1>5 DEF Patched, c, f, p, d, i, r, a

\* The updates of an instance keep its label and its id in use.
LEMMA InstanceUpdates ==
  ASSUME NEW x \in Instance
  PROVE  /\ \A s \in Status \cup {"deleted"} : Keeps(x, [x EXCEPT !.state = s])
         /\ \A m \in Machines : x.state = "unused" =>
               Keeps(x, CreatedBy(x, m)) /\ CreatedBy(x, m).state # "unused"
               /\ CreatedBy(x, m).label = LabelOf[m]
         /\ \A d \in Disks : Keeps(x, [x EXCEPT !.disks[d] = @ + 1])
         /\ Keeps(x, [x EXCEPT !.profile = TRUE])
  <1>1. \A s \in Status \cup {"deleted"} : Keeps(x, [x EXCEPT !.state = s])
    BY DEF Keeps, Instance, Status
  <1>2. ASSUME NEW m \in Machines, x.state = "unused"
        PROVE  Keeps(x, CreatedBy(x, m)) /\ CreatedBy(x, m).state # "unused"
               /\ CreatedBy(x, m).label = LabelOf[m]
    BY Zenon, <1>2, MachineAssumptions DEF Keeps, CreatedBy, Instance, Status
  <1>3. ASSUME NEW d \in Disks
        PROVE  Keeps(x, [x EXCEPT !.disks[d] = @ + 1])
    BY DEF Keeps, Instance
  <1>4. Keeps(x, [x EXCEPT !.profile = TRUE])
    BY Zenon DEF Keeps, Instance
  <1> QED
    BY <1>1, <1>2, <1>3, <1>4

-----------------------------------------------------------------------------
(***************************************************************************)
(* The instances: what a step may do to inst.                              *)
(***************************************************************************)
\* The steps of a reconcile other than CreateInstance, CreateInstanceDisk,
\* BootInstance and DeleteInstance leave the instances alone.
LEMMA ReadOnlySteps ==
  ASSUME NEW m \in Machines, ReconcileStep(m)
  PROVE  \/ UNCHANGED inst
         \/ reconcilePreflightCreate(m) \/ createDisks(m)
         \/ reconcilePreflightBoot(m) \/ reconcileDelete(m)
  BY Zenon DEF ReconcileStep, Reconcile, AddFinalizer, Dispatch, AddCredentialsRefFinalizer,
         reconcilePreflightLinodeFirewallCheck, reconcilePreflightVPC, CheckDependency,
         reconcilePreflightMetadataSupportConfigure, createInstance, GetInstanceID,
         reconcilePreflightConfigure, reconcilePreflightReady, reconcileUpdate,
         reconcileFirewallID, RemoveCredentialsRefFinalizer, Close

\* A step of the system changes at most one instance, and keeps its label.
LEMMA InstanceStep ==
  ASSUME TypeOK, Next
  PROVE  \/ UNCHANGED inst
         \/ \E i \in InstanceIDs : \E y : inst' = [inst EXCEPT ![i] = y] /\ Keeps(inst[i], y)
  <1> DEFINE Goal == \/ UNCHANGED inst
                     \/ \E i \in InstanceIDs : \E y :
                           inst' = [inst EXCEPT ![i] = y] /\ Keeps(inst[i], y)
  <1>t. \A i \in InstanceIDs : inst[i] \in Instance
    BY DEF TypeOK
  <1>s. \A i \in InstanceIDs : \A s \in Status \cup {"deleted"} :
           Keeps(inst[i], [inst[i] EXCEPT !.state = s])
    BY Zenon, <1>t, InstanceUpdates
  <1>n. \A i \in InstanceIDs : \A m \in Machines : inst[i].state = "unused" =>
           Keeps(inst[i], CreatedBy(inst[i], m))
    BY Zenon, <1>t, InstanceUpdates
  <1>d. \A i \in InstanceIDs : \A d \in Disks :
           Keeps(inst[i], [inst[i] EXCEPT !.disks[d] = @ + 1])
    BY Zenon, <1>t, InstanceUpdates
  <1>f. \A i \in InstanceIDs : Keeps(inst[i], [inst[i] EXCEPT !.profile = TRUE])
    BY <1>t, InstanceUpdates
  <1>p. \A m \in Machines : scope[m].providerID # None => scope[m].providerID \in InstanceIDs
    BY DEF TypeOK, LinodeMachineObject
  <1>1. ASSUME NEW m \in Machines, reconcilePreflightCreate(m) PROVE Goal
    <2>1. UNCHANGED inst \/ \E i \in InstanceIDs : NewInstance(m, i)
      BY <1>1 DEF reconcilePreflightCreate
    <2> QED
      BY <2>1, <1>n DEF NewInstance
  <1>2. ASSUME NEW m \in Machines, createDisks(m) PROVE Goal
    <2> DEFINE i == scope[m].providerID
    <2>1. \/ UNCHANGED inst
          \/ Live(i) /\ \E d \in Disks : inst' = [inst EXCEPT ![i].disks[d] = @ + 1]
          \/ Live(i) /\ inst' = [inst EXCEPT ![i].profile = TRUE]
      BY Zenon, <1>2 DEF createDisks
    <2>2. ASSUME Live(i), NEW d \in Disks, inst' = [inst EXCEPT ![i].disks[d] = @ + 1]
          PROVE Goal
      <3>1. i \in InstanceIDs
        BY <2>2, <1>p DEF Live
      <3> QED
        BY Zenon, <3>1, <2>2, <1>d
    <2>3. ASSUME Live(i), inst' = [inst EXCEPT ![i].profile = TRUE] PROVE Goal
      <3>1. i \in InstanceIDs
        BY <2>3, <1>p DEF Live
      <3> QED
        BY Zenon, <3>1, <2>3, <1>f
    <2> QED
      BY Zenon, <2>1, <2>2, <2>3
  <1>3. ASSUME NEW m \in Machines, reconcilePreflightBoot(m) PROVE Goal
    <2> DEFINE i == scope[m].providerID
               st == IF inst[i].state = "offline" THEN "booting" ELSE inst[i].state
    <2>1. UNCHANGED inst \/ (Live(i) /\ inst' = [inst EXCEPT ![i].state = st])
      BY <1>3 DEF reconcilePreflightBoot, Boot
    <2>2. Live(i) => i \in InstanceIDs /\ st \in Status
      BY <1>p DEF Live, Status
    <2> QED
      BY <2>1, <2>2, <1>s
  <1>4. ASSUME NEW m \in Machines, reconcileDelete(m) PROVE Goal
    <2> DEFINE i == scope[m].providerID
    <2>1. UNCHANGED inst \/ (Live(i) /\ inst' = [inst EXCEPT ![i].state = "deleted"])
      BY <1>4 DEF reconcileDelete, Delete
    <2>2. Live(i) => i \in InstanceIDs
      BY <1>p DEF Live
    <2> QED
      BY <2>1, <2>2, <1>s
  <1>5. ASSUME NEW i \in InstanceIDs, InstanceStarted(i) \/ OutOfBand(i) PROVE Goal
    <2>1. \E s \in Status \cup {"deleted"} : inst' = [inst EXCEPT ![i].state = s]
      BY <1>5 DEF InstanceStarted, OutOfBand, Status
    <2> QED
      BY Zenon, <2>1, <1>s
  <1>6. ASSUME NEW m \in Machines,
               CacheSync(m) \/ Wakeup(m) \/ UserDelete(m) \/ UserDeletesSecret(m)
                   \/ BootstrapDataReady(m)
        PROVE Goal
    BY <1>6 DEF CacheSync, Wakeup, UserDelete, UserDeletesSecret, BootstrapDataReady
  <1>7. CASE Crash \/ \E d \in Refs : DependencyReady(d)
    BY <1>7 DEF Crash, DependencyReady
  <1> QED
    BY <1>1, <1>2, <1>3, <1>4, <1>5, <1>6, <1>7, ReadOnlySteps DEF Next

-----------------------------------------------------------------------------
(***************************************************************************)
(* The scope: what a step of a reconcile may do to it.                     *)
(***************************************************************************)
\* The scope of m is replaced by an object whose ProviderID is the old one,
\* the cached one, none, or that of an instance with the label of m.
ScopeReplaced(m, o) ==
    /\ o \in LinodeMachineObject
    /\ scope' = [scope EXCEPT ![m] = o]
    /\ \/ o.providerID \in {None, scope[m].providerID, seen[m].providerID}
       \/ LabelledFor(m, o.providerID)'

\* That is all a step of a reconcile of m does to the scope.
LEMMA ScopeStep ==
  ASSUME TypeOK, NEW m \in Machines, ReconcileStep(m)
  PROVE  UNCHANGED scope \/ \E o : ScopeReplaced(m, o)
  <1> DEFINE Goal == UNCHANGED scope \/ \E o : ScopeReplaced(m, o)
  <1>t. scope[m] \in LinodeMachineObject /\ seen[m] \in LinodeMachineObject
    BY DEF TypeOK
  <1>b. scope[m].conds \in SUBSET Conditions /\ scope[m].ready \in BOOLEAN
    BY <1>t DEF LinodeMachineObject
  <1>u. ASSUME NEW u, scope' = [scope EXCEPT ![m] = u], SameInstance(scope[m], u)
        PROVE  Goal
    BY Zenon, <1>u DEF ScopeReplaced, SameInstance
  <1>c. ASSUME NEW c \in SUBSET Conditions, scope' = [scope EXCEPT ![m].conds = c] PROVE Goal
    <2>1. SameInstance(scope[m], SetConds(scope[m], c))
      BY Zenon, <1>t, ObjectUpdates
    <2>2. scope' = [scope EXCEPT ![m] = SetConds(scope[m], c)]
      BY <1>c DEF SetConds
    <2> QED
      BY Zenon, <2>1, <2>2, <1>u
  <1>1. CASE Reconcile(m)
    <2>1. UNCHANGED scope \/ scope' = [scope EXCEPT ![m] = seen[m]]
      BY <1>1 DEF Reconcile, ctrlVars
    <2> QED
      BY <2>1, <1>t DEF ScopeReplaced
  <1>2. CASE AddFinalizer(m) \/ RemoveCredentialsRefFinalizer(m)
    <2>1. \/ UNCHANGED scope
          \/ \E b \in BOOLEAN : scope' = [scope EXCEPT ![m] = SetFinalizer(scope[m], b)]
      BY Zenon, <1>2 DEF AddFinalizer, RemoveCredentialsRefFinalizer, SetFinalizer
    <2>2. \A b \in BOOLEAN : SameInstance(scope[m], SetFinalizer(scope[m], b))
      BY Zenon, <1>t, ObjectUpdates
    <2> QED
      BY <2>1, <2>2, <1>u
  <1>3. ASSUME NEW c \in Conditions, SetCondition(m, c) PROVE Goal
    <2>1. scope' = [scope EXCEPT ![m].conds = scope[m].conds \cup {c}]
      BY <1>3 DEF SetCondition
    <2>2. scope[m].conds \cup {c} \in SUBSET Conditions
      BY <1>b
    <2> QED
      BY Zenon, <2>1, <2>2, <1>c
  <1>4. CASE \/ Dispatch(m) \/ reconcilePreflightLinodeFirewallCheck(m)
             \/ reconcilePreflightVPC(m) \/ reconcilePreflightMetadataSupportConfigure(m)
             \/ reconcilePreflightConfigure(m) \/ reconcilePreflightBoot(m)
    <2>1. UNCHANGED scope \/ \E c \in Conditions : SetCondition(m, c)
      BY <1>4 DEF Dispatch, reconcilePreflightLinodeFirewallCheck, reconcilePreflightVPC,
                  CheckDependency, reconcilePreflightMetadataSupportConfigure,
                  reconcilePreflightConfigure, reconcilePreflightBoot, Conditions
    <2> QED
      BY <2>1, <1>3
  <1>5. CASE reconcileFirewallID(m)
    <2>1. UNCHANGED scope \/ scope' = [scope EXCEPT ![m].conds = scope[m].conds \ {"Ready"}]
      BY <1>5 DEF reconcileFirewallID
    <2>2. scope[m].conds \ {"Ready"} \in SUBSET Conditions
      BY <1>b
    <2> QED
      BY <2>1, <2>2, <1>c
  <1>6. CASE AddCredentialsRefFinalizer(m) \/ GetInstanceID(m)
    BY <1>6 DEF AddCredentialsRefFinalizer, GetInstanceID
  <1>7. CASE createDisks(m)
    <2>1. \/ UNCHANGED scope
          \/ \E d \in Disks : scope' = [scope EXCEPT ![m] = AddDiskID(scope[m], d)]
          \/ SetCondition(m, "AdditionalDisksCreated")
      BY Zenon, <1>7 DEF createDisks, AddDiskID
    <2>2. \A d \in Disks : SameInstance(scope[m], AddDiskID(scope[m], d))
      BY Zenon, <1>t, ObjectUpdates
    <2>3. "AdditionalDisksCreated" \in Conditions
      BY DEF Conditions
    <2> QED
      BY <2>1, <2>2, <2>3, <1>3, <1>u
  <1>8. ASSUME NEW i \in InstanceIDs, Created(m, i), LabelledFor(m, i)' PROVE Goal
    <2>1. WithInstance(scope[m], i) \in LinodeMachineObject
          /\ WithInstance(scope[m], i).providerID = i
      BY <1>t, ProviderIDUpdates
    <2>2. scope' = [scope EXCEPT ![m] = WithInstance(scope[m], i)]
      BY <1>8 DEF Created
    <2> QED
      BY Zenon, <2>1, <2>2, <1>8 DEF ScopeReplaced
  <1>9. CASE reconcilePreflightCreate(m)
    <2>1. UNCHANGED scope \/ \E i \in InstanceIDs : NewInstance(m, i) /\ Created(m, i)
      BY <1>9 DEF reconcilePreflightCreate
    <2>2. ASSUME NEW i \in InstanceIDs, NewInstance(m, i) PROVE LabelledFor(m, i)'
      <3>1. inst[i] \in Instance /\ inst \in [InstanceIDs -> Instance]
        BY DEF TypeOK
      <3>2. inst' = [inst EXCEPT ![i] = CreatedBy(@, m)] /\ inst[i].state = "unused"
        BY <2>2 DEF NewInstance
      <3>3. CreatedBy(inst[i], m).state # "unused" /\ CreatedBy(inst[i], m).label = LabelOf[m]
        BY Zenon, <3>1, <3>2, InstanceUpdates
      <3> QED
        BY <3>1, <3>2, <3>3 DEF LabelledFor
    <2> QED
      BY <2>1, <2>2, <1>8
  <1>10. CASE createInstance(m)
    <2>1. UNCHANGED scope \/ \E i \in ListInstances(m) : Created(m, i)
      BY <1>10 DEF createInstance
    <2>2. ASSUME NEW i \in ListInstances(m) PROVE i \in InstanceIDs /\ LabelledFor(m, i)'
      BY <2>2, <1>10 DEF createInstance, ListInstances, LabelledFor, Live, Status
    <2> QED
      BY <2>1, <2>2, <1>8
  <1>11. CASE reconcilePreflightReady(m)
    <2>1. \/ UNCHANGED scope
          \/ scope' = [scope EXCEPT ![m] = [scope[m] EXCEPT !.instanceState = "offline"]]
          \/ scope' = [scope EXCEPT ![m] = Preflighted(scope[m])]
      BY <1>11 DEF reconcilePreflightReady
    <2>2. /\ SameInstance(scope[m], [scope[m] EXCEPT !.instanceState = "offline"])
          /\ SameInstance(scope[m], Preflighted(scope[m]))
      BY Zenon, <1>t, ObjectUpdates
    <2> QED
      BY <2>1, <2>2, <1>u
  <1>12. CASE reconcileUpdate(m)
    <2> DEFINE s == inst[scope[m].providerID].state
    <2>1. \/ UNCHANGED scope
          \/ s \in Status /\ \E r \in BOOLEAN : \E c \in SUBSET Conditions :
                 scope' = [scope EXCEPT ![m] = Observed(scope[m], s, r, c)]
      <3>1. \A c \in {scope[m].conds, scope[m].conds \ {"Ready"}, scope[m].conds \cup {"Ready"}} :
               c \in SUBSET Conditions
        BY <1>b DEF Conditions
      <3> QED
        BY Zenon, <1>12, <1>b, <3>1 DEF reconcileUpdate, Found, Live
    <2>2. \A r \in BOOLEAN : \A c \in SUBSET Conditions : s \in Status =>
             SameInstance(scope[m], Observed(scope[m], s, r, c))
      BY Zenon, <1>t, ObjectUpdates
    <2> QED
      BY <2>1, <2>2, <1>u
  <1>13. CASE reconcileDelete(m)
    <2>1. UNCHANGED scope \/ scope' = [scope EXCEPT ![m] = WithoutInstance(scope[m])]
      BY <1>13 DEF reconcileDelete, InstanceDeleted, DeleteError
    <2>2. WithoutInstance(scope[m]) \in LinodeMachineObject
          /\ WithoutInstance(scope[m]).providerID = None
      BY <1>t, ProviderIDUpdates
    <2> QED
      BY <2>1, <2>2 DEF ScopeReplaced
  <1>14. CASE Close(m)
    BY Zenon, <1>14, Constructors DEF Close, ScopeReplaced
  <1> QED
    BY <1>1, <1>2, <1>4, <1>5, <1>6, <1>7, <1>9, <1>10, <1>11, <1>12, <1>13, <1>14
       DEF ReconcileStep

-----------------------------------------------------------------------------
(***************************************************************************)
(* The stored objects: what a step may do to obj.                          *)
(***************************************************************************)
\* The steps of a reconcile other than AddFinalizer and Close store nothing.
LEMMA NonPatchingSteps ==
  ASSUME NEW m \in Machines, ReconcileStep(m)
  PROVE  UNCHANGED obj \/ AddFinalizer(m) \/ Close(m)
  BY Zenon DEF ReconcileStep, Reconcile, Dispatch, AddCredentialsRefFinalizer,
         reconcilePreflightLinodeFirewallCheck, reconcilePreflightVPC, CheckDependency,
         reconcilePreflightMetadataSupportConfigure, reconcilePreflightCreate, createInstance,
         GetInstanceID, createDisks, reconcilePreflightConfigure, reconcilePreflightBoot,
         reconcilePreflightReady, reconcileUpdate, reconcileFirewallID, reconcileDelete,
         RemoveCredentialsRefFinalizer, k8sVars

\* A stored object is replaced by an object whose ProviderID is the old one,
\* the one of the scope, or none.
ObjectReplaced(m, u) ==
    /\ u \in LinodeMachineObject
    /\ obj' = [obj EXCEPT ![m] = u]
    /\ u.providerID \in {None, obj[m].providerID, scope[m].providerID}

\* That is all a step does to the stored objects.
LEMMA ObjectStep ==
  ASSUME TypeOK, Next
  PROVE  UNCHANGED obj \/ \E m \in Machines : \E u : ObjectReplaced(m, u)
  <1> DEFINE Goal == UNCHANGED obj \/ \E m \in Machines : \E u : ObjectReplaced(m, u)
  <1>t. \A m \in Machines : /\ obj[m] \in LinodeMachineObject
                            /\ scope[m] \in LinodeMachineObject
                            /\ base[m] \in LinodeMachineObject
    BY DEF TypeOK
  <1>s. ASSUME NEW u \in LinodeMachineObject
        PROVE  Stored(u) \in LinodeMachineObject /\ Stored(u).providerID \in {None, u.providerID}
    BY Constructors DEF Stored
  <1>1. ASSUME NEW m \in Machines, AddFinalizer(m) PROVE Goal
    <2>1. UNCHANGED obj \/ obj' = [obj EXCEPT ![m] = SetFinalizer(@, TRUE)]
      BY <1>1 DEF AddFinalizer, SetFinalizer
    <2>2. SameInstance(obj[m], SetFinalizer(obj[m], TRUE))
      BY ZenonT(60), <1>t, ObjectUpdates
    <2> QED
      BY Zenon, <2>1, <2>2 DEF ObjectReplaced, SameInstance
  <1>2. ASSUME NEW m \in Machines, Close(m) PROVE Goal
    <2> DEFINE P(parts) == Patched(obj[m], base[m], scope[m], parts)
    <2>1. UNCHANGED obj \/ \E parts : obj' = [obj EXCEPT ![m] = Stored(P(parts))]
      BY <1>2 DEF Close
    <2>2. \A parts : /\ P(parts) \in LinodeMachineObject
                     /\ P(parts).providerID \in {obj[m].providerID, scope[m].providerID}
      BY SMTT(60), <1>t, PatchedObject
    <2> HIDE DEF P
    <2> QED
      BY <2>1, <2>2, <1>s DEF ObjectReplaced
  <1>3. ASSUME NEW m \in Machines, UserDelete(m) PROVE Goal
    <2> DEFINE u == [obj[m] EXCEPT !.deleting = TRUE]
    <2>1. obj' = [obj EXCEPT ![m] = Stored(u)]
      BY <1>3 DEF UserDelete
    <2>2. SameInstance(obj[m], u)
      BY Zenon, <1>t, ObjectUpdates
    <2> HIDE DEF u
    <2> QED
      BY Zenon, <2>1, <2>2, <1>s DEF ObjectReplaced, SameInstance
  <1>4. ASSUME NEW m \in Machines,
               CacheSync(m) \/ Wakeup(m) \/ UserDeletesSecret(m) \/ BootstrapDataReady(m)
        PROVE  Goal
    BY <1>4 DEF CacheSync, Wakeup, UserDeletesSecret, BootstrapDataReady, k8sVars
  <1>5. CASE \/ \E i \in InstanceIDs : InstanceStarted(i) \/ OutOfBand(i)
             \/ \E d \in Refs : DependencyReady(d)
             \/ Crash
    BY <1>5 DEF InstanceStarted, OutOfBand, DependencyReady, Crash, k8sVars
  <1> QED
    BY <1>1, <1>2, <1>3, <1>4, <1>5, NonPatchingSteps DEF Next

-----------------------------------------------------------------------------
(***************************************************************************)
(* The other variables.                                                    *)
(***************************************************************************)
\* A step of a reconcile leaves the cache and the environment's variables
\* alone; its copy for the patch helper comes from the cache and is dropped by
\* Close.
LEMMA ReconcileFrame ==
  ASSUME NEW m \in Machines, ReconcileStep(m)
  PROVE  /\ UNCHANGED <<seen, bootstrap, deps>>
         /\ UNCHANGED base \/ \E o \in {Gone, seen[m]} : base' = [base EXCEPT ![m] = o]
  BY ZenonT(60) DEF ReconcileStep, Reconcile, AddFinalizer, Dispatch, AddCredentialsRefFinalizer,
         reconcilePreflightLinodeFirewallCheck, reconcilePreflightVPC, CheckDependency,
         reconcilePreflightMetadataSupportConfigure, reconcilePreflightCreate, createInstance,
         GetInstanceID, createDisks, reconcilePreflightConfigure, reconcilePreflightBoot,
         reconcilePreflightReady, reconcileUpdate, reconcileFirewallID, reconcileDelete,
         RemoveCredentialsRefFinalizer, Close, ctrlVars, k8sVars, envVars

\* A step that is not one of a reconcile or a crash leaves the controller's
\* variables alone.
LEMMA EnvironmentFrame ==
  ASSUME Next
  PROVE  (\E m \in Machines : ReconcileStep(m)) \/ Crash \/ UNCHANGED ctrlVars
  BY ZenonT(60) DEF Next, CacheSync, Wakeup, UserDelete, UserDeletesSecret, BootstrapDataReady,
         DependencyReady, InstanceStarted, OutOfBand

\* A step leaves the cache alone or copies a stored object, or all, to it.
LEMMA SeenStep ==
  ASSUME Next
  PROVE  \/ UNCHANGED seen
         \/ seen' = obj
         \/ \E m \in Machines : seen' = [seen EXCEPT ![m] = obj[m]]
  BY ZenonT(60), ReconcileFrame
     DEF Next, CacheSync, Wakeup, UserDelete, UserDeletesSecret, BootstrapDataReady,
         DependencyReady, InstanceStarted, OutOfBand, Crash, k8sVars

\* The work queue and the set of undelivered events hold machines.
LEMMA QueueStep ==
  ASSUME TypeOK, Next
  PROVE  queue' \subseteq Machines /\ unseen' \subseteq Machines
  <1>t. queue \subseteq Machines /\ unseen \subseteq Machines
    BY SMTT(60) DEF TypeOK
  <1>1. ASSUME NEW m \in Machines, ReconcileStep(m)
        PROVE  queue' \subseteq Machines /\ unseen' \subseteq Machines
    BY ZenonT(60), <1>1, <1>t
       DEF ReconcileStep, Reconcile, AddFinalizer, Dispatch, AddCredentialsRefFinalizer,
           reconcilePreflightLinodeFirewallCheck, reconcilePreflightVPC, CheckDependency,
           reconcilePreflightMetadataSupportConfigure, reconcilePreflightCreate, createInstance,
           GetInstanceID, createDisks, reconcilePreflightConfigure, reconcilePreflightBoot,
           reconcilePreflightReady, reconcileUpdate, reconcileFirewallID, reconcileDelete,
           RemoveCredentialsRefFinalizer, Close, k8sVars
  <1> QED
    BY Zenon, <1>1, <1>t
       DEF Next, CacheSync, Wakeup, UserDelete, UserDeletesSecret, BootstrapDataReady,
         DependencyReady, InstanceStarted, OutOfBand, Crash, k8sVars

\* The control state of a reconcile is one of PCs.
LEMMA ControlStep ==
  ASSUME TypeOK, Next
  PROVE  pc' \in [Machines -> PCs]
  <1>t. pc \in [Machines -> PCs]
    BY DEF TypeOK
  <1>g. ASSUME NEW m \in Machines, NEW l \in PCs, Goto(m, l) PROVE pc' \in [Machines -> PCs]
    BY SMTT(60), <1>g, <1>t DEF Goto
  <1>1. ASSUME NEW m \in Machines, ReconcileStep(m)
        PROVE  UNCHANGED pc \/ \E l \in PCs : Goto(m, l)
    BY ZenonT(60), <1>1
       DEF ReconcileStep, Reconcile, AddFinalizer, Dispatch, AddCredentialsRefFinalizer,
           reconcilePreflightLinodeFirewallCheck, reconcilePreflightVPC, CheckDependency,
           DependencyMissing, reconcilePreflightMetadataSupportConfigure, retryIfTransient,
           reconcilePreflightCreate, createInstance, GetInstanceID, createDisks, DiskError,
           reconcilePreflightConfigure, reconcilePreflightBoot, reconcilePreflightReady,
           reconcileUpdate, reconcileFirewallID, reconcileDelete, DeleteError,
           RemoveCredentialsRefFinalizer, Close, PCs, ctrlVars
  <1>2. CASE Crash
    BY <1>2 DEF Crash, PCs
  <1> QED
    BY <1>1, <1>2, <1>g, <1>t, EnvironmentFrame DEF ctrlVars

\* A step leaves the Secrets alone, or takes, releases or deletes one.
LEMMA SecretStep ==
  ASSUME TypeOK, Next
  PROVE  secret' \in [Machines -> Secret]
  <1>t. secret \in [Machines -> Secret]
    BY DEF TypeOK, Secret
  <1>u. \A x \in Secret : /\ [x EXCEPT !.held = TRUE] \in Secret
                          /\ Released(x) \in Secret
                          /\ [x EXCEPT !.deleting = TRUE, !.exists = x.held] \in Secret
    BY ZenonT(60) DEF Secret, Released
  <1>1. ASSUME NEW m \in Machines, ReconcileStep(m)
        PROVE  \/ UNCHANGED secret
               \/ secret' = [secret EXCEPT ![m].held = TRUE]
               \/ secret' = [secret EXCEPT ![m] = Released(@)]
    BY Zenon, <1>1
       DEF ReconcileStep, Reconcile, AddFinalizer, Dispatch, AddCredentialsRefFinalizer,
           reconcilePreflightLinodeFirewallCheck, reconcilePreflightVPC, CheckDependency,
           reconcilePreflightMetadataSupportConfigure, reconcilePreflightCreate, createInstance,
           GetInstanceID, createDisks, reconcilePreflightConfigure, reconcilePreflightBoot,
           reconcilePreflightReady, reconcileUpdate, reconcileFirewallID, reconcileDelete,
           RemoveCredentialsRefFinalizer, Close, envVars
  <1>2. ASSUME NEW m \in Machines, ReconcileStep(m) PROVE secret' \in [Machines -> Secret]
    BY ZenonT(60), <1>1, <1>2, <1>t, <1>u
  <1>3. ASSUME NEW m \in Machines, UserDeletesSecret(m) PROVE secret' \in [Machines -> Secret]
    BY ZenonT(60), <1>3, <1>t, <1>u DEF UserDeletesSecret
  <1> QED
    BY Zenon, <1>2, <1>3, <1>t DEF Next, CacheSync, Wakeup, UserDelete, BootstrapDataReady,
         DependencyReady, InstanceStarted, OutOfBand, Crash, envVars

\* A fault is recorded and paid for.
LEMMA HistoryStep ==
  ASSUME TypeOK, Next
  PROVE  faults' \in [Machines -> SUBSET Faults] /\ budget' \in 0..MaxFaults
  <1> DEFINE Goal == faults' \in [Machines -> SUBSET Faults] /\ budget' \in 0..MaxFaults
  <1>t. faults \in [Machines -> SUBSET Faults] /\ budget \in 0..MaxFaults
    BY DEF TypeOK
  <1>s. ASSUME Spend PROVE budget' \in 0..MaxFaults
    BY <1>s, <1>t, MachineAssumptions DEF Spend
  <1>f. ASSUME NEW m \in Machines, NEW f \in Faults, Fault(m, f) PROVE Goal
    BY SMTT(60), <1>f, <1>s, <1>t DEF Fault
  <1>1. ASSUME NEW m \in Machines, ReconcileStep(m)
        PROVE  \/ UNCHANGED histVars
               \/ Spend /\ UNCHANGED faults
               \/ \E f \in Faults : Fault(m, f)
    BY ZenonT(60), <1>1
       DEF ReconcileStep, Reconcile, AddFinalizer, Dispatch, AddCredentialsRefFinalizer, Error,
           reconcilePreflightLinodeFirewallCheck, reconcilePreflightVPC, CheckDependency,
           reconcilePreflightMetadataSupportConfigure, retryIfTransient,
           reconcilePreflightCreate, createInstance, GetInstanceID, createDisks,
           reconcilePreflightConfigure, reconcilePreflightBoot, reconcilePreflightReady,
           reconcileUpdate, reconcileFirewallID, reconcileDelete,
           RemoveCredentialsRefFinalizer, Close, Faults
  <1>2. CASE Crash
    BY <1>2, <1>s, <1>t DEF Crash, Faults
  <1>3. ASSUME NEW i \in InstanceIDs, OutOfBand(i) PROVE Goal
    BY <1>3, <1>s, <1>t DEF OutOfBand
  <1> QED
    BY ZenonT(60), <1>1, <1>2, <1>3, <1>f, <1>s, <1>t
       DEF Next, CacheSync, Wakeup, UserDelete, UserDeletesSecret, BootstrapDataReady,
           DependencyReady, InstanceStarted, histVars

-----------------------------------------------------------------------------
(***************************************************************************)
(* The theorems.                                                           *)
(***************************************************************************)
\* Each variable of the controller keeps its type: every copy of a machine is
\* a LinodeMachine object, every reconcile is at one of its steps, and every
\* id the Linode API can hand out has an instance record.
THEOREM TypeCorrect == Spec => []TypeOK
  <1>1. Init => TypeOK
    BY Constructors, MachineAssumptions DEF Init, TypeOK, PCs
  <1>2. TypeOK /\ [Next]_vars => TypeOK'
    <2> SUFFICES ASSUME TypeOK, [Next]_vars PROVE TypeOK'
      OBVIOUS
    <2>1. CASE Next
      <3> USE <2>1
      <3>1. obj' \in [Machines -> LinodeMachineObject]
        BY ObjectStep DEF TypeOK, ObjectReplaced
      <3>2. seen' \in [Machines -> LinodeMachineObject]
        BY SeenStep DEF TypeOK
      <3>3. base' \in [Machines -> LinodeMachineObject]
        BY SMTT(60), ReconcileFrame, EnvironmentFrame, Constructors DEF TypeOK, Crash, ctrlVars
      <3>4. scope' \in [Machines -> LinodeMachineObject]
        BY ScopeStep, EnvironmentFrame, Constructors
           DEF TypeOK, Crash, ctrlVars, ScopeReplaced
      <3>5. inst' \in [InstanceIDs -> Instance]
        BY InstanceStep DEF TypeOK, Keeps
      <3>6. bootstrap' \subseteq Machines /\ deps' \subseteq Refs
        BY ZenonT(60), ReconcileFrame
           DEF TypeOK, Next, CacheSync, Wakeup, UserDelete, UserDeletesSecret,
               BootstrapDataReady, DependencyReady, InstanceStarted, OutOfBand, Crash, envVars
      <3> QED
        BY <3>1, <3>2, <3>3, <3>4, <3>5, <3>6, QueueStep, ControlStep, SecretStep,
           HistoryStep
           DEF TypeOK, Secret
    <2>2. CASE UNCHANGED vars
      BY <2>2 DEF TypeOK, vars, k8sVars, ctrlVars, envVars, histVars
    <2> QED
      BY <2>1, <2>2
  <1> QED
    BY <1>1, <1>2, PTL DEF Spec

\* An instance that carries the label of m goes on to do so.
LEMMA LabelsStay ==
  ASSUME TypeOK, Next, NEW m \in Machines, NEW i \in InstanceIDs \cup {None},
         LabelledFor(m, i)
  PROVE  LabelledFor(m, i)'
  <1>1. inst \in [InstanceIDs -> Instance]
    BY DEF TypeOK
  <1> QED
    BY <1>1, InstanceStep DEF LabelledFor, Keeps

\* The ProviderID of a machine, in every copy of it, names an instance that
\* carries the machine's label: reconcilePreflightCreate sets it either to the
\* instance it has just created or to one that ListInstances found under the
\* label, and no step changes the label of an instance.  The invariant is
\* inductive together with TypeOK because it speaks of all four copies.
THEOREM ProviderIDCorrect == Spec => []ProviderIDHasLabel
  <1> DEFINE Copies == \A m \in Machines :
                          /\ LabelledFor(m, obj[m].providerID)
                          /\ LabelledFor(m, seen[m].providerID)
                          /\ LabelledFor(m, base[m].providerID)
                          /\ LabelledFor(m, scope[m].providerID)
  <1>1. Init => Copies
    BY Constructors DEF Init, LabelledFor
  <1>2. TypeOK /\ TypeOK' /\ Copies /\ [Next]_vars => Copies'
    <2> SUFFICES ASSUME TypeOK, TypeOK', Copies, [Next]_vars PROVE Copies'
      OBVIOUS
    <2>1. CASE Next
      <3> USE <2>1
      <3>t. \A n \in Machines : /\ obj[n].providerID \in InstanceIDs \cup {None}
                                /\ seen[n].providerID \in InstanceIDs \cup {None}
                                /\ base[n].providerID \in InstanceIDs \cup {None}
                                /\ scope[n].providerID \in InstanceIDs \cup {None}
        BY SMTT(60) DEF TypeOK, LinodeMachineObject
      <3>s. \A n \in Machines : \A i \in {None, obj[n].providerID, seen[n].providerID,
                                          base[n].providerID, scope[n].providerID} :
               LabelledFor(n, i)'
        BY <3>t, LabelsStay DEF LabelledFor
      <3>1. \A n \in Machines :
               obj'[n].providerID \in {None, obj[n].providerID, scope[n].providerID}
        BY Zenon, ObjectStep DEF TypeOK, ObjectReplaced
      <3>2. \A n \in Machines : seen'[n].providerID \in {seen[n].providerID, obj[n].providerID}
        BY Zenon, SeenStep DEF TypeOK
      <3>3. \A n \in Machines :
               base'[n].providerID \in {None, base[n].providerID, seen[n].providerID}
        BY Zenon, ReconcileFrame, EnvironmentFrame, Constructors DEF TypeOK, Crash, ctrlVars
      <3>4. ASSUME NEW n \in Machines
            PROVE  \/ scope'[n].providerID \in {None, scope[n].providerID, seen[n].providerID}
                   \/ LabelledFor(n, scope[n].providerID)'
        <4>1. ASSUME NEW m \in Machines, ReconcileStep(m)
              PROVE  \/ scope'[n].providerID \in {None, scope[n].providerID, seen[n].providerID}
                     \/ LabelledFor(n, scope[n].providerID)'
          BY ZenonT(60), <4>1, ScopeStep DEF TypeOK, ScopeReplaced, LabelledFor
        <4> QED
          BY <4>1, EnvironmentFrame, Constructors DEF Crash, ctrlVars
      <3> QED
        BY <3>s, <3>1, <3>2, <3>3, <3>4 DEF LabelledFor
    <2>2. CASE UNCHANGED vars
      BY <2>2 DEF LabelledFor, vars, k8sVars, ctrlVars
    <2> QED
      BY <2>1, <2>2
  <1>3. Copies => ProviderIDHasLabel
    BY DEF ProviderIDHasLabel, LabelledFor
  <1> QED
    BY <1>1, <1>2, <1>3, TypeCorrect, PTL DEF Spec

\* Two machines manage the same instance only if their specs ask for the same
\* label, whatever is lost, stale or crashes.
THEOREM InstancesNotShared == Spec => []NoForeignInstance
  <1>1. TypeOK /\ ProviderIDHasLabel => NoForeignInstance
    BY DEF TypeOK, ProviderIDHasLabel, NoForeignInstance
  <1> QED
    BY <1>1, TypeCorrect, ProviderIDCorrect, PTL

-----------------------------------------------------------------------------
(***************************************************************************)
(* The updates of a LinodeMachine object, field by field.                  *)
(***************************************************************************)
SameMeta(s, t) == t.exists = s.exists /\ t.deleting = s.deleting /\ t.finalizer = s.finalizer
SameSpec(s, t) == t.providerID = s.providerID /\ t.diskIDs = s.diskIDs
SameStatus(s, t) ==
    t.instanceState = s.instanceState /\ t.ready = s.ready /\ t.addresses = s.addresses

\* t is s with other conditions.
Conditioned(s, t) == SameMeta(s, t) /\ SameSpec(s, t) /\ SameStatus(s, t)

\* t is s with another finalizer.
Finalized(s, t) ==
    /\ t.exists = s.exists /\ t.deleting = s.deleting
    /\ SameSpec(s, t) /\ t.conds = s.conds /\ SameStatus(s, t)

\* What SetConds, SetFinalizer and AddDiskID leave alone.
LEMMA SmallUpdates ==
  ASSUME NEW o \in LinodeMachineObject
  PROVE  /\ \A c \in SUBSET Conditions : /\ Conditioned(o, SetConds(o, c))
                                         /\ SetConds(o, c).conds = c
         /\ \A b \in BOOLEAN : /\ Finalized(o, SetFinalizer(o, b))
                               /\ SetFinalizer(o, b).finalizer = b
         /\ \A d \in Disks :
               /\ SameMeta(o, AddDiskID(o, d)) /\ SameStatus(o, AddDiskID(o, d))
               /\ AddDiskID(o, d).providerID = o.providerID
               /\ AddDiskID(o, d).conds = o.conds
               /\ AddDiskID(o, d).diskIDs = o.diskIDs \cup {d}
  <1> USE DEF LinodeMachineObject, SameMeta, SameSpec, SameStatus, Conditioned, Finalized
  <1>1. \A c \in SUBSET Conditions : Conditioned(o, SetConds(o, c)) /\ SetConds(o, c).conds = c
    BY DEF SetConds
  <1>2. \A b \in BOOLEAN :
           Finalized(o, SetFinalizer(o, b)) /\ SetFinalizer(o, b).finalizer = b
    BY DEF SetFinalizer
  <1>3. \A d \in Disks :
               /\ SameMeta(o, AddDiskID(o, d)) /\ SameStatus(o, AddDiskID(o, d))
               /\ AddDiskID(o, d).providerID = o.providerID
               /\ AddDiskID(o, d).conds = o.conds
               /\ AddDiskID(o, d).diskIDs = o.diskIDs \cup {d}
    BY DEF AddDiskID
  <1> QED
    BY ONLY <1>1, <1>2, <1>3

\* What WithInstance and WithoutInstance leave alone.
LEMMA InstanceFields ==
  ASSUME NEW o \in LinodeMachineObject
  PROVE  /\ \A i \in InstanceIDs :
               /\ SameMeta(o, WithInstance(o, i)) /\ SameStatus(o, WithInstance(o, i))
               /\ WithInstance(o, i).providerID = i
               /\ WithInstance(o, i).diskIDs = o.diskIDs
               /\ WithInstance(o, i).conds = o.conds \cup {"Created"}
         /\ SameMeta(o, WithoutInstance(o))
         /\ WithoutInstance(o).providerID = None /\ WithoutInstance(o).diskIDs = o.diskIDs
         /\ WithoutInstance(o).conds = o.conds \ {"Ready"}
         /\ WithoutInstance(o).instanceState = None
         /\ WithoutInstance(o).addresses = o.addresses
  <1> USE DEF LinodeMachineObject, SameMeta, SameStatus
  <1>1. \A i \in InstanceIDs :
               /\ SameMeta(o, WithInstance(o, i)) /\ SameStatus(o, WithInstance(o, i))
               /\ WithInstance(o, i).providerID = i
               /\ WithInstance(o, i).diskIDs = o.diskIDs
               /\ WithInstance(o, i).conds = o.conds \cup {"Created"}
    BY DEF WithInstance
  <1>2. /\ SameMeta(o, WithoutInstance(o))
        /\ WithoutInstance(o).providerID = None /\ WithoutInstance(o).diskIDs = o.diskIDs
        /\ WithoutInstance(o).conds = o.conds \ {"Ready"}
        /\ WithoutInstance(o).instanceState = None
        /\ WithoutInstance(o).addresses = o.addresses
    BY DEF WithoutInstance
  <1> QED
    BY ONLY <1>1, <1>2

\* What Observed leaves alone.
LEMMA ObservedFields ==
  ASSUME NEW o \in LinodeMachineObject, NEW s, NEW r, NEW c
  PROVE  /\ SameMeta(o, Observed(o, s, r, c)) /\ SameSpec(o, Observed(o, s, r, c))
         /\ Observed(o, s, r, c).addresses = o.addresses
         /\ Observed(o, s, r, c).conds = c
  BY DEF Observed, LinodeMachineObject, SameMeta, SameSpec

\* What Preflighted and the end of reconcileCreate leave alone.
LEMMA StatusFields ==
  ASSUME NEW o \in LinodeMachineObject
  PROVE  /\ SameMeta(o, Preflighted(o)) /\ SameSpec(o, Preflighted(o))
         /\ Preflighted(o).conds = o.conds \cup {"PreflightReady"}
         /\ Preflighted(o).addresses = TRUE
         /\ SameMeta(o, [o EXCEPT !.instanceState = "offline"])
         /\ SameSpec(o, [o EXCEPT !.instanceState = "offline"])
         /\ [o EXCEPT !.instanceState = "offline"].conds = o.conds
         /\ [o EXCEPT !.instanceState = "offline"].addresses = o.addresses
  <1> USE DEF LinodeMachineObject, SameMeta, SameSpec
  <1>2. /\ SameMeta(o, Preflighted(o)) /\ SameSpec(o, Preflighted(o))
        /\ Preflighted(o).conds = o.conds \cup {"PreflightReady"}
        /\ Preflighted(o).addresses = TRUE
    BY DEF Preflighted
  <1>1. /\ SameMeta(o, [o EXCEPT !.instanceState = "offline"])
        /\ SameSpec(o, [o EXCEPT !.instanceState = "offline"])
        /\ [o EXCEPT !.instanceState = "offline"].conds = o.conds
        /\ [o EXCEPT !.instanceState = "offline"].addresses = o.addresses
    OBVIOUS
  <1> QED
    BY ONLY <1>1, <1>2

\* t is the merge patch of o with what changed between b and s, as far as the
\* requests in parts were served.
PatchOf(t, o, b, s, parts) ==
    /\ t.exists = o.exists /\ t.deleting = o.deleting
    /\ t.conds = MergedSet("conditions" \in parts, b.conds, s.conds, o.conds)
    /\ t.finalizer = Merged("object" \in parts, b.finalizer, s.finalizer, o.finalizer)
    /\ t.providerID = Merged("object" \in parts, b.providerID, s.providerID, o.providerID)
    /\ t.diskIDs = MergedSet("object" \in parts, b.diskIDs, s.diskIDs, o.diskIDs)
    /\ t.instanceState =
          Merged("status" \in parts, b.instanceState, s.instanceState, o.instanceState)
    /\ t.ready = Merged("status" \in parts, b.ready, s.ready, o.ready)
    /\ t.addresses = Merged("status" \in parts, b.addresses, s.addresses, o.addresses)

\* Patched is such a patch.
LEMMA PatchedFields ==
  ASSUME NEW o \in LinodeMachineObject, NEW b, NEW s, NEW parts
  PROVE  PatchOf(Patched(o, b, s, parts), o, b, s, parts)
  BY DEF Patched, PatchOf, LinodeMachineObject

\* The patch of a set that nobody else has changed.
LEMMA SetPatch ==
  ASSUME NEW b, NEW s
  PROVE  (b \cup (s \ b)) \ (b \ s) = s
  OBVIOUS

\* The fields of the object that is gone.
LEMMA GoneFields ==
    /\ Gone.exists = FALSE /\ Gone.deleting = FALSE /\ Gone.finalizer = FALSE
    /\ Gone.providerID = None /\ Gone.diskIDs = {} /\ Gone.conds = {}
    /\ Gone.instanceState = None /\ Gone.ready = FALSE /\ Gone.addresses = FALSE
    /\ New.exists = TRUE /\ New.deleting = FALSE /\ New.finalizer = FALSE
    /\ New.providerID = None /\ New.diskIDs = {} /\ New.conds = {}
    /\ New.instanceState = None /\ New.ready = FALSE /\ New.addresses = FALSE
  BY DEF Gone, New

-----------------------------------------------------------------------------
(***************************************************************************)
(* What each step of a reconcile of m does to the state of m.              *)
(***************************************************************************)
\* A step of a reconcile of m leaves everything about the other machines alone.
Elsewhere(m) ==
    \A n \in Machines \ {m} :
        /\ pc'[n] = pc[n] /\ obj'[n] = obj[n] /\ seen'[n] = seen[n] /\ base'[n] = base[n]
        /\ scope'[n] = scope[n] /\ secret'[n] = secret[n] /\ faults'[n] = faults[n]

\* A step of m's reconcile leaves the objects, control state and faults of every other
\* machine alone.
LEMMA Locality ==
  ASSUME TypeOK, NEW m \in Machines, ReconcileStep(m)
  PROVE  Elsewhere(m)
  <1>1. \A n \in Machines \ {m} : pc'[n] = pc[n]
    <2>1. UNCHANGED pc \/ \E l : pc' = [pc EXCEPT ![m] = l]
      BY ZenonT(60)
         DEF ReconcileStep, Reconcile, AddFinalizer, Dispatch, AddCredentialsRefFinalizer,
           reconcilePreflightLinodeFirewallCheck, reconcilePreflightVPC, CheckDependency,
           DependencyMissing, reconcilePreflightMetadataSupportConfigure, retryIfTransient,
           reconcilePreflightCreate, createInstance, GetInstanceID, createDisks, DiskError,
           reconcilePreflightConfigure, reconcilePreflightBoot, reconcilePreflightReady,
           reconcileUpdate, reconcileFirewallID, reconcileDelete, DeleteError,
           RemoveCredentialsRefFinalizer, Close, ctrlVars, Goto
    <2> QED
      BY <2>1 DEF TypeOK
  <1>2. \A n \in Machines \ {m} : obj'[n] = obj[n]
    <2>1. UNCHANGED obj \/ \E o : obj' = [obj EXCEPT ![m] = o]
      BY NonPatchingSteps DEF AddFinalizer, Close
    <2> QED
      BY <2>1 DEF TypeOK
  <1>3. \A n \in Machines \ {m} : seen'[n] = seen[n] /\ base'[n] = base[n]
    BY ReconcileFrame DEF TypeOK
  <1>4. \A n \in Machines \ {m} : scope'[n] = scope[n]
    BY ScopeStep DEF TypeOK, ScopeReplaced
  <1>5. \A n \in Machines \ {m} : secret'[n] = secret[n]
    <2>1. \/ UNCHANGED secret
          \/ secret' = [secret EXCEPT ![m].held = TRUE]
          \/ secret' = [secret EXCEPT ![m] = Released(@)]
      BY Zenon
         DEF ReconcileStep, Reconcile, AddFinalizer, Dispatch, AddCredentialsRefFinalizer,
           reconcilePreflightLinodeFirewallCheck, reconcilePreflightVPC, CheckDependency,
           reconcilePreflightMetadataSupportConfigure, reconcilePreflightCreate, createInstance,
           GetInstanceID, createDisks, reconcilePreflightConfigure, reconcilePreflightBoot,
           reconcilePreflightReady, reconcileUpdate, reconcileFirewallID, reconcileDelete,
           RemoveCredentialsRefFinalizer, Close, envVars
    <2> QED
      BY <2>1 DEF TypeOK
  <1>6. \A n \in Machines \ {m} : faults'[n] = faults[n]
    <2>1. UNCHANGED faults \/ \E f : Fault(m, f)
      BY ZenonT(60)
       DEF ReconcileStep, Reconcile, AddFinalizer, Dispatch, AddCredentialsRefFinalizer, Error,
           reconcilePreflightLinodeFirewallCheck, reconcilePreflightVPC, CheckDependency,
           reconcilePreflightMetadataSupportConfigure, retryIfTransient,
           reconcilePreflightCreate, createInstance, GetInstanceID, createDisks,
           reconcilePreflightConfigure, reconcilePreflightBoot, reconcilePreflightReady,
           reconcileUpdate, reconcileFirewallID, reconcileDelete,
           RemoveCredentialsRefFinalizer, Close, histVars
    <2> QED
      BY <2>1 DEF TypeOK, Fault
  <1> QED
    BY ONLY <1>1, <1>2, <1>3, <1>4, <1>5, <1>6 DEF Elsewhere

\* The copies of the machines, the instances, the Secrets and the faults.
stateVars == <<obj, seen, base, scope, pc, inst, secret, faults>>

Hit(m, f) == faults'[m] = faults[m] \cup {f}

Secured(m) == secret[m].exists /\ secret[m].held

\* The effect of Reconcile: work starts with the cached copy.
Begins(m) ==
    /\ pc[m] = "idle" /\ pc'[m] = "addFinalizer"
    /\ seen[m].exists /\ scope'[m] = seen[m] /\ base'[m] = seen[m]
    /\ UNCHANGED <<obj, seen, inst, secret>>
    /\ (seen[m] = obj[m] /\ UNCHANGED faults) \/ Hit(m, "stale")

\* The effect of AddFinalizer.
TakesFinalizer(m) ==
    /\ pc[m] = "addFinalizer"
    /\ Finalized(scope[m], scope'[m]) /\ scope'[m].finalizer
    /\ UNCHANGED <<seen, base, inst, secret, faults>>
    /\ \/ pc'[m] = "credentials" /\ scope[m].finalizer /\ UNCHANGED obj
       \/ /\ pc'[m] = "credentials" /\ ~scope[m].finalizer /\ obj[m].exists
          /\ Finalized(obj[m], obj'[m]) /\ obj'[m].finalizer
       \/ pc'[m] = "requeue" /\ ~scope[m].finalizer /\ UNCHANGED obj

\* The rungs of reconcile that neither call the Linode API to change something
\* nor store anything: from p to q, leaving the conditions c.
Rung(s, p, q, c) ==
    \/ p = "credentials" /\ q \in {"requeue", "return"} /\ c = s.conds
    \/ p = "credentials" /\ q = "delete" /\ s.deleting /\ c = s.conds
    \/ /\ p = "credentials" /\ ~s.deleting
       /\ q = IF s.instanceState # None THEN "update" ELSE "addCredentialsFinalizer"
       /\ c = s.conds \cup {"BootstrapDataSecretReady"}
    \/ p = "firewall" /\ q \in {"vpc", "requeue"} /\ c \in {s.conds, s.conds \cup {"FirewallReady"}}
    \/ p = "vpc" /\ q \in {"metadata", "requeue"} /\ c \in {s.conds, s.conds \cup {"VPCReady"}}
    \/ /\ p = "metadata" /\ q \in {"create", "requeue"}
       /\ c \in {s.conds, s.conds \cup {"MetadataSupportConfigured"}}
    \/ p = "configure" /\ q = "requeue" /\ c = s.conds
    \/ /\ p = "configure" /\ s.providerID # None /\ c = s.conds
       /\ \/ q = "boot" /\ "Configured" \in s.conds
          \/ q = "config" /\ (NDisks = 0 \/ "AdditionalDisksCreated" \in s.conds)
          \/ q = "disks"
    \/ p = "config" /\ q \in {"boot", "requeue"} /\ c = s.conds
    \/ p = "config" /\ q = "boot" /\ Live(s.providerID) /\ c = s.conds \cup {"Configured"}
    \/ p = "sync" /\ q \in {"return", "requeue"} /\ c \in {s.conds, s.conds \ {"Ready"}}

Climbs(m) ==
    /\ Rung(scope[m], pc[m], pc'[m], scope'[m].conds)
    /\ Conditioned(scope[m], scope'[m])
    /\ UNCHANGED <<obj, seen, base, inst, secret, faults>>

\* The effect of AddCredentialsRefFinalizer.
TakesSecret(m) ==
    /\ pc[m] = "addCredentialsFinalizer"
    /\ UNCHANGED <<obj, seen, base, scope, inst, faults>>
    /\ \/ pc'[m] = "firewall" /\ m \notin UsesCreds /\ UNCHANGED secret
       \/ pc'[m] = "firewall" /\ Secured(m)'
       \/ pc'[m] = "requeue" /\ UNCHANGED secret

\* The effect of reconcilePreflightCreate.
Creates(m) ==
    /\ pc[m] = "create"
    /\ UNCHANGED <<obj, seen, base, secret>>
    /\ \/ pc'[m] = "configure" /\ UNCHANGED <<scope, inst, faults>>
       \/ /\ scope[m].providerID = None /\ "Created" \notin scope[m].conds
          /\ \/ \E i \in InstanceIDs :
                   /\ NewInstance(m, i)
                   /\ \/ /\ pc'[m] = "configure" /\ scope'[m] = WithInstance(scope[m], i)
                         /\ UNCHANGED faults
                      \/ pc'[m] = "requeue" /\ Hit(m, "lostReply") /\ UNCHANGED scope
             \/ pc'[m] \in {"requeue", "adopt"} /\ UNCHANGED <<scope, inst, faults>>

\* The effect of createInstance.
Adopts(m) ==
    /\ pc[m] = "adopt"
    /\ UNCHANGED <<obj, seen, base, inst, secret, faults>>
    /\ \/ \E i \in ListInstances(m) :
             pc'[m] = "configure" /\ scope'[m] = WithInstance(scope[m], i)
       \/ pc'[m] \in {"configure", "requeue"} /\ UNCHANGED scope

\* The effect of createDisks.
MakesDisks(m) ==
    LET i == scope[m].providerID IN
    /\ pc[m] = "disks"
    /\ UNCHANGED <<obj, seen, base, secret>>
    /\ \/ \E d \in Disks :
             /\ d \notin scope[m].diskIDs /\ Live(i)
             /\ inst' = [inst EXCEPT ![i].disks[d] = @ + 1]
             /\ \/ pc'[m] = "disks" /\ scope'[m] = AddDiskID(scope[m], d) /\ UNCHANGED faults
                \/ pc'[m] = "requeue" /\ Hit(m, "lostReply") /\ UNCHANGED scope
       \/ /\ pc'[m] = "config" /\ Disks \subseteq scope[m].diskIDs /\ Live(i)
          /\ Conditioned(scope[m], scope'[m])
          /\ scope'[m].conds = scope[m].conds \cup {"AdditionalDisksCreated"}
          /\ \/ inst' = [inst EXCEPT ![i].profile = TRUE] /\ UNCHANGED faults
             \/ Hit(m, "noConfigs") /\ UNCHANGED inst
       \/ pc'[m] = "requeue" /\ UNCHANGED <<scope, inst, faults>>

\* The effect of reconcilePreflightBoot.
Boots(m) ==
    LET i == scope[m].providerID IN
    /\ pc[m] = "boot"
    /\ UNCHANGED <<obj, seen, base, secret>>
    /\ \/ pc'[m] \in {"ready", "requeue"} /\ UNCHANGED <<scope, inst, faults>>
       \/ /\ Live(i) /\ Boot(i)
          /\ \/ /\ pc'[m] = "ready" /\ UNCHANGED faults
                /\ Conditioned(scope[m], scope'[m])
                /\ scope'[m].conds = scope[m].conds \cup {"BootTriggered"}
             \/ pc'[m] = "requeue" /\ Hit(m, "lostReply") /\ UNCHANGED scope

\* The effects of reconcilePreflightReady and reconcileUpdate.
Reports(m) ==
    /\ UNCHANGED <<obj, seen, base, inst, secret>>
    /\ SameMeta(scope[m], scope'[m]) /\ SameSpec(scope[m], scope'[m])
    /\ \/ /\ pc[m] = "ready" /\ pc'[m] = "return" /\ UNCHANGED faults
          /\ \/ /\ "PreflightReady" \in scope[m].conds
                /\ scope'[m].conds = scope[m].conds /\ scope'[m].addresses = scope[m].addresses
             \/ /\ scope'[m].conds = scope[m].conds \cup {"PreflightReady"}
                /\ scope'[m].addresses
       \/ pc[m] = "ready" /\ pc'[m] = "requeue" /\ UNCHANGED <<scope, faults>>
       \/ pc[m] = "update" /\ pc'[m] \in {"requeue", "return"} /\ UNCHANGED <<scope, faults>>
       \/ /\ pc[m] = "update" /\ pc'[m] \in {"requeue", "sync"}
          /\ scope[m].providerID # None
          /\ scope'[m].addresses = scope[m].addresses
          /\ scope'[m].conds \in {scope[m].conds, scope[m].conds \ {"Ready"},
                                  scope[m].conds \cup {"Ready"}}
          /\ UNCHANGED faults \/ Hit(m, "slowBoot")

\* The effect of reconcileDelete.
Deletes(m) ==
    LET i == scope[m].providerID IN
    /\ pc[m] = "delete"
    /\ UNCHANGED <<obj, seen, base, secret>>
    /\ \/ pc'[m] = "release" /\ i = None /\ UNCHANGED <<scope, inst, faults>>
       \/ /\ pc'[m] = "release" /\ scope'[m] = WithoutInstance(scope[m]) /\ UNCHANGED faults
          /\ \/ Live(i) /\ Delete(i)
             \/ ~Live(i) /\ UNCHANGED inst
       \/ pc'[m] = "requeue" /\ Live(i) /\ Delete(i) /\ Hit(m, "lostReply") /\ UNCHANGED scope
       \/ pc'[m] = "requeue" /\ UNCHANGED <<scope, inst, faults>>

\* The effect of RemoveCredentialsRefFinalizer.
Releases(m) ==
    /\ pc[m] = "release"
    /\ UNCHANGED <<obj, seen, base, inst, faults>>
    /\ \/ pc'[m] = "return" /\ Finalized(scope[m], scope'[m]) /\ ~scope'[m].finalizer
       \/ pc'[m] = "requeue" /\ UNCHANGED <<scope, secret>>

\* The effect of Close.
Closes(m) ==
    /\ pc[m] \in {"return", "requeue"} /\ pc'[m] = "idle"
    /\ scope'[m] = Gone /\ base'[m] = Gone
    /\ UNCHANGED <<seen, inst, secret>>
    /\ \/ ~obj[m].exists /\ UNCHANGED <<obj, faults>>
       \/ /\ obj[m].exists
          /\ \E parts \in SUBSET PatchParts :
                /\ obj'[m] = Stored(Patched(obj[m], base[m], scope[m], parts))
                /\ (parts = PatchParts /\ UNCHANGED faults) \/ Hit(m, "lostPatch")

\* That is what the steps of a reconcile do.
LEMMA ReconcileEffect ==
  ASSUME TypeOK, NEW m \in Machines, Reconcile(m)
  PROVE  Begins(m) \/ UNCHANGED stateVars
  BY DEF TypeOK, Reconcile, Begins, stateVars, Goto, Fault, Hit, ctrlVars, envVars, histVars

\* controllerutil.AddFinalizer at the head of reconcile, with its patch.
LEMMA AddFinalizerEffect ==
  ASSUME TypeOK, NEW m \in Machines, AddFinalizer(m)
  PROVE  TakesFinalizer(m)
  <1>t. obj[m] \in LinodeMachineObject /\ scope[m] \in LinodeMachineObject
    BY DEF TypeOK
  <1>f. \A o \in LinodeMachineObject :
           Finalized(o, SetFinalizer(o, TRUE)) /\ SetFinalizer(o, TRUE).finalizer
    BY Zenon, SmallUpdates
  <1>1. scope'[m] = SetFinalizer(scope[m], TRUE)
    BY DEF TypeOK, AddFinalizer, SetFinalizer
  <1>2. Finalized(scope[m], scope'[m]) /\ scope'[m].finalizer
    BY Zenon, <1>t, <1>1, <1>f
  <1>3. ASSUME obj' = [obj EXCEPT ![m].finalizer = TRUE]
        PROVE  Finalized(obj[m], obj'[m]) /\ obj'[m].finalizer
    <2>1. obj'[m] = SetFinalizer(obj[m], TRUE)
      BY <1>3 DEF TypeOK, SetFinalizer
    <2> QED
      BY Zenon, <1>t, <2>1, <1>f
  <1> QED
    BY <1>2, <1>3 DEF TypeOK, AddFinalizer, TakesFinalizer, Goto, Error, Spend, envVars, histVars

\* SetCondition changes the conditions only.
LEMMA SetConditionEffect ==
  ASSUME TypeOK, NEW m \in Machines, NEW c \in Conditions, SetCondition(m, c)
  PROVE  Conditioned(scope[m], scope'[m]) /\ scope'[m].conds = scope[m].conds \cup {c}
  <1>1. scope[m] \in LinodeMachineObject /\ scope[m].conds \in SUBSET Conditions
    BY DEF TypeOK, LinodeMachineObject
  <1>2. scope'[m] = SetConds(scope[m], scope[m].conds \cup {c})
    BY DEF TypeOK, SetCondition, SetConds
  <1> QED
    BY <1>1, <1>2, SmallUpdates

\* The checks of the preflight ladder change conditions and where the reconcile stands.
LEMMA RungEffect ==
  ASSUME TypeOK, NEW m \in Machines,
         \/ Dispatch(m) \/ reconcilePreflightLinodeFirewallCheck(m) \/ reconcilePreflightVPC(m)
         \/ reconcilePreflightMetadataSupportConfigure(m) \/ GetInstanceID(m)
         \/ reconcilePreflightConfigure(m) \/ reconcileFirewallID(m)
  PROVE  Climbs(m)
  <1>k. {"BootstrapDataSecretReady", "FirewallReady", "VPCReady", "MetadataSupportConfigured",
         "Configured"} \subseteq Conditions
    BY DEF Conditions
  <1>p. \A l : Goto(m, l) => pc'[m] = l
    BY DEF Goto, TypeOK
  <1>u. UNCHANGED scope =>
           Conditioned(scope[m], scope'[m]) /\ scope'[m].conds = scope[m].conds
    BY DEF Conditioned, SameMeta, SameSpec, SameStatus
  <1>c. \A c \in Conditions : SetCondition(m, c) =>
           Conditioned(scope[m], scope'[m]) /\ scope'[m].conds = scope[m].conds \cup {c}
    BY SetConditionEffect
  <1>1. CASE Dispatch(m)
    BY <1>1, <1>k, <1>p, <1>u, <1>c
       DEF Dispatch, Climbs, Rung, k8sVars, envVars, histVars
  <1>2. CASE reconcilePreflightLinodeFirewallCheck(m)
    BY <1>2, <1>k, <1>p, <1>u, <1>c
       DEF reconcilePreflightLinodeFirewallCheck, CheckDependency, DependencyMissing, Climbs, Rung,
           k8sVars, envVars, histVars
  <1>3. CASE reconcilePreflightVPC(m)
    BY <1>3, <1>k, <1>p, <1>u, <1>c
       DEF reconcilePreflightVPC, CheckDependency, DependencyMissing, Climbs, Rung,
           k8sVars, envVars, histVars
  <1>4. CASE reconcilePreflightMetadataSupportConfigure(m)
    BY <1>4, <1>k, <1>p, <1>u, <1>c
       DEF reconcilePreflightMetadataSupportConfigure, retryIfTransient, Climbs, Rung,
           k8sVars, envVars, histVars
  <1>5. CASE GetInstanceID(m)
    <2> DEFINE l == CASE scope[m].providerID = None -> "requeue"
                 [] scope[m].providerID # None /\ "Configured" \in scope[m].conds -> "boot"
                 [] scope[m].providerID # None /\ "Configured" \notin scope[m].conds
                    /\ (NDisks = 0 \/ "AdditionalDisksCreated" \in scope[m].conds) -> "config"
                 [] OTHER -> "disks"
    <2>1. pc'[m] = l /\ pc[m] = "configure" /\ UNCHANGED <<obj, seen, base, scope, inst, secret, faults>>
      BY <1>5, <1>p DEF GetInstanceID, k8sVars, envVars, histVars
    <2>2. \/ l = "requeue"
          \/ /\ scope[m].providerID # None
             /\ \/ l = "boot" /\ "Configured" \in scope[m].conds
                \/ l = "config" /\ (NDisks = 0 \/ "AdditionalDisksCreated" \in scope[m].conds)
                \/ l = "disks"
      BY Zenon
    <2> HIDE DEF l
    <2> QED
      BY <2>1, <2>2, <1>u DEF Climbs, Rung
  <1>6. CASE reconcilePreflightConfigure(m)
    BY <1>6, <1>k, <1>p, <1>u, <1>c
       DEF reconcilePreflightConfigure, retryIfTransient, Climbs, Rung, k8sVars, envVars, histVars
  <1>7. CASE reconcileFirewallID(m)
    <2>1. ASSUME scope' = [scope EXCEPT ![m].conds = @ \ {"Ready"}]
          PROVE  Conditioned(scope[m], scope'[m]) /\ scope'[m].conds = scope[m].conds \ {"Ready"}
      <3>1. scope[m] \in LinodeMachineObject /\ scope[m].conds \ {"Ready"} \in SUBSET Conditions
        BY DEF TypeOK, LinodeMachineObject
      <3>2. scope'[m] = SetConds(scope[m], scope[m].conds \ {"Ready"})
        BY <2>1 DEF TypeOK, SetConds
      <3> QED
        BY <3>1, <3>2, SmallUpdates
    <2> QED
      BY <2>1, <1>7, <1>p, <1>u
         DEF reconcileFirewallID, Error, Climbs, Rung, k8sVars, envVars, histVars
  <1> QED
    BY Zenon, <1>1, <1>2, <1>3, <1>4, <1>5, <1>6, <1>7 

\* AddCredentialsRefFinalizer: the reconcile goes on to create only with the secret held.
LEMMA SecretEffect ==
  ASSUME TypeOK, NEW m \in Machines, AddCredentialsRefFinalizer(m)
  PROVE  TakesSecret(m)
  <1>1. ASSUME secret[m].exists, secret' = [secret EXCEPT ![m].held = TRUE]
        PROVE  Secured(m)'
    BY <1>1 DEF TypeOK, Secured
  <1> QED
    BY <1>1 DEF TypeOK, AddCredentialsRefFinalizer, TakesSecret, Goto, Error, k8sVars, histVars

\* reconcilePreflightCreate: a ProviderID is recorded only for an instance just created.
LEMMA CreateEffect ==
  ASSUME TypeOK, NEW m \in Machines, reconcilePreflightCreate(m)
  PROVE  Creates(m)
  <1>p. \A l : Goto(m, l) => pc'[m] = l
    BY DEF Goto, TypeOK
  <1>c. \A i : Created(m, i) => scope'[m] = WithInstance(scope[m], i)
    BY DEF Created, TypeOK
  <1>f. \A f : Fault(m, f) => Hit(m, f)
    BY DEF Fault, Hit, TypeOK
  <1> QED
    BY Zenon, <1>p, <1>c, <1>f
       DEF reconcilePreflightCreate, Creates, BeforeCreation, retryIfTransient, k8sVars, envVars,
           histVars

\* createInstance after a refused creation: the instance listed under the label is adopted.
LEMMA AdoptEffect ==
  ASSUME TypeOK, NEW m \in Machines, createInstance(m)
  PROVE  Adopts(m)
  <1>p. \A l : Goto(m, l) => pc'[m] = l
    BY DEF Goto, TypeOK
  <1>c. \A i : Created(m, i) => scope'[m] = WithInstance(scope[m], i)
    BY DEF Created, TypeOK
  <1> QED
    BY Zenon, <1>p, <1>c
       DEF createInstance, Adopts, retryIfTransient, k8sVars, envVars, histVars

\* createDisks: one disk at a time, recorded in DiskIDs after it was made.
LEMMA DisksEffect ==
  ASSUME TypeOK, NEW m \in Machines, createDisks(m)
  PROVE  MakesDisks(m)
  <1>p. \A l : Goto(m, l) => pc'[m] = l
    BY DEF Goto, TypeOK
  <1>f. \A f : Fault(m, f) => Hit(m, f)
    BY DEF Fault, Hit, TypeOK
  <1>c. SetCondition(m, "AdditionalDisksCreated") =>
           /\ Conditioned(scope[m], scope'[m])
           /\ scope'[m].conds = scope[m].conds \cup {"AdditionalDisksCreated"}
    BY SetConditionEffect DEF Conditions
  <1>d. \A d : scope' = [scope EXCEPT ![m].diskIDs = @ \cup {d}] =>
           scope'[m] = AddDiskID(scope[m], d)
    BY DEF TypeOK, AddDiskID
  <1> QED
    BY Zenon, <1>p, <1>f, <1>c, <1>d
       DEF createDisks, MakesDisks, NextDisk, DiskError, Error, k8sVars, envVars, histVars

\* reconcilePreflightBoot: the instance boots with whatever disks it has by then.
LEMMA BootEffect ==
  ASSUME TypeOK, NEW m \in Machines, reconcilePreflightBoot(m)
  PROVE  Boots(m)
  <1>p. \A l : Goto(m, l) => pc'[m] = l
    BY DEF Goto, TypeOK
  <1>f. \A f : Fault(m, f) => Hit(m, f)
    BY DEF Fault, Hit, TypeOK
  <1>c. SetCondition(m, "BootTriggered") =>
           /\ Conditioned(scope[m], scope'[m])
           /\ scope'[m].conds = scope[m].conds \cup {"BootTriggered"}
    BY SetConditionEffect DEF Conditions
  <1> QED
    BY Zenon, <1>p, <1>f, <1>c
       DEF reconcilePreflightBoot, Boots, Error, k8sVars, envVars, histVars

\* reconcilePreflightReady: state, addresses and the Ready condition are set on the scope.
LEMMA ReadyEffect ==
  ASSUME TypeOK, NEW m \in Machines, reconcilePreflightReady(m)
  PROVE  Reports(m)
  <1>t. scope[m] \in LinodeMachineObject
    BY DEF TypeOK
  <1>p. \A l : Goto(m, l) => pc'[m] = l
    BY DEF Goto, TypeOK
  <1>u. UNCHANGED scope => SameMeta(scope[m], scope'[m]) /\ SameSpec(scope[m], scope'[m])
    BY DEF SameMeta, SameSpec
  <1>1. ASSUME scope' = [scope EXCEPT ![m].instanceState = "offline"]
        PROVE  /\ SameMeta(scope[m], scope'[m]) /\ SameSpec(scope[m], scope'[m])
               /\ scope'[m].conds = scope[m].conds /\ scope'[m].addresses = scope[m].addresses
    <2>1. scope'[m] = [scope[m] EXCEPT !.instanceState = "offline"]
      BY <1>1 DEF TypeOK
    <2> QED
      BY Zenon, <1>t, <2>1, StatusFields
  <1>2. ASSUME scope' = [scope EXCEPT ![m] = Preflighted(@)]
        PROVE  /\ SameMeta(scope[m], scope'[m]) /\ SameSpec(scope[m], scope'[m])
               /\ scope'[m].conds = scope[m].conds \cup {"PreflightReady"} /\ scope'[m].addresses
    <2>1. scope'[m] = Preflighted(scope[m])
      BY <1>2 DEF TypeOK
    <2>2. /\ SameMeta(scope[m], Preflighted(scope[m])) /\ SameSpec(scope[m], Preflighted(scope[m]))
          /\ Preflighted(scope[m]).conds = scope[m].conds \cup {"PreflightReady"}
          /\ Preflighted(scope[m]).addresses
      BY Zenon, <1>t, StatusFields
    <2> QED
      BY Zenon, <2>1, <2>2
  <1>3. /\ pc[m] = "ready" /\ UNCHANGED <<obj, seen, base, inst, secret, faults>>
        /\ \/ UNCHANGED scope /\ pc'[m] = "requeue"
           \/ /\ "PreflightReady" \in scope[m].conds /\ pc'[m] = "return"
              /\ scope' = [scope EXCEPT ![m].instanceState = "offline"]
           \/ scope' = [scope EXCEPT ![m] = Preflighted(@)] /\ pc'[m] = "return"
    BY Zenon, <1>p DEF reconcilePreflightReady, Error, k8sVars, envVars, histVars
  <1> QED
    BY <1>u, <1>1, <1>2, <1>3 DEF Reports

\* reconcileUpdate: the status follows the state of the instance, or a deletion follows.
LEMMA UpdateEffect ==
  ASSUME TypeOK, NEW m \in Machines, reconcileUpdate(m)
  PROVE  Reports(m)
  <1>t. scope[m] \in LinodeMachineObject
    BY DEF TypeOK
  <1>p. \A l : Goto(m, l) => pc'[m] = l
    BY DEF Goto, TypeOK
  <1>f. \A f : Fault(m, f) => Hit(m, f)
    BY DEF Fault, Hit, TypeOK
  <1>u. UNCHANGED scope => SameMeta(scope[m], scope'[m]) /\ SameSpec(scope[m], scope'[m])
    BY DEF SameMeta, SameSpec
  <1>1. ASSUME NEW s, NEW r, NEW c, scope' = [scope EXCEPT ![m] = Observed(@, s, r, c)]
        PROVE  /\ SameMeta(scope[m], scope'[m]) /\ SameSpec(scope[m], scope'[m])
               /\ scope'[m].conds = c /\ scope'[m].addresses = scope[m].addresses
    <2>1. scope'[m] = Observed(scope[m], s, r, c)
      BY <1>1 DEF TypeOK
    <2> QED
      BY <1>t, <2>1, ObservedFields
  <1>2. /\ pc[m] = "update" /\ UNCHANGED <<obj, seen, base, inst, secret>>
        /\ \/ UNCHANGED <<scope, faults>> /\ pc'[m] \in {"requeue", "return"}
           \/ /\ scope[m].providerID # None /\ pc'[m] \in {"requeue", "sync"}
              /\ \E s, r : \E c \in {scope[m].conds, scope[m].conds \ {"Ready"},
                                     scope[m].conds \cup {"Ready"}} :
                    scope' = [scope EXCEPT ![m] = Observed(@, s, r, c)]
              /\ UNCHANGED faults \/ Hit(m, "slowBoot")
    BY Zenon, <1>p, <1>f
       DEF reconcileUpdate, Found, Live, retryIfTransient, k8sVars, envVars, histVars
  <1> QED
    BY <1>u, <1>1, <1>2 DEF Reports

\* reconcileDelete: the ProviderID is dropped only once the instance is gone.
LEMMA DeleteEffect ==
  ASSUME TypeOK, NEW m \in Machines, reconcileDelete(m)
  PROVE  Deletes(m)
  <1>p. \A l : Goto(m, l) => pc'[m] = l
    BY DEF Goto, TypeOK
  <1>f. \A f : Fault(m, f) => Hit(m, f)
    BY DEF Fault, Hit, TypeOK
  <1>d. InstanceDeleted(m) => scope'[m] = WithoutInstance(scope[m])
    BY DEF TypeOK, InstanceDeleted
  <1> QED
    BY Zenon, <1>p, <1>f, <1>d
       DEF reconcileDelete, Deletes, DeleteError, Error, k8sVars, envVars, histVars

\* RemoveCredentialsRefFinalizer: the object's finalizer goes with the secret's.
LEMMA ReleaseEffect ==
  ASSUME TypeOK, NEW m \in Machines, RemoveCredentialsRefFinalizer(m)
  PROVE  Releases(m)
  <1>t. scope[m] \in LinodeMachineObject
    BY DEF TypeOK
  <1>p. \A l : Goto(m, l) => pc'[m] = l
    BY DEF Goto, TypeOK
  <1>1. ASSUME scope' = [scope EXCEPT ![m].finalizer = FALSE]
        PROVE  Finalized(scope[m], scope'[m]) /\ ~scope'[m].finalizer
    <2>1. scope'[m] = SetFinalizer(scope[m], FALSE)
      BY <1>1 DEF TypeOK, SetFinalizer
    <2> QED
      BY Zenon, <1>t, <2>1, SmallUpdates
  <1> QED
    BY Zenon, <1>p, <1>1
       DEF RemoveCredentialsRefFinalizer, Releases, Error, k8sVars, histVars

\* The deferred machineScope.Close: the patches that get through change the stored object.
LEMMA CloseEffect ==
  ASSUME TypeOK, NEW m \in Machines, Close(m)
  PROVE  Closes(m)
  <1>1. pc[m] \in {"return", "requeue"} /\ pc'[m] = "idle" /\ scope'[m] = Gone /\ base'[m] = Gone
    BY DEF TypeOK, Close, Goto
  <1>2. UNCHANGED <<seen, inst, secret>>
    BY DEF Close, envVars
  <1>f. \A f : Fault(m, f) => Hit(m, f)
    BY DEF Fault, Hit, TypeOK
  <1>3. \/ ~obj[m].exists /\ UNCHANGED <<obj, faults>>
        \/ /\ obj[m].exists
           /\ \E parts \in SUBSET PatchParts :
                /\ obj' = [obj EXCEPT ![m] = Stored(Patched(obj[m], base[m], scope[m], parts))]
                /\ (parts = PatchParts /\ UNCHANGED faults) \/ Hit(m, "lostPatch")
    BY <1>f DEF Close, histVars
  <1> QED
    BY <1>1, <1>2, <1>3 DEF TypeOK, Closes

-----------------------------------------------------------------------------
(***************************************************************************)
(* What the steps do to the instances.                                     *)
(***************************************************************************)
\* y is what x becomes in a step other than its creation: it keeps its label
\* and creator, and a deleted instance does not come back.
Onward(x, y) ==
    /\ y.label = x.label /\ y.creator = x.creator
    /\ x.state = "unused" => y = x
    /\ y.state = "unused" => x.state = "unused"
    /\ y.state \in Status => x.state \in Status

\* The disks of x are those of y.
SameDisks(x, y) == y.disks = x.disks /\ y.profile = x.profile

\* What CreateInstance leaves in the API: one new instance, under a label nobody held.
LEMMA NewInstanceEffect ==
  ASSUME TypeOK, NEW m \in Machines, NEW i \in InstanceIDs, NewInstance(m, i)
  PROVE  /\ inst[i].state = "unused" /\ inst'[i].state = "offline"
         /\ inst'[i].label = LabelOf[m] /\ inst'[i].creator = m
         /\ SameDisks(inst[i], inst'[i])
         /\ \A j \in InstanceIDs \ {i} : inst'[j] = inst[j]
         /\ ~LabelTaken(LabelOf[m])
  <1>1. inst'[i] = CreatedBy(inst[i], m) /\ \A j \in InstanceIDs \ {i} : inst'[j] = inst[j]
    BY DEF TypeOK, NewInstance
  <1>2. inst[i] \in Instance
    BY DEF TypeOK
  <1>3. /\ CreatedBy(inst[i], m).state = "offline" /\ CreatedBy(inst[i], m).label = LabelOf[m]
        /\ CreatedBy(inst[i], m).creator = m /\ SameDisks(inst[i], CreatedBy(inst[i], m))
    BY <1>2 DEF CreatedBy, Instance, SameDisks
  <1> QED
    BY Zenon, <1>1, <1>3 DEF NewInstance

\* What CreateInstanceDisk leaves in the API: one more disk of that device.
LEMMA DiskEffect ==
  ASSUME TypeOK, NEW i \in InstanceIDs, NEW d \in Disks, Live(i),
         inst' = [inst EXCEPT ![i].disks[d] = @ + 1]
  PROVE  /\ Onward(inst[i], inst'[i]) /\ inst'[i].state = inst[i].state
         /\ inst'[i].profile = inst[i].profile
         /\ inst'[i].disks[d] = inst[i].disks[d] + 1
         /\ \A e \in Disks \ {d} : inst'[i].disks[e] = inst[i].disks[e]
         /\ \A j \in InstanceIDs \ {i} : inst'[j] = inst[j]
  <1>1. /\ inst'[i] = [inst[i] EXCEPT !.disks[d] = @ + 1]
        /\ \A j \in InstanceIDs \ {i} : inst'[j] = inst[j]
    BY DEF TypeOK
  <1>2. inst[i] \in Instance
    BY DEF TypeOK
  <1> HIDE DEF Disks
  <1>3. /\ inst'[i].state = inst[i].state /\ inst'[i].label = inst[i].label
        /\ inst'[i].creator = inst[i].creator /\ inst'[i].profile = inst[i].profile
        /\ inst'[i].disks[d] = inst[i].disks[d] + 1
        /\ \A e \in Disks \ {d} : inst'[i].disks[e] = inst[i].disks[e]
    BY <1>1, <1>2 DEF Instance
  <1> QED
    BY <1>1, <1>3 DEF Onward, Live, Status

\* What a boot, a deletion or the instance's own life leaves in the API.
LEMMA StateEffect ==
  ASSUME TypeOK, NEW i \in InstanceIDs, NEW s \in Status \cup {"deleted"}, Live(i),
         inst' = [inst EXCEPT ![i].state = s]
  PROVE  /\ Onward(inst[i], inst'[i]) /\ inst'[i].state = s /\ SameDisks(inst[i], inst'[i])
         /\ \A j \in InstanceIDs \ {i} : inst'[j] = inst[j]
  BY DEF TypeOK, Instance, Onward, SameDisks, Live, Status

\* What UpdateInstanceConfig leaves in the API.
LEMMA ProfileEffect ==
  ASSUME TypeOK, NEW i \in InstanceIDs, Live(i), inst' = [inst EXCEPT ![i].profile = TRUE]
  PROVE  /\ Onward(inst[i], inst'[i]) /\ inst'[i].state = inst[i].state
         /\ inst'[i].disks = inst[i].disks /\ inst'[i].profile = TRUE
         /\ \A j \in InstanceIDs \ {i} : inst'[j] = inst[j]
  BY DEF TypeOK, Instance, Onward, Live, Status

-----------------------------------------------------------------------------
(***************************************************************************)
(* What happens around the controller, and all steps together.             *)
(***************************************************************************)
\* The effects of CacheSync, UserDelete and UserDeletesSecret.
Informs(m) ==
    /\ seen'[m] = obj[m]
    /\ \A n \in Machines \ {m} : seen'[n] = seen[n]
    /\ UNCHANGED <<obj, base, scope, pc, inst, secret, faults>>

Terminates(m) ==
    /\ obj[m].exists /\ ~obj[m].deleting
    /\ obj'[m] = Stored([obj[m] EXCEPT !.deleting = TRUE])
    /\ \A n \in Machines \ {m} : obj'[n] = obj[n]
    /\ UNCHANGED <<seen, base, scope, pc, inst, secret, faults>>

LosesSecret(m) ==
    /\ secret'[m].held = secret[m].held /\ secret'[m].exists = secret[m].held
    /\ \A n \in Machines \ {m} : secret'[n] = secret[n]
    /\ UNCHANGED <<obj, seen, base, scope, pc, inst, faults>>

\* The effect of InstanceStarted and OutOfBand.
Moves(i) ==
    /\ Live(i)
    /\ \/ inst[i].state = "booting" /\ inst' = [inst EXCEPT ![i].state = "running"]
       \/ \E s \in {"shutting_down", "deleted"} : inst' = [inst EXCEPT ![i].state = s]
    /\ UNCHANGED <<obj, seen, base, scope, pc, secret, faults>>

\* The effect of Crash.
Crashes ==
    /\ \A m \in Machines :
          /\ pc'[m] = "idle" /\ scope'[m] = Gone /\ base'[m] = Gone /\ seen'[m] = obj[m]
          /\ \/ pc[m] = "idle" /\ faults'[m] = faults[m]
             \/ Hit(m, "crash")
    /\ UNCHANGED <<obj, inst, secret>>

\* A step of a reconcile of m that does something.
Works(m) ==
    \/ Begins(m) \/ TakesFinalizer(m) \/ Climbs(m) \/ TakesSecret(m) \/ Creates(m) \/ Adopts(m)
    \/ MakesDisks(m) \/ Boots(m) \/ Reports(m) \/ Deletes(m) \/ Releases(m) \/ Closes(m)

\* Every step of m's reconcile is one of the effects above and touches nobody else.
LEMMA WorkEffect ==
  ASSUME TypeOK, NEW m \in Machines, ReconcileStep(m)
  PROVE  UNCHANGED stateVars \/ (Elsewhere(m) /\ Works(m))
  BY Zenon, Locality, ReconcileEffect, AddFinalizerEffect, RungEffect, SecretEffect, CreateEffect,
     AdoptEffect, DisksEffect, BootEffect, ReadyEffect, UpdateEffect, DeleteEffect,
     ReleaseEffect, CloseEffect
     DEF ReconcileStep, Works

\* Every step of the specification, summarised.
LEMMA StepEffect ==
  ASSUME TypeOK, [Next]_vars
  PROVE  \/ UNCHANGED stateVars
         \/ \E m \in Machines : /\ Elsewhere(m)
                                /\ Works(m)
         \/ \E m \in Machines : Informs(m) \/ Terminates(m) \/ LosesSecret(m)
         \/ \E i \in InstanceIDs : Moves(i)
         \/ Crashes
  <1> DEFINE Goal == \/ UNCHANGED stateVars
                     \/ \E m \in Machines : Elsewhere(m) /\ Works(m)
                     \/ \E m \in Machines : Informs(m) \/ Terminates(m) \/ LosesSecret(m)
                     \/ \E i \in InstanceIDs : Moves(i)
                     \/ Crashes
  <1>1. ASSUME NEW m \in Machines, ReconcileStep(m) PROVE Goal
    BY Zenon, <1>1, WorkEffect
  <1>2. ASSUME NEW m \in Machines, CacheSync(m) PROVE Informs(m)
    BY <1>2 DEF TypeOK, CacheSync, Informs, ctrlVars, envVars, histVars
  <1>3. ASSUME NEW m \in Machines, UserDelete(m) PROVE Terminates(m)
    BY <1>3 DEF TypeOK, UserDelete, Terminates, ctrlVars, envVars, histVars
  <1>4. ASSUME NEW m \in Machines, UserDeletesSecret(m) PROVE LosesSecret(m)
    BY <1>4
       DEF TypeOK, UserDeletesSecret, LosesSecret, k8sVars, ctrlVars, envVars, histVars
  <1>5. ASSUME NEW m \in Machines, Wakeup(m) \/ BootstrapDataReady(m)
        PROVE  UNCHANGED stateVars
    BY Zenon, <1>5
       DEF Wakeup, BootstrapDataReady, stateVars, ctrlVars, envVars, histVars
  <1>6. ASSUME NEW d \in Refs, DependencyReady(d) PROVE UNCHANGED stateVars
    BY Zenon, <1>6 DEF DependencyReady, stateVars, k8sVars, ctrlVars, envVars, histVars
  <1>7. ASSUME NEW i \in InstanceIDs, InstanceStarted(i) \/ OutOfBand(i) PROVE Moves(i)
    <2>1. InstanceStarted(i) => Live(i)
      BY MachineAssumptions DEF InstanceStarted, Live, Status
    <2> QED
      BY Zenon, <2>1, <1>7
         DEF InstanceStarted, OutOfBand, Moves, k8sVars, ctrlVars, envVars, histVars
  <1>8. CASE Crash
    <2>1. Crashes
      BY <1>8 DEF TypeOK, Crash, Crashes, Hit, envVars
    <2> QED
      BY Zenon, <2>1
  <1>9. CASE UNCHANGED vars
    BY Zenon, <1>9 DEF vars, stateVars, k8sVars, ctrlVars, envVars, histVars
  <1> QED
    BY Zenon, <1>1, <1>2, <1>3, <1>4, <1>5, <1>6, <1>7, <1>8, <1>9 DEF Next

\* A step creates an instance, or takes the instances onward.
LEMMA InstanceEffect ==
  ASSUME TypeOK, [Next]_vars
  PROVE  \/ \A j \in InstanceIDs : Onward(inst[j], inst'[j])
         \/ \E m \in Machines : \E i \in InstanceIDs :
               pc[m] = "create" /\ pc'[m] # "create" /\ NewInstance(m, i)
  <1> DEFINE Goal == \/ \A j \in InstanceIDs : Onward(inst[j], inst'[j])
                     \/ \E m \in Machines : \E i \in InstanceIDs :
                           pc[m] = "create" /\ pc'[m] # "create" /\ NewInstance(m, i)
  <1>u. UNCHANGED inst => Goal
    BY Zenon DEF Onward
  <1>o. ASSUME NEW i \in InstanceIDs, Onward(inst[i], inst'[i]),
               \A j \in InstanceIDs \ {i} : inst'[j] = inst[j]
        PROVE  Goal
    BY Zenon, <1>o DEF Onward
  <1>p. \A m \in Machines : Live(scope[m].providerID) => scope[m].providerID \in InstanceIDs
    BY DEF TypeOK, LinodeMachineObject, Live
  <1>s. ASSUME NEW i \in InstanceIDs, NEW s \in Status \cup {"deleted"}, Live(i),
               inst' = [inst EXCEPT ![i].state = s]
        PROVE  Goal
    BY Zenon, <1>s, <1>o, StateEffect
  <1>1. ASSUME NEW m \in Machines, Creates(m) PROVE Goal
    <2>1. pc[m] = "create" /\ pc'[m] # "create"
      BY Zenon, <1>1 DEF Creates
    <2> QED
      BY Zenon, <1>1, <2>1, <1>u DEF Creates
  <1>2. ASSUME NEW m \in Machines, MakesDisks(m) PROVE Goal
    <2> DEFINE i == scope[m].providerID
    <2>1. \/ UNCHANGED inst
          \/ Live(i) /\ \E d \in Disks : inst' = [inst EXCEPT ![i].disks[d] = @ + 1]
          \/ Live(i) /\ inst' = [inst EXCEPT ![i].profile = TRUE]
      BY Zenon, <1>2 DEF MakesDisks
    <2> QED
      BY Zenon, <2>1, <1>u, <1>o, <1>p, DiskEffect, ProfileEffect
  <1>3. ASSUME NEW m \in Machines, Boots(m) PROVE Goal
    <2> DEFINE i == scope[m].providerID
               s == IF inst[i].state = "offline" THEN "booting" ELSE inst[i].state
    <2>1. UNCHANGED inst \/ (Live(i) /\ inst' = [inst EXCEPT ![i].state = s])
      BY Zenon, <1>3 DEF Boots, Boot
    <2>2. Live(i) => s \in Status \cup {"deleted"}
      BY DEF Live, Status
    <2> HIDE DEF s
    <2> QED
      BY Zenon, <2>1, <2>2, <1>u, <1>p, <1>s
  <1>4. ASSUME NEW m \in Machines, Deletes(m) PROVE Goal
    <2> DEFINE i == scope[m].providerID
    <2>1. UNCHANGED inst \/ (Live(i) /\ inst' = [inst EXCEPT ![i].state = "deleted"])
      BY Zenon, <1>4 DEF Deletes, Delete
    <2> QED
      BY Zenon, <2>1, <1>u, <1>p, <1>s
  <1>5. ASSUME NEW i \in InstanceIDs, Moves(i) PROVE Goal
    BY Zenon, <1>5, <1>s DEF Moves, Status
  <1>6. ASSUME NEW m \in Machines, Works(m) PROVE Goal
    BY Zenon, <1>6, <1>u, <1>1, <1>2, <1>3, <1>4
       DEF Works, Begins, TakesFinalizer, Climbs, TakesSecret, Adopts, Reports, Releases, Closes
  <1> QED
    BY Zenon, <1>u, <1>5, <1>6, StepEffect
       DEF stateVars, Informs, Terminates, LosesSecret, Crashes

\* An instance that is gone does not come back.
LEMMA DeadStays ==
  ASSUME TypeOK, [Next]_vars, NEW m \in Machines, NEW i \in InstanceIDs \cup {None},
         LabelledFor(m, i), ~Live(i)
  PROVE  ~Live(i)'
  <1>1. CASE i = None
    BY <1>1 DEF Live
  <1>2. CASE i \in InstanceIDs /\ i # None
    <2>1. inst[i].state # "unused" /\ inst[i].state \notin Status
      BY <1>2 DEF Live, LabelledFor
    <2>2. ASSUME \A j \in InstanceIDs : Onward(inst[j], inst'[j]) PROVE ~Live(i)'
      BY Zenon, <2>1, <2>2, <1>2 DEF Onward, Live
    <2>3. ASSUME NEW n \in Machines, NEW j \in InstanceIDs, NewInstance(n, j) PROVE ~Live(i)'
      <3>1. inst[j].state = "unused" /\ \A k \in InstanceIDs \ {j} : inst'[k] = inst[k]
        BY Zenon, <2>3, NewInstanceEffect
      <3>2. inst'[i] = inst[i]
        BY <3>1, <2>1, <1>2
      <3> QED
        BY Zenon, <3>2, <2>1 DEF Live
    <2> QED
      BY Zenon, <2>2, <2>3, InstanceEffect
  <1> QED
    BY <1>1, <1>2

=============================================================================
