-------------------- MODULE LinodeMachineInstanceProofs --------------------
(***************************************************************************)
(* The course of a reconcile of LinodeMachine, the instances of the        *)
(* machines, and what a LinodeMachine says about its instance: none is     *)
(* orphaned, none has a disk twice, the Secret that deleting it takes is   *)
(* held, the disks are complete before the instance starts, and the        *)
(* ProviderID stays.  The invariants are proved effect by effect           *)
(* (MachineEffect), each from the earlier ones:                            *)
(*                                                                         *)
(*   Course       what a reconcile has behind it at each place of its code *)
(*   Sync         what it holds, against what is stored (no stale read)    *)
(*   Tracked      the instances, against the ProviderIDs kept; NoOrphan    *)
(*   Counted      the disks, against the DiskIDs kept; OneDiskPerDevice    *)
(*   Held         the Secret, against the live instances; CredentialsHeld  *)
(*   Booted       the conditions, against the disks; DisksBeforeBoot       *)
(*   AllWhole     the conditions, against the status; StateComplete        *)
(*   Replaced     the ProviderID of the scope, against the stored one;     *)
(*                ProviderIDStable                                         *)
(***************************************************************************)
EXTENDS LinodeMachineProofs

-----------------------------------------------------------------------------
(***************************************************************************)
(* The course of a reconcile: what holds at each of its steps, whatever    *)
(* faults happen.                                                          *)
(***************************************************************************)
Creating == {"addCredentialsFinalizer", "firewall", "vpc", "metadata", "create", "adopt",
             "configure", "disks", "config", "boot", "ready"}

\* The steps after createInstance, and those that do not touch ProviderID.
WithID == {"disks", "config", "boot", "ready"}
BeforeID == {"addFinalizer", "credentials", "addCredentialsFinalizer", "firewall", "vpc",
             "metadata", "create", "adopt", "update", "sync", "delete"}

\* The scope and the object agree with the step: an object that is not being
\* deleted is created or updated, one that is being deleted is deleted.
Placed(m) ==
    /\ ~obj[m].exists => obj[m] = Gone
    /\ pc[m] = "idle" => scope[m] = Gone /\ base[m] = Gone
    /\ pc[m] \notin {"idle", "addFinalizer", "return", "requeue"} => scope[m].finalizer
    /\ pc[m] \in {"delete", "release"} => scope[m].deleting
    /\ pc[m] \in Creating \cup {"update", "sync"} => ~scope[m].deleting
    /\ pc[m] \in {"adopt", "release"} => scope[m].providerID = None
    /\ pc[m] = "adopt" => "Created" \notin scope[m].conds
    /\ pc[m] \in WithID => scope[m].providerID # None
    /\ pc[m] = "update" => scope[m].instanceState # None
    /\ scope[m].deleting = base[m].deleting
    /\ scope[m].deleting => obj[m].deleting \/ ~obj[m].exists
    /\ seen[m].deleting => obj[m].deleting \/ ~obj[m].exists

\* What a reconcile has changed in its copy: ProviderID is set once, or cleared
\* when the instance is gone; the DiskIDs, the addresses and the conditions but
\* Ready are only added to.
Changed(m) ==
    /\ base[m].diskIDs \subseteq scope[m].diskIDs
    /\ base[m].conds \subseteq scope[m].conds \cup {"Ready"}
    /\ base[m].addresses => scope[m].addresses
    /\ pc[m] \in BeforeID => scope[m].providerID = base[m].providerID
    /\ scope[m].providerID # base[m].providerID =>
          \/ ~scope[m].deleting /\ base[m].providerID = None /\ "Created" \in scope[m].conds
          \/ scope[m].deleting /\ scope[m].providerID = None /\ ~Live(base[m].providerID)

Course == \A m \in Machines : Placed(m) /\ Changed(m)

\* What Close stores: nothing any more, or a patch.
LEMMA ClosedObject ==
  ASSUME TypeOK, NEW m \in Machines, Closes(m), obj[m].exists
  PROVE  \E parts \in SUBSET PatchParts :
            /\ (parts = PatchParts /\ UNCHANGED faults) \/ Hit(m, "lostPatch")
            /\ \E t \in LinodeMachineObject :
                  /\ PatchOf(t, obj[m], base[m], scope[m], parts)
                  /\ obj'[m] = IF t.deleting /\ ~t.finalizer THEN Gone ELSE t
  <1>t. /\ obj[m] \in LinodeMachineObject /\ base[m] \in LinodeMachineObject
        /\ scope[m] \in LinodeMachineObject
    BY DEF TypeOK
  <1>1. PICK parts \in SUBSET PatchParts :
            /\ obj'[m] = Stored(Patched(obj[m], base[m], scope[m], parts))
            /\ (parts = PatchParts /\ UNCHANGED faults) \/ Hit(m, "lostPatch")
    BY Zenon DEF Closes
  <1> DEFINE t == Patched(obj[m], base[m], scope[m], parts)
  <1>2. PatchOf(t, obj[m], base[m], scope[m], parts)
    BY Zenon, <1>t, PatchedFields
  <1>3. t \in LinodeMachineObject
    BY <1>t, PatchedObject
  <1>4. obj'[m] = IF t.deleting /\ ~t.finalizer THEN Gone ELSE t
    BY Zenon, <1>1 DEF Stored
  <1> HIDE DEF t
  <1> QED
    BY Zenon, <1>1, <1>2, <1>3, <1>4

\* What UserDelete stores.
LEMMA TerminatedObject ==
  ASSUME TypeOK, NEW m \in Machines, Terminates(m)
  PROVE  \/ obj'[m] = Gone /\ ~obj[m].finalizer
         \/ /\ obj'[m].exists /\ obj'[m].deleting /\ obj'[m].finalizer /\ obj[m].finalizer
            /\ SameSpec(obj[m], obj'[m]) /\ obj'[m].conds = obj[m].conds
            /\ SameStatus(obj[m], obj'[m])
  <1> DEFINE t == [obj[m] EXCEPT !.deleting = TRUE]
  <1>1. obj[m] \in LinodeMachineObject
    BY DEF TypeOK
  <1>2. /\ t.exists = obj[m].exists /\ t.deleting = TRUE /\ t.finalizer = obj[m].finalizer
        /\ SameSpec(obj[m], t) /\ t.conds = obj[m].conds /\ SameStatus(obj[m], t)
    BY <1>1 DEF LinodeMachineObject, SameSpec, SameStatus
  <1>3. obj'[m] = IF t.deleting /\ ~t.finalizer THEN Gone ELSE t
    BY Zenon DEF Terminates, Stored
  <1>4. obj[m].exists
    BY DEF Terminates
  <1> HIDE DEF t
  <1> QED
    BY Zenon, <1>2, <1>3, <1>4

\* The instance a copy of m names does not come back either.
LEMMA NotBack ==
  ASSUME TypeOK, ProviderIDHasLabel, [Next]_vars, NEW m \in Machines,
         NEW o \in {obj[m], seen[m], base[m], scope[m]}, ~Live(o.providerID)
  PROVE  o.providerID = None \/ inst'[o.providerID].state \notin Status
  <1>1. o \in LinodeMachineObject
    BY DEF TypeOK
  <1>2. o.providerID \in InstanceIDs \cup {None} /\ LabelledFor(m, o.providerID)
    BY <1>1 DEF LinodeMachineObject, ProviderIDHasLabel, LabelledFor
  <1> HIDE DEF LabelledFor
  <1>3. \A i \in InstanceIDs \cup {None} :
           LabelledFor(m, i) /\ ~Live(i) => i = None \/ inst'[i].state \notin Status
    BY Zenon, DeadStays DEF Live
  <1> QED
    BY Zenon, <1>2, <1>3

\* The course of a reconcile is kept by every step.
LEMMA CourseKeeps ==
  ASSUME TypeOK, ProviderIDHasLabel, Course, [Next]_vars
  PROVE  Course'
  <1> SUFFICES ASSUME NEW n \in Machines PROVE Placed(n)' /\ Changed(n)'
    BY DEF Course
  <1> DEFINE Goal == Placed(n)' /\ Changed(n)'
  <1>t. /\ obj[n] \in LinodeMachineObject /\ seen[n] \in LinodeMachineObject
        /\ base[n] \in LinodeMachineObject /\ scope[n] \in LinodeMachineObject
    BY DEF TypeOK
  <1>c. Placed(n) /\ Changed(n)
    BY DEF Course
  <1>d. ~Live(base[n].providerID) =>
           base[n].providerID = None \/ inst'[base[n].providerID].state \notin Status
    BY Zenon, NotBack
  <1>f. ASSUME pc'[n] = pc[n], obj'[n] = obj[n], base'[n] = base[n], scope'[n] = scope[n],
               seen'[n] \in {seen[n], obj[n]}
        PROVE  Goal
    BY <1>f, <1>c, <1>d DEF Placed, Changed, Live
  <1>1. CASE Begins(n)
    BY <1>1, <1>c, <1>d DEF Placed, Changed, Live, Begins, Creating, WithID
  <1>2. CASE TakesFinalizer(n)
    BY <1>2, <1>c, <1>d
       DEF Placed, Changed, Live, TakesFinalizer, Creating, WithID, BeforeID, Finalized, SameSpec,
           SameStatus
  <1>3. CASE Climbs(n)
    BY <1>3, <1>c, <1>d
       DEF Placed, Changed, Live, Climbs, Rung, Creating, WithID, BeforeID, Conditioned, SameMeta,
           SameSpec, SameStatus
  <1>4. CASE TakesSecret(n)
    BY <1>4, <1>c, <1>d
       DEF Placed, Changed, Live, TakesSecret, Creating, WithID, BeforeID
  <1>5. CASE Creates(n)
    BY <1>5, <1>c, <1>d, <1>t, InstanceFields, MachineAssumptions
       DEF Placed, Changed, Live, Creates, Creating, WithID, BeforeID, SameMeta, SameStatus
  <1>6. CASE Adopts(n)
    BY <1>6, <1>c, <1>d, <1>t, InstanceFields, MachineAssumptions
       DEF Placed, Changed, Live, Adopts, ListInstances, Creating, WithID, BeforeID, SameMeta, SameStatus
  <1>7. CASE MakesDisks(n)
    <2>1. \A d \in Disks :
             /\ SameMeta(scope[n], AddDiskID(scope[n], d))
             /\ SameStatus(scope[n], AddDiskID(scope[n], d))
             /\ AddDiskID(scope[n], d).providerID = scope[n].providerID
             /\ AddDiskID(scope[n], d).conds = scope[n].conds
             /\ AddDiskID(scope[n], d).diskIDs = scope[n].diskIDs \cup {d}
      BY Zenon, <1>t, SmallUpdates
    <2>2. /\ pc[n] = "disks" /\ UNCHANGED <<obj, seen, base>>
          /\ \/ \E d \in Disks : pc'[n] = "disks" /\ scope'[n] = AddDiskID(scope[n], d)
             \/ /\ pc'[n] = "config" /\ Conditioned(scope[n], scope'[n])
                /\ scope'[n].conds = scope[n].conds \cup {"AdditionalDisksCreated"}
             \/ pc'[n] = "requeue" /\ UNCHANGED scope
      BY Zenon, <1>7 DEF MakesDisks
    <2> HIDE DEF Disks
    <2> QED
      BY <1>c, <1>d, <2>1, <2>2
         DEF Placed, Changed, Live, Creating, WithID, BeforeID, Conditioned, SameMeta,
           SameSpec, SameStatus
  <1>8. CASE Boots(n)
    BY <1>8, <1>c, <1>d
       DEF Placed, Changed, Live, Boots, Creating, WithID, BeforeID, Conditioned, SameMeta,
           SameSpec, SameStatus
  <1>9. CASE Reports(n)
    BY <1>9, <1>c, <1>d
       DEF Placed, Changed, Live, Reports, Creating, WithID, BeforeID, SameMeta, SameSpec
  <1>10. CASE Deletes(n)
    <2>1. Live(scope[n].providerID) /\ Delete(scope[n].providerID) =>
             inst'[scope[n].providerID].state \notin Status
      BY <1>t DEF Delete, Live, TypeOK, LinodeMachineObject, Instance, Status
    <2>2. /\ SameMeta(scope[n], WithoutInstance(scope[n]))
          /\ WithoutInstance(scope[n]).providerID = None
          /\ WithoutInstance(scope[n]).diskIDs = scope[n].diskIDs
          /\ WithoutInstance(scope[n]).conds = scope[n].conds \ {"Ready"}
          /\ WithoutInstance(scope[n]).addresses = scope[n].addresses
      BY Zenon, <1>t, InstanceFields
    <2> QED
      BY <1>10, <1>c, <1>d, <2>1, <2>2
         DEF Placed, Changed, Live, Deletes, Creating, WithID, BeforeID, SameMeta
  <1>11. CASE Releases(n)
    BY <1>11, <1>c, <1>d
       DEF Placed, Changed, Live, Releases, Creating, WithID, BeforeID, Finalized, SameSpec,
           SameStatus
  <1>12. CASE Closes(n)
    <2>1. /\ pc'[n] = "idle" /\ scope'[n] = Gone /\ base'[n] = Gone /\ seen'[n] = seen[n]
          /\ ~obj[n].exists => obj'[n] = obj[n]
      BY Zenon, <1>12 DEF Closes
    <2>2. \/ obj'[n] = Gone
          \/ obj'[n].exists = obj[n].exists /\ obj'[n].deleting = obj[n].deleting
      BY <1>12, <2>1, ClosedObject DEF PatchOf
    <2>3. ~obj'[n].exists => obj'[n] = Gone
      BY <2>1, <2>2, <1>c DEF Placed
    <2> QED
      BY <2>1, <2>2, <2>3, <1>c, GoneFields
         DEF Placed, Changed, Creating, WithID, BeforeID
  <1>13. ASSUME NEW m \in Machines, Elsewhere(m), Works(m) PROVE Goal
    <2>1. CASE m = n
      BY Zenon, <2>1, <1>13, <1>1, <1>2, <1>3, <1>4, <1>5, <1>6, <1>7, <1>8, <1>9, <1>10, <1>11,
         <1>12 DEF Works
    <2>2. CASE m # n
      BY Zenon, <2>2, <1>13, <1>f DEF Elsewhere
    <2> QED
      BY <2>1, <2>2
  <1>14. ASSUME NEW m \in Machines, Terminates(m) PROVE Goal
    <2>1. CASE m = n
      BY <2>1, <1>14, <1>c, <1>d, TerminatedObject, GoneFields
         DEF Placed, Changed, Live, Terminates
    <2>2. CASE m # n
      BY Zenon, <2>2, <1>14, <1>f DEF Terminates
    <2> QED
      BY <2>1, <2>2
  <1>15. CASE Crashes
    BY <1>15, <1>c, GoneFields DEF Placed, Changed, Crashes, Creating, WithID, BeforeID
  <1> QED
    BY Zenon, <1>f, <1>13, <1>14, <1>15, StepEffect DEF stateVars, Informs, LosesSecret, Moves

\* What holds of a reconcile at each of its steps, whatever faults happen: it
\* creates and updates only what is not being deleted, it changes ProviderID
\* only where it had none or its instance is gone, and it never takes a DiskID,
\* an address or a condition other than Ready from its copy.
THEOREM CourseOfReconcile == Spec => []Course
  <1>1. Init => Course
    BY GoneFields
       DEF Init, Course, Placed, Changed, Creating, WithID, BeforeID
  <1>2. TypeOK /\ ProviderIDHasLabel /\ Course /\ [Next]_vars => Course'
    BY CourseKeeps
  <1> QED
    BY <1>1, <1>2, TypeCorrect, ProviderIDCorrect, PTL DEF Spec

-----------------------------------------------------------------------------
(***************************************************************************)
(* The step, seen from one machine.                                        *)
(***************************************************************************)
Untouched(n) ==
    /\ pc'[n] = pc[n] /\ obj'[n] = obj[n] /\ seen'[n] = seen[n] /\ base'[n] = base[n]
    /\ scope'[n] = scope[n] /\ secret'[n] = secret[n] /\ faults'[n] = faults[n]

\* Every step of the specification, as machine n sees it.
LEMMA MachineEffect ==
  ASSUME TypeOK, [Next]_vars, NEW n \in Machines
  PROVE  \/ Untouched(n) \/ Works(n) \/ Informs(n) \/ Terminates(n) \/ LosesSecret(n)
         \/ Crashes
  <1>1. ASSUME NEW m \in Machines, Elsewhere(m), Works(m) PROVE Untouched(n) \/ Works(n)
    <2>1. CASE m = n
      BY Zenon, <2>1, <1>1
    <2>2. CASE m # n
      BY Zenon, <2>2, <1>1 DEF Elsewhere, Untouched
    <2> QED
      BY <2>1, <2>2
  <1>2. ASSUME NEW m \in Machines, Informs(m) \/ Terminates(m) \/ LosesSecret(m), m # n
        PROVE  Untouched(n)
    BY Zenon, <1>2 DEF Informs, Terminates, LosesSecret, Untouched
  <1> QED
    BY Zenon, <1>1, <1>2, StepEffect DEF stateVars, Untouched, Moves

\* Faults are never forgotten.
LEMMA FaultsStay ==
  ASSUME TypeOK, [Next]_vars, NEW n \in Machines
  PROVE  faults[n] \subseteq faults'[n]
  BY Zenon, MachineEffect
     DEF Untouched, Works, Informs, Terminates, LosesSecret, Crashes, Begins, TakesFinalizer,
         Climbs, TakesSecret, Creates, Adopts, MakesDisks, Boots, Reports, Deletes, Releases,
         Closes, Hit

-----------------------------------------------------------------------------
(***************************************************************************)
(* A reconcile that did not start from a stale copy works on the stored    *)
(* object: nobody else stores anything in it but the mark of deletion.     *)
(***************************************************************************)
Agrees(o, b) == SameSpec(o, b) /\ o.conds = b.conds /\ SameStatus(o, b)

InSync(m) ==
    "stale" \notin faults[m] /\ pc[m] # "idle" =>
        /\ obj[m].exists => Agrees(obj[m], base[m])
        /\ pc[m] \notin {"addFinalizer", "requeue"} => obj[m].exists /\ obj[m].finalizer
        /\ pc[m] = "addFinalizer" /\ scope[m].finalizer => obj[m].exists /\ obj[m].finalizer
        /\ base[m].finalizer => obj[m].exists /\ obj[m].finalizer

Sync == \A m \in Machines : InSync(m)

\* No step takes a reconcile that read the current object out of step with it.
LEMMA SyncKeeps ==
  ASSUME TypeOK, Sync, [Next]_vars
  PROVE  Sync'
  <1> SUFFICES ASSUME NEW n \in Machines, "stale" \notin faults'[n], pc'[n] # "idle"
               PROVE  InSync(n)'
    BY DEF Sync, InSync
  <1>i. InSync(n) /\ "stale" \notin faults[n]
    BY FaultsStay DEF Sync
  <1>1. CASE Untouched(n) \/ Informs(n) \/ LosesSecret(n)
    BY <1>1, <1>i DEF Untouched, Informs, LosesSecret, InSync, Agrees, SameSpec, SameStatus
  <1>2. CASE Begins(n)
    BY <1>2 DEF Begins, Hit, InSync, Agrees, SameSpec, SameStatus
  <1>3. CASE TakesFinalizer(n)
    BY <1>3, <1>i DEF TakesFinalizer, Finalized, InSync, Agrees, SameSpec, SameStatus
  <1>4. CASE \/ Climbs(n) \/ TakesSecret(n) \/ Creates(n) \/ Adopts(n) \/ MakesDisks(n)
             \/ Boots(n) \/ Reports(n) \/ Deletes(n) \/ Releases(n)
    <2>1. /\ UNCHANGED <<obj, base>>
          /\ pc[n] \notin {"idle", "addFinalizer", "requeue"} /\ pc'[n] # "addFinalizer"
      BY ZenonT(60), <1>4
         DEF Climbs, Rung, TakesSecret, Creates, Adopts, MakesDisks, Boots, Reports, Deletes, Releases
    <2> QED
      BY <2>1, <1>i DEF InSync, Agrees, SameSpec, SameStatus
  <1>5. CASE Terminates(n)
    <2>1. /\ UNCHANGED <<pc, base, scope, faults>>
          /\ obj[n].exists
      BY <1>5 DEF Terminates
    <2> QED
      BY <1>5, <2>1, <1>i, TerminatedObject, GoneFields
         DEF InSync, Agrees, SameSpec, SameStatus
  <1>6. pc'[n] = "idle" \/ ~(Crashes \/ Closes(n))
    BY Zenon DEF Crashes, Closes
  <1> QED
    BY Zenon, <1>1, <1>2, <1>3, <1>4, <1>5, <1>6, MachineEffect DEF Works

\* A reconcile that did not start from a stale copy patches the object it
\* read: until Close the stored object has the spec and the status of the patch
\* helper's copy, and from AddFinalizer on it has the finalizer that keeps it.
THEOREM ReconcileInSync == Spec => []Sync
  <1>1. Init => Sync
    BY DEF Init, Sync, InSync
  <1>2. TypeOK /\ Sync /\ [Next]_vars => Sync'
    BY SyncKeeps
  <1> QED
    BY <1>1, <1>2, TypeCorrect, PTL DEF Spec

-----------------------------------------------------------------------------
(***************************************************************************)
(* The instances a machine has created.                                    *)
(***************************************************************************)
\* Only a reconcile of n that is at reconcilePreflightCreate creates an instance
\* for n; the others that are there were there before.
LEMMA KnownInstances ==
  ASSUME TypeOK, [Next]_vars, NEW n \in Machines, pc[n] # "create" \/ pc'[n] = pc[n]
  PROVE  \A i \in InstanceIDs : inst'[i].state \in Status /\ inst'[i].creator = n =>
            Live(i) /\ inst[i].creator = n
  <1>0. \A i \in InstanceIDs : i # None
    BY MachineAssumptions
  <1>1. CASE \A j \in InstanceIDs : Onward(inst[j], inst'[j])
    BY Zenon, <1>0, <1>1 DEF Onward, Live
  <1>2. ASSUME NEW m \in Machines, NEW j \in InstanceIDs,
               pc[m] = "create", pc'[m] # "create", NewInstance(m, j)
        PROVE  \A i \in InstanceIDs : inst'[i].state \in Status /\ inst'[i].creator = n =>
                  Live(i) /\ inst[i].creator = n
    <2>1. m # n /\ inst'[j].creator = m /\ \A i \in InstanceIDs \ {j} : inst'[i] = inst[i]
      BY Zenon, <1>2, NewInstanceEffect
    <2> QED
      BY <2>1, <1>0 DEF Live
  <1> QED
    BY Zenon, <1>1, <1>2, InstanceEffect

\* The steps that leave the finalizer and the ProviderID of the scope alone.
LEMMA QuietSteps ==
  ASSUME TypeOK, NEW n \in Machines,
         Climbs(n) \/ TakesSecret(n) \/ MakesDisks(n) \/ Boots(n) \/ Reports(n)
  PROVE  /\ pc[n] \notin {"idle", "addFinalizer", "create", "adopt", "delete", "release",
                          "return", "requeue"}
         /\ pc'[n] \notin {"idle", "addFinalizer"}
         /\ UNCHANGED <<obj, seen, base>>
         /\ SameMeta(scope[n], scope'[n]) /\ scope'[n].providerID = scope[n].providerID
  <1>o. scope[n] \in LinodeMachineObject
    BY DEF TypeOK
  <1>u. UNCHANGED scope => SameMeta(scope[n], scope'[n]) /\ scope'[n].providerID = scope[n].providerID
    BY DEF SameMeta
  <1>d. \A d \in Disks : /\ SameMeta(scope[n], AddDiskID(scope[n], d))
                         /\ AddDiskID(scope[n], d).providerID = scope[n].providerID
    BY Zenon, <1>o, SmallUpdates
  <1> QED
    BY ZenonT(60), <1>u, <1>d
       DEF Climbs, Rung, TakesSecret, MakesDisks, Boots, Reports, Conditioned, SameSpec

\* Where the ProviderID of m is kept: in the scope during a reconcile.
Kept(m) == IF pc[m] = "idle" THEN obj[m].providerID ELSE scope[m].providerID

\* A live instance that m created is the one its ProviderID names, and an
\* object with a ProviderID has the finalizer.
TrackedFor(m) ==
    faults[m] = {} =>
        /\ \A i \in InstanceIDs : Live(i) /\ inst[i].creator = m => i = Kept(m)
        /\ obj[m].providerID # None => obj[m].finalizer
        /\ pc[m] # "idle" /\ scope[m].providerID # None =>
              scope[m].finalizer /\ obj[m].exists /\ obj[m].finalizer

Tracked == \A m \in Machines : TrackedFor(m)

\* No step loses the instance of a machine that met no fault.
LEMMA TrackedKeeps ==
  ASSUME TypeOK, Course, Sync, Tracked, [Next]_vars
  PROVE  Tracked'
  <1> SUFFICES ASSUME NEW n \in Machines, faults'[n] = {} PROVE TrackedFor(n)'
    BY DEF Tracked, TrackedFor
  <1>f. faults[n] = {}
    BY FaultsStay
  <1>t. TrackedFor(n) /\ InSync(n) /\ Placed(n) /\ Changed(n)
    BY DEF Tracked, Sync, Course
  <1>o. obj[n] \in LinodeMachineObject /\ scope[n] \in LinodeMachineObject
    BY DEF TypeOK
  <1>0. \A i \in InstanceIDs : i # None
    BY MachineAssumptions
  <1>k. ASSUME pc[n] # "create" \/ pc'[n] = pc[n]
        PROVE  \A i \in InstanceIDs : inst'[i].state \in Status /\ inst'[i].creator = n =>
                  Live(i) /\ inst[i].creator = n
    BY Zenon, <1>k, KnownInstances
  \* A step that leaves the ProviderID alone.
  <1>s. ASSUME pc[n] # "create" \/ pc'[n] = pc[n], Kept(n)' = Kept(n)
        PROVE  \A i \in InstanceIDs : Live(i)' /\ inst'[i].creator = n => i = Kept(n)'
    BY Zenon, <1>s, <1>k, <1>t, <1>f DEF Live, TrackedFor
  <1>w. \A i \in InstanceIDs : /\ WithInstance(scope[n], i).providerID = i
                               /\ WithInstance(scope[n], i).finalizer = scope[n].finalizer
    BY Zenon, <1>o, InstanceFields DEF SameMeta
  <1>1. CASE Untouched(n) \/ Informs(n) \/ LosesSecret(n)
    <2>1. pc'[n] = pc[n] /\ obj'[n] = obj[n] /\ scope'[n] = scope[n]
      BY Zenon, <1>1 DEF Untouched, Informs, LosesSecret
    <2> QED
      BY Zenon, <2>1, <1>s, <1>t, <1>f DEF TrackedFor, Kept
  <1>2. CASE Begins(n)
    <2>1. obj'[n] = obj[n] /\ scope'[n] = obj[n] /\ pc[n] = "idle" /\ pc'[n] = "addFinalizer"
          /\ obj[n].exists
      BY <1>2 DEF Begins, Hit
    <2> QED
      BY Zenon, <2>1, <1>s, <1>t, <1>f DEF TrackedFor, Kept
  <1>3. CASE TakesFinalizer(n)
    <2>1. /\ pc[n] = "addFinalizer" /\ pc'[n] \in {"credentials", "requeue"}
          /\ scope'[n].providerID = scope[n].providerID /\ scope'[n].finalizer
          /\ obj'[n].providerID = obj[n].providerID /\ obj'[n].exists = obj[n].exists
          /\ obj[n].finalizer => obj'[n].finalizer
      BY Zenon, <1>3 DEF TakesFinalizer, Finalized, SameSpec
    <2>2. Kept(n)' = Kept(n)
      BY <2>1 DEF Kept
    <2> QED
      BY Zenon, <2>1, <2>2, <1>s, <1>t, <1>f DEF TrackedFor
  <1>4. CASE Climbs(n) \/ TakesSecret(n) \/ MakesDisks(n) \/ Boots(n) \/ Reports(n)
    <2>1. /\ pc[n] \notin {"idle", "addFinalizer", "create", "adopt", "delete", "release",
                           "return", "requeue"}
          /\ pc'[n] \notin {"idle", "addFinalizer"} /\ obj'[n] = obj[n]
          /\ scope'[n].finalizer = scope[n].finalizer
          /\ scope'[n].providerID = scope[n].providerID
      BY Zenon, <1>4, QuietSteps DEF SameMeta
    <2>2. Kept(n)' = Kept(n)
      BY <2>1 DEF Kept
    <2> QED
      BY <2>1, <2>2, <1>s, <1>t, <1>f DEF TrackedFor
  <1>5. CASE Creates(n)
    <2>1. /\ pc[n] = "create" /\ pc'[n] \in {"configure", "requeue", "adopt"} /\ obj'[n] = obj[n]
          /\ \/ UNCHANGED <<scope, inst>>
             \/ /\ scope[n].providerID = None
                /\ \E i \in InstanceIDs : NewInstance(n, i) /\ scope'[n] = WithInstance(scope[n], i)
      BY <1>5, <1>f DEF Creates, Hit
    <2>2. scope[n].finalizer /\ obj[n].exists /\ obj[n].finalizer
      BY <2>1, <1>t, <1>f DEF Placed, InSync
    <2>3. CASE UNCHANGED <<scope, inst>>
      <3>1. Kept(n)' = Kept(n)
        BY <2>1, <2>3 DEF Kept
      <3>2. \A i \in InstanceIDs : Live(i)' /\ inst'[i].creator = n => i = Kept(n)'
        BY Zenon, <3>1, <2>3, <1>t, <1>f DEF Live, TrackedFor
      <3> QED
        BY <3>2, <2>1, <2>2, <2>3, <1>t, <1>f DEF TrackedFor
    <2>4. ASSUME NEW i \in InstanceIDs, scope[n].providerID = None, NewInstance(n, i),
                 scope'[n] = WithInstance(scope[n], i)
          PROVE  TrackedFor(n)'
      <3>1. scope'[n].providerID = i /\ scope'[n].finalizer = scope[n].finalizer
        BY <2>4, <1>w
      <3>2. \A j \in InstanceIDs \ {i} : inst'[j] = inst[j]
        BY Zenon, <2>4, NewInstanceEffect
      <3>3. \A j \in InstanceIDs : ~(Live(j) /\ inst[j].creator = n)
        BY <2>1, <2>4, <1>0, <1>t, <1>f DEF TrackedFor, Kept
      <3>4. \A j \in InstanceIDs : Live(j)' /\ inst'[j].creator = n => j = i
        BY Zenon, <3>2, <3>3 DEF Live
      <3> QED
        BY <3>1, <3>4, <2>1, <2>2, <1>t, <1>f DEF TrackedFor, Kept
    <2> QED
      BY Zenon, <2>1, <2>3, <2>4
  <1>6. CASE Adopts(n)
    <2>1. /\ pc[n] = "adopt" /\ pc'[n] \in {"configure", "requeue"} /\ obj'[n] = obj[n]
          /\ scope'[n] = scope[n] \/ \E i \in InstanceIDs : scope'[n] = WithInstance(scope[n], i)
          /\ UNCHANGED inst
      BY <1>6 DEF Adopts, ListInstances
    <2>2. scope[n].finalizer /\ obj[n].exists /\ obj[n].finalizer
      BY <2>1, <1>t, <1>f DEF Placed, InSync
    <2>3. scope'[n].finalizer = scope[n].finalizer
      BY <2>1, <1>w
    <2>4. scope[n].providerID = None
      BY <2>1, <1>t DEF Placed
    <2>5. \A j \in InstanceIDs : ~(Live(j)' /\ inst'[j].creator = n)
      BY <2>1, <2>4, <1>0, <1>t, <1>f DEF TrackedFor, Kept, Live
    <2> QED
      BY <2>5, <2>1, <2>2, <2>3, <1>t, <1>f DEF TrackedFor
  <1>7. CASE Deletes(n)
    <2> DEFINE i == scope[n].providerID
    <2>1. /\ pc[n] = "delete" /\ pc'[n] \in {"release", "requeue"} /\ obj'[n] = obj[n]
          /\ \/ UNCHANGED <<scope, inst>>
             \/ /\ scope'[n] = WithoutInstance(scope[n])
                /\ (Live(i) /\ Delete(i)) \/ (~Live(i) /\ UNCHANGED inst)
      BY <1>7, <1>f DEF Deletes, Hit
    <2>2. scope[n].finalizer /\ obj[n].exists /\ obj[n].finalizer
      BY <2>1, <1>t, <1>f DEF Placed, InSync
    <2>3. CASE UNCHANGED <<scope, inst>>
      <3>1. Kept(n)' = Kept(n)
        BY <2>1, <2>3 DEF Kept
      <3> QED
        BY <3>1, <2>1, <2>2, <2>3, <1>s, <1>t, <1>f DEF TrackedFor
    <2>4. ASSUME scope'[n] = WithoutInstance(scope[n]),
                 (Live(i) /\ Delete(i)) \/ (~Live(i) /\ UNCHANGED inst)
          PROVE  TrackedFor(n)'
      <3>1. scope'[n].providerID = None
        BY Zenon, <2>4, <1>o, InstanceFields
      <3>2. Live(i) => inst'[i].state \notin Status
        BY <2>4, <1>o DEF Delete, Live, TypeOK, LinodeMachineObject, Instance, Status
      <3>3. \A j \in InstanceIDs : Live(j) /\ inst[j].creator = n => j = i
        BY <2>1, <1>t, <1>f DEF TrackedFor, Kept
      <3>4. \A j \in InstanceIDs : ~(Live(j)' /\ inst'[j].creator = n)
        BY <3>2, <3>3, <2>1, <1>k DEF Live
      <3> QED
        BY <3>1, <3>4, <2>1, <2>2 DEF TrackedFor
    <2> QED
      BY Zenon, <2>1, <2>3, <2>4
  <1>8. CASE Releases(n)
    <2>1. /\ pc[n] = "release" /\ pc'[n] \in {"return", "requeue"} /\ obj'[n] = obj[n]
          /\ scope'[n].providerID = scope[n].providerID
      BY Zenon, <1>8 DEF Releases, Finalized, SameSpec
    <2>2. scope[n].providerID = None /\ obj[n].finalizer
      BY <2>1, <1>t, <1>f DEF Placed, InSync
    <2>3. Kept(n)' = Kept(n)
      BY <2>1 DEF Kept
    <2> QED
      BY <2>1, <2>2, <2>3, <1>s DEF TrackedFor
  <1>9. CASE Closes(n)
    <2>1. pc[n] \in {"return", "requeue"} /\ pc'[n] = "idle"
      BY Zenon, <1>9 DEF Closes
    <2>2. CASE ~obj[n].exists
      <3>1. obj'[n] = obj[n] /\ obj[n] = Gone
        BY <2>2, <1>9, <1>t DEF Closes, Placed
      <3>2. scope[n].providerID = None /\ obj[n].providerID = None
        BY <3>1, <2>1, <2>2, <1>t, <1>f, GoneFields DEF TrackedFor
      <3>3. Kept(n)' = Kept(n)
        BY <3>1, <3>2, <2>1 DEF Kept
      <3> QED
        BY <3>1, <3>2, <3>3, <2>1, <1>s DEF TrackedFor
    <2>3. CASE obj[n].exists
      <3>1. PICK t : /\ PatchOf(t, obj[n], base[n], scope[n], PatchParts)
                     /\ obj'[n] = IF t.deleting /\ ~t.finalizer THEN Gone ELSE t
        BY <1>9, <2>3, <1>f, ClosedObject DEF Hit
      <3>2. obj[n].providerID = base[n].providerID
        BY <2>1, <2>3, <1>t, <1>f DEF InSync, Agrees, SameSpec
      <3>3. t.providerID = scope[n].providerID
        BY <3>1, <3>2 DEF PatchOf, Merged, PatchParts
      <3>4. scope[n].providerID # None => t.finalizer
        BY <3>1, <2>1, <1>t, <1>f DEF PatchOf, Merged, PatchParts, TrackedFor
      <3>5. obj'[n].providerID = scope[n].providerID
        BY <3>1, <3>3, <3>4, GoneFields
      <3>6. scope[n].providerID # None => obj'[n].finalizer
        BY <3>1, <3>4
      <3>7. Kept(n)' = Kept(n)
        BY <3>5, <2>1 DEF Kept
      <3> QED
        BY <3>5, <3>6, <3>7, <2>1, <1>s DEF TrackedFor
    <2> QED
      BY <2>2, <2>3
  <1>10. CASE Terminates(n)
    <2>1. pc'[n] = pc[n] /\ scope'[n] = scope[n]
      BY <1>10 DEF Terminates
    <2>2. \/ obj'[n] = Gone /\ ~obj[n].finalizer
          \/ obj'[n].exists /\ obj'[n].finalizer /\ obj'[n].providerID = obj[n].providerID
      BY Zenon, <1>10, TerminatedObject DEF SameSpec
    <2>3. ~obj[n].finalizer => obj[n].providerID = None
      BY <1>t, <1>f DEF TrackedFor
    <2>4. obj'[n].providerID = obj[n].providerID
      BY <2>2, <2>3, GoneFields
    <2>5. Kept(n)' = Kept(n)
      BY <2>1, <2>4 DEF Kept
    <2> QED
      BY <2>1, <2>2, <2>4, <2>5, <1>s, <1>t, <1>f, GoneFields DEF TrackedFor
  <1>11. CASE Crashes
    <2>1. pc[n] = "idle" /\ pc'[n] = "idle" /\ obj'[n] = obj[n]
      BY <1>11 DEF Crashes, Hit
    <2>2. Kept(n)' = Kept(n)
      BY <2>1 DEF Kept
    <2> QED
      BY <2>1, <2>2, <1>s, <1>t, <1>f DEF TrackedFor
  <1> QED
    BY Zenon, <1>1, <1>2, <1>3, <1>4, <1>5, <1>6, <1>7, <1>8, <1>9, <1>10, <1>11, MachineEffect
       DEF Works

\* A machine that goes away leaves no instance it created behind, unless a
\* fault hit it: until reconcileDelete has deleted the instance, its id is in
\* the stored object or in the scope of the reconcile that will store it, and
\* the finalizer keeps the object.
THEOREM NoInstanceOrphaned == Spec => []NoOrphan
  <1>1. Init => Tracked
    BY GoneFields, MachineAssumptions
       DEF Init, Tracked, TrackedFor, Unused, Live, Status
  <1>2. TypeOK /\ Course /\ Sync /\ Tracked /\ [Next]_vars => Tracked'
    BY TrackedKeeps
  <1>3. Course /\ Tracked => NoOrphan
    <2> SUFFICES ASSUME Course, Tracked, NEW m \in Machines, ~obj[m].exists, faults[m] = {},
                        NEW i \in InstanceIDs, Live(i), inst[i].creator = m
                 PROVE  FALSE
      BY DEF NoOrphan
    <2>1. obj[m] = Gone /\ TrackedFor(m)
      BY DEF Course, Placed, Tracked
    <2> QED
      BY <2>1, GoneFields, MachineAssumptions DEF TrackedFor, Kept
  <1> QED
    BY <1>1, <1>2, <1>3, TypeCorrect, CourseOfReconcile, ReconcileInSync, PTL DEF Spec

-----------------------------------------------------------------------------
(***************************************************************************)
(* The disks of an instance.                                               *)
(***************************************************************************)
\* An instance whose record changes was created, or was live and changed by a
\* reconcile that had its id, or by someone else.
LEMMA WhoTouches ==
  ASSUME TypeOK, [Next]_vars, NEW i \in InstanceIDs, inst'[i] # inst[i]
  PROVE  \/ Moves(i)
         \/ \E m \in Machines : Elsewhere(m) /\ Creates(m) /\ NewInstance(m, i)
         \/ \E m \in Machines : /\ Elsewhere(m) /\ (MakesDisks(m) \/ Boots(m) \/ Deletes(m))
                                /\ i = scope[m].providerID /\ Live(i)
  <1> DEFINE Goal == \/ Moves(i)
                     \/ \E m \in Machines : Elsewhere(m) /\ Creates(m) /\ NewInstance(m, i)
                     \/ \E m \in Machines :
                           /\ Elsewhere(m) /\ (MakesDisks(m) \/ Boots(m) \/ Deletes(m))
                           /\ i = scope[m].providerID /\ Live(i)
  <1>1. ASSUME NEW m \in Machines, Elsewhere(m), Creates(m) PROVE Goal
    <2>1. PICK j \in InstanceIDs : NewInstance(m, j)
      BY Zenon, <1>1 DEF Creates
    <2>2. j = i
      BY Zenon, <2>1 DEF NewInstance, TypeOK
    <2> QED
      BY Zenon, <1>1, <2>1, <2>2
  <1>2. ASSUME NEW m \in Machines, Elsewhere(m), MakesDisks(m) \/ Boots(m) \/ Deletes(m)
        PROVE  Goal
    <2>1. Live(scope[m].providerID) /\ \E x : inst' = [inst EXCEPT ![scope[m].providerID] = x]
      BY Zenon, <1>2 DEF MakesDisks, Boots, Boot, Deletes, Delete
    <2>2. scope[m].providerID = i
      BY <2>1 DEF TypeOK
    <2> QED
      BY Zenon, <1>2, <2>1, <2>2
  <1>3. ASSUME NEW j \in InstanceIDs, Moves(j) PROVE Goal
    <2>1. j = i
      BY <1>3 DEF Moves, TypeOK
    <2> QED
      BY Zenon, <1>3, <2>1
  <1> QED
    BY Zenon, <1>1, <1>2, <1>3, StepEffect
       DEF stateVars, Informs, Terminates, LosesSecret, Crashes, Works, Begins, TakesFinalizer,
           Climbs, TakesSecret, Adopts, Reports, Releases, Closes

\* The disks of an instance are changed by createDisks only.
LEMMA WhoMakesDisks ==
  ASSUME TypeOK, [Next]_vars, NEW i \in InstanceIDs, ~SameDisks(inst[i], inst'[i])
  PROVE  \E m \in Machines : /\ Elsewhere(m) /\ MakesDisks(m)
                             /\ i = scope[m].providerID /\ Live(i)
  <1>0. inst'[i] # inst[i]
    BY DEF SameDisks
  <1>1. ASSUME Moves(i) PROVE FALSE
    <2>1. Live(i) /\ \E s \in Status \cup {"deleted"} : inst' = [inst EXCEPT ![i].state = s]
      BY Zenon, <1>1 DEF Moves, Status
    <2> QED
      BY Zenon, <2>1, StateEffect
  <1>2. ASSUME NEW m \in Machines, NewInstance(m, i) PROVE FALSE
    BY Zenon, <1>2, NewInstanceEffect
  <1>3. ASSUME NEW m \in Machines, Boots(m) \/ Deletes(m), i = scope[m].providerID, Live(i)
        PROVE  FALSE
    <2>1. \E s : inst' = [inst EXCEPT ![i].state = s]
      BY Zenon, <1>3, <1>0 DEF Boots, Boot, Deletes, Delete
    <2> QED
      BY <2>1 DEF TypeOK, Instance, SameDisks
  <1> QED
    BY Zenon, <1>0, <1>1, <1>2, <1>3, WhoTouches

\* An id that is not used has no disks, and an instance carries the label of
\* its creator.
Creators ==
    \A i \in InstanceIDs :
        /\ inst[i].state = "unused" => inst[i] = Unused
        /\ inst[i].state # "unused" =>
              inst[i].creator \in Machines /\ inst[i].label = LabelOf[inst[i].creator]

\* No step gives an instance another creator, or a label its creator does not use.
LEMMA CreatorsKeep ==
  ASSUME TypeOK, Creators, [Next]_vars
  PROVE  Creators'
  <1>1. CASE \A j \in InstanceIDs : Onward(inst[j], inst'[j])
    BY Zenon, <1>1 DEF Creators, Onward, Unused
  <1>2. ASSUME NEW m \in Machines, NEW j \in InstanceIDs, NewInstance(m, j) PROVE Creators'
    <2>1. /\ inst'[j].creator = m /\ inst'[j].label = LabelOf[m] /\ inst'[j].state # "unused"
          /\ \A i \in InstanceIDs \ {j} : inst'[i] = inst[i]
      BY Zenon, <1>2, NewInstanceEffect
    <2> SUFFICES ASSUME NEW i \in InstanceIDs
                 PROVE  /\ inst'[i].state = "unused" => inst'[i] = Unused
                        /\ inst'[i].state # "unused" =>
                              /\ inst'[i].creator \in Machines
                              /\ inst'[i].label = LabelOf[inst'[i].creator]
      BY Zenon DEF Creators, Unused
    <2>2. CASE i = j
      BY <2>1, <2>2
    <2>3. CASE i # j
      BY <2>1, <2>3 DEF Creators
    <2> QED
      BY <2>2, <2>3
  <1> QED
    BY Zenon, <1>1, <1>2, InstanceEffect

\* Every instance bears the label of the machine whose reconcile created it.
LEMMA CreatorsCorrect == Spec => []Creators
  <1>1. Init => Creators
    BY DEF Init, Creators, Unused
  <1>2. TypeOK /\ Creators /\ [Next]_vars => Creators'
    BY CreatorsKeep
  <1> QED
    BY <1>1, <1>2, TypeCorrect, PTL DEF Spec

\* The instance a ProviderID names was created by the machine itself when no
\* other machine has its label.
LEMMA OwnInstance ==
  ASSUME ProviderIDHasLabel, Creators, NEW m \in Machines, NEW n \in Machines,
         NEW o \in {obj[n], seen[n], base[n], scope[n]}, o.providerID \in InstanceIDs,
         inst[o.providerID].creator = m, UniqueLabel(m)
  PROVE  n = m
  <1>0. o.providerID # None
    BY MachineAssumptions
  <1>1. inst[o.providerID].state # "unused" /\ inst[o.providerID].label = LabelOf[n]
    BY Zenon, <1>0 DEF ProviderIDHasLabel
  <1>2. inst[o.providerID].label = LabelOf[m]
    BY Zenon, <1>1 DEF Creators
  <1> QED
    BY Zenon, <1>1, <1>2 DEF UniqueLabel

\* The DiskIDs of m, where they are kept.
KeptDisks(m) == IF pc[m] = "idle" THEN obj[m].diskIDs ELSE scope[m].diskIDs

\* An instance that m created has at most one disk for each device, and the
\* DiskID of each disk of a live one is kept.
CountedFor(m) ==
    faults[m] = {} /\ UniqueLabel(m) =>
        \A i \in InstanceIDs : inst[i].creator = m =>
            \A d \in Disks : /\ inst[i].disks[d] \in {0, 1}
                             /\ inst[i].disks[d] = 1 /\ Live(i) => d \in KeptDisks(m)

Counted == \A m \in Machines : CountedFor(m)

\* No step forgets a DiskID of a machine that stays.
LEMMA DiskIDsStay ==
  ASSUME TypeOK, Course, Sync, [Next]_vars, NEW n \in Machines, faults'[n] = {},
         obj'[n].exists \/ pc'[n] # "idle"
  PROVE  KeptDisks(n) \subseteq KeptDisks(n)'
  <1>f. faults[n] = {}
    BY FaultsStay
  <1>t. InSync(n) /\ Placed(n) /\ Changed(n)
    BY DEF Sync, Course
  <1>o. obj[n] \in LinodeMachineObject /\ scope[n] \in LinodeMachineObject
    BY DEF TypeOK
  <1>1. CASE Untouched(n) \/ Informs(n) \/ LosesSecret(n)
    BY Zenon, <1>1 DEF Untouched, Informs, LosesSecret, KeptDisks
  <1>2. CASE Begins(n)
    BY <1>2, <1>f DEF Begins, Hit, KeptDisks
  <1>3. CASE TakesFinalizer(n)
    BY <1>3 DEF TakesFinalizer, Finalized, SameSpec, KeptDisks
  <1>4. CASE Climbs(n) \/ TakesSecret(n) \/ Boots(n) \/ Reports(n) \/ Releases(n)
    <2>1. pc[n] # "idle" /\ pc'[n] # "idle" /\ scope'[n].diskIDs = scope[n].diskIDs
      BY ZenonT(60), <1>4
         DEF Climbs, Rung, TakesSecret, Boots, Reports, Releases, Conditioned, Finalized, SameSpec
    <2> QED
      BY <2>1 DEF KeptDisks
  <1>5. CASE Creates(n) \/ Adopts(n)
    <2>1. /\ pc[n] # "idle" /\ pc'[n] # "idle"
          /\ scope'[n] = scope[n] \/ \E i \in InstanceIDs : scope'[n] = WithInstance(scope[n], i)
      BY <1>5 DEF Creates, Adopts, ListInstances
    <2>2. \A i \in InstanceIDs : WithInstance(scope[n], i).diskIDs = scope[n].diskIDs
      BY Zenon, <1>o, InstanceFields
    <2> QED
      BY <2>1, <2>2 DEF KeptDisks
  <1>6. CASE MakesDisks(n)
    <2>1. /\ pc[n] # "idle" /\ pc'[n] # "idle"
          /\ scope'[n].diskIDs = scope[n].diskIDs
             \/ \E d \in Disks : scope'[n] = AddDiskID(scope[n], d)
      BY Zenon, <1>6 DEF MakesDisks, Conditioned, SameSpec
    <2>2. \A d \in Disks : AddDiskID(scope[n], d).diskIDs = scope[n].diskIDs \cup {d}
      BY Zenon, <1>o, SmallUpdates
    <2> QED
      BY <2>1, <2>2 DEF KeptDisks
  <1>7. CASE Deletes(n)
    <2>1. /\ pc[n] # "idle" /\ pc'[n] # "idle"
          /\ scope'[n] = scope[n] \/ scope'[n] = WithoutInstance(scope[n])
      BY <1>7 DEF Deletes
    <2>2. WithoutInstance(scope[n]).diskIDs = scope[n].diskIDs
      BY Zenon, <1>o, InstanceFields
    <2> QED
      BY <2>1, <2>2 DEF KeptDisks
  <1>8. CASE Closes(n)
    <2>1. pc[n] \in {"return", "requeue"} /\ pc'[n] = "idle" /\ obj'[n].exists
      BY Zenon, <1>8 DEF Closes
    <2>2. obj[n].exists
      BY <1>8, <2>1 DEF Closes
    <2>3. PICK t : /\ PatchOf(t, obj[n], base[n], scope[n], PatchParts)
                   /\ obj'[n] = IF t.deleting /\ ~t.finalizer THEN Gone ELSE t
      BY <1>8, <2>2, <1>f, ClosedObject DEF Hit
    <2>4. obj'[n] = t
      BY <2>1, <2>3, GoneFields
    <2>5. obj[n].diskIDs = base[n].diskIDs /\ base[n].diskIDs \subseteq scope[n].diskIDs
      BY <2>1, <2>2, <1>t, <1>f DEF InSync, Agrees, SameSpec, Changed
    <2>6. t.diskIDs = scope[n].diskIDs
      BY <2>3, <2>5 DEF PatchOf, MergedSet, PatchParts
    <2> QED
      BY <2>1, <2>4, <2>6 DEF KeptDisks
  <1>9. CASE Terminates(n)
    BY <1>9, TerminatedObject, GoneFields DEF Terminates, KeptDisks, SameSpec
  <1>10. CASE Crashes
    BY <1>10 DEF Crashes, Hit, KeptDisks
  <1> QED
    BY Zenon, <1>1, <1>2, <1>3, <1>4, <1>5, <1>6, <1>7, <1>8, <1>9, <1>10, MachineEffect DEF Works

\* No step makes a disk that a machine without faults already has.
LEMMA CountedKeeps ==
  ASSUME TypeOK, ProviderIDHasLabel, Course, Sync, Creators, Counted, NoOrphan', [Next]_vars
  PROVE  Counted'
  <1> SUFFICES ASSUME NEW n \in Machines, faults'[n] = {}, UniqueLabel(n),
                      NEW i \in InstanceIDs, inst'[i].creator = n, NEW d \in Disks
               PROVE  /\ inst'[i].disks[d] \in {0, 1}
                      /\ inst'[i].disks[d] = 1 /\ Live(i)' => d \in KeptDisks(n)'
    BY Zenon DEF Counted, CountedFor, UniqueLabel
  <1>f. faults[n] = {}
    BY FaultsStay
  <1>c. inst[i].creator = n => /\ inst[i].disks[d] \in {0, 1}
                               /\ inst[i].disks[d] = 1 /\ Live(i) => d \in KeptDisks(n)
    BY Zenon, <1>f DEF Counted, CountedFor
  <1>k. Live(i)' => obj'[n].exists
    BY Zenon DEF NoOrphan
  <1>1. ASSUME SameDisks(inst[i], inst'[i])
        PROVE  /\ inst'[i].disks[d] \in {0, 1}
               /\ inst'[i].disks[d] = 1 /\ Live(i)' => d \in KeptDisks(n)'
    <2>1. ASSUME Onward(inst[i], inst'[i])
          PROVE  /\ inst'[i].disks[d] \in {0, 1}
                 /\ inst'[i].disks[d] = 1 /\ Live(i)' => d \in KeptDisks(n)'
      <3>1. inst[i].creator = n /\ (Live(i)' => Live(i)) /\ inst'[i].disks[d] = inst[i].disks[d]
        BY Zenon, <1>1, <2>1 DEF Onward, SameDisks, Live
      <3>2. Live(i)' => KeptDisks(n) \subseteq KeptDisks(n)'
        BY Zenon, <1>k, DiskIDsStay
      <3> QED
        BY <3>1, <3>2, <1>c
    <2>2. ASSUME NEW m \in Machines, NEW j \in InstanceIDs, NewInstance(m, j)
          PROVE  Onward(inst[i], inst'[i]) \/ inst[i].state = "unused"
      BY Zenon, <2>2, NewInstanceEffect DEF Onward
    <2>3. ASSUME inst[i].state = "unused" PROVE inst'[i].disks[d] = 0
      <3>1. inst[i] = Unused
        BY Zenon, <2>3 DEF Creators
      <3> HIDE DEF Disks
      <3> QED
        BY <3>1, <1>1 DEF Unused, SameDisks
    <2> QED
      BY <2>1, <2>2, <2>3, InstanceEffect
  <1>2. ASSUME NEW m \in Machines, MakesDisks(m), Elsewhere(m), i = scope[m].providerID, Live(i)
        PROVE  /\ inst'[i].disks[d] \in {0, 1}
               /\ inst'[i].disks[d] = 1 /\ Live(i)' => d \in KeptDisks(n)'
    <2>o. scope[n] \in LinodeMachineObject
      BY DEF TypeOK
    <2>h. m = n => ~Hit(m, "lostReply")
      BY DEF Hit
    <2>1. \/ \E e \in Disks : /\ inst' = [inst EXCEPT ![i].disks[e] = @ + 1]
                              /\ e \notin scope[m].diskIDs
                              /\ m = n => pc'[n] = "disks" /\ scope'[n] = AddDiskID(scope[n], e)
          \/ inst' = [inst EXCEPT ![i].profile = TRUE]
          \/ UNCHANGED inst
      BY Zenon, <2>h, <1>2 DEF MakesDisks
    <2>3. ASSUME NEW e \in Disks, inst' = [inst EXCEPT ![i].disks[e] = @ + 1],
                 e \notin scope[m].diskIDs,
                 m = n => pc'[n] = "disks" /\ scope'[n] = AddDiskID(scope[n], e)
          PROVE  /\ inst'[i].disks[d] \in {0, 1}
                 /\ inst'[i].disks[d] = 1 /\ Live(i)' => d \in KeptDisks(n)'
      <3>1. /\ Onward(inst[i], inst'[i]) /\ inst'[i].disks[e] = inst[i].disks[e] + 1
            /\ \A x \in Disks \ {e} : inst'[i].disks[x] = inst[i].disks[x]
        BY Zenon, <2>3, <1>2, DiskEffect
      <3>2. inst[i].creator = n
        BY Zenon, <3>1 DEF Onward
      <3>3. m = n
        BY Zenon, <3>2, <1>2, OwnInstance
      <3>4. scope'[n].diskIDs = scope[n].diskIDs \cup {e} /\ pc'[n] = "disks"
        BY <3>3, <2>3, <2>o, SmallUpdates
      <3>5. KeptDisks(n)' = scope[n].diskIDs \cup {e} /\ KeptDisks(n) = scope[n].diskIDs
        BY <3>3, <3>4, <1>2 DEF KeptDisks, MakesDisks
      <3>6. CASE d = e
        BY <3>6, <3>1, <3>2, <3>3, <3>5, <1>2, <1>c, <2>3
      <3>7. CASE d # e
        BY <3>7, <3>1, <3>2, <3>5, <1>2, <1>c
      <3> QED
        BY <3>6, <3>7
    <2>4. ASSUME inst' = [inst EXCEPT ![i].profile = TRUE] \/ UNCHANGED inst
          PROVE  inst'[i].disks = inst[i].disks /\ Onward(inst[i], inst'[i])
      BY Zenon, <2>4, <1>2, ProfileEffect DEF Onward
    <2>5. ASSUME inst' = [inst EXCEPT ![i].profile = TRUE] \/ UNCHANGED inst
          PROVE  /\ inst'[i].disks[d] \in {0, 1}
                 /\ inst'[i].disks[d] = 1 /\ Live(i)' => d \in KeptDisks(n)'
      <3>1. inst[i].creator = n /\ inst'[i].disks[d] = inst[i].disks[d]
        BY Zenon, <2>5, <2>4 DEF Onward
      <3>2. Live(i)' => KeptDisks(n) \subseteq KeptDisks(n)'
        BY Zenon, <1>k, DiskIDsStay
      <3> QED
        BY <3>1, <3>2, <1>c, <1>2
    <2> QED
      BY Zenon, <2>1, <2>3, <2>5
  <1> QED
    BY Zenon, <1>1, <1>2, WhoMakesDisks

\* configureDisk creates each data disk of an instance once, however many
\* reconciles fail on the way, unless a fault hit the machine or another
\* machine asks for the same label: the DiskID of each disk that was created is
\* in the scope or in the stored object, and Close never takes one back.
THEOREM DisksCreatedOnce == Spec => []OneDiskPerDevice
  <1>1. Init => Counted
    BY DEF Init, Counted, CountedFor, Unused
  <1>2. /\ TypeOK /\ ProviderIDHasLabel /\ Course /\ Sync /\ Creators /\ Counted /\ NoOrphan'
        /\ [Next]_vars
        => Counted'
    BY CountedKeeps
  <1>3. TypeOK /\ Creators /\ Counted => OneDiskPerDevice
    <2> SUFFICES ASSUME TypeOK, Creators, Counted, NEW i \in InstanceIDs, NEW d \in Disks,
                        inst[i].disks[d] > 1, UniqueLabel(inst[i].creator)
                 PROVE  faults[inst[i].creator] # {}
      BY Zenon DEF OneDiskPerDevice
    <2>1. inst[i].state # "unused"
      <3> SUFFICES ASSUME inst[i] = Unused PROVE FALSE
        BY Zenon DEF Creators
      <3> HIDE DEF Disks
      <3> QED
        BY DEF Unused
    <2>2. CountedFor(inst[i].creator)
      BY Zenon, <2>1 DEF Creators, Counted
    <2> QED
      BY <2>2 DEF CountedFor
  <1> QED
    BY <1>1, <1>2, <1>3, TypeCorrect, ProviderIDCorrect, CourseOfReconcile, ReconcileInSync,
       CreatorsCorrect, NoInstanceOrphaned, PTL DEF Spec

-----------------------------------------------------------------------------
(***************************************************************************)
(* The credentials Secret.                                                 *)
(***************************************************************************)
HeldFor(m) ==
    m \in UsesCreds /\ "stale" \notin faults[m] =>
        /\ Live(obj[m].providerID) => Secured(m)
        /\ Live(scope[m].providerID) => Secured(m)
        /\ pc[m] \in Creating \ {"addCredentialsFinalizer"} => Secured(m)
        /\ pc[m] = "release" => ~Live(obj[m].providerID)

Held == \A m \in Machines : HeldFor(m)

\* No step leaves a machine with an instance and without its credentials' finalizer.
LEMMA HeldKeeps ==
  ASSUME TypeOK, ProviderIDHasLabel, Course, Sync, Held, [Next]_vars
  PROVE  Held'
  <1> SUFFICES ASSUME NEW n \in Machines, n \in UsesCreds, "stale" \notin faults'[n]
               PROVE  HeldFor(n)'
    BY DEF Held, HeldFor
  <1>f. "stale" \notin faults[n]
    BY FaultsStay
  <1>h. HeldFor(n) /\ InSync(n) /\ Placed(n) /\ Changed(n)
    BY DEF Held, Sync, Course
  <1>o. obj[n] \in LinodeMachineObject /\ scope[n] \in LinodeMachineObject
    BY DEF TypeOK
  <1>a. obj[n].providerID # None /\ inst'[obj[n].providerID].state \in Status =>
           Live(obj[n].providerID)
    BY Zenon, NotBack
  <1>b. scope[n].providerID # None /\ inst'[scope[n].providerID].state \in Status =>
           Live(scope[n].providerID)
    BY Zenon, NotBack
  \* A step that keeps the ProviderIDs and the Secret.
  <1>s. ASSUME obj'[n].providerID \in {None, obj[n].providerID, scope[n].providerID},
               scope'[n].providerID \in {None, obj[n].providerID, scope[n].providerID},
               Secured(n) => Secured(n)',
               pc'[n] \in Creating \ {"addCredentialsFinalizer"} =>
                  pc[n] \in Creating \ {"addCredentialsFinalizer"},
               pc'[n] = "release" => pc[n] = "release" /\ obj'[n].providerID \in {None, obj[n].providerID}
        PROVE  HeldFor(n)'
    <2>1. Live(obj[n].providerID)' => Secured(n)'
      BY <1>s, <1>a, <1>b, <1>h, <1>f DEF HeldFor, Live
    <2>2. Live(scope[n].providerID)' => Secured(n)'
      BY <1>s, <1>a, <1>b, <1>h, <1>f DEF HeldFor, Live
    <2>3. pc'[n] \in Creating \ {"addCredentialsFinalizer"} => Secured(n)'
      BY Zenon, <1>s, <1>h, <1>f DEF HeldFor
    <2>4. pc'[n] = "release" => ~Live(obj[n].providerID)'
      BY <1>s, <1>a, <1>h, <1>f DEF HeldFor, Live
    <2> QED
      BY Zenon, <2>1, <2>2, <2>3, <2>4 DEF HeldFor, Creating
  <1>1. CASE Untouched(n) \/ Informs(n)
    BY <1>1, <1>s DEF Untouched, Informs, Secured
  <1>2. CASE LosesSecret(n)
    BY <1>2, <1>s DEF LosesSecret, Secured
  <1>3. CASE Begins(n)
    BY <1>3, <1>s DEF Begins, Hit, Secured, Creating
  <1>4. CASE TakesFinalizer(n)
    BY <1>4, <1>s DEF TakesFinalizer, Finalized, SameSpec, Secured, Creating
  <1>5. CASE TakesSecret(n)
    <2>1. CASE pc'[n] = "firewall"
      BY <1>5, <2>1 DEF TakesSecret, HeldFor
    <2>2. CASE pc'[n] = "requeue" /\ UNCHANGED secret
      BY <1>5, <2>2, <1>s DEF TakesSecret, Secured, Creating
    <2> QED
      BY Zenon, <1>5, <2>1, <2>2 DEF TakesSecret
  <1>6. CASE Creates(n) \/ Adopts(n) \/ MakesDisks(n) \/ Boots(n)
    <2>1. /\ pc[n] \in Creating \ {"addCredentialsFinalizer"} /\ UNCHANGED secret
          /\ pc'[n] # "release"
      BY Zenon, <1>6 DEF Creates, Adopts, MakesDisks, Boots, Creating
    <2>2. Secured(n)'
      BY Zenon, <2>1, <1>h, <1>f DEF HeldFor, Secured
    <2> QED
      BY Zenon, <2>1, <2>2 DEF HeldFor
  <1>7. CASE Climbs(n) \/ Reports(n)
    <2>1. /\ UNCHANGED <<obj, secret>> /\ scope'[n].providerID = scope[n].providerID
          /\ pc'[n] # "release"
      BY ZenonT(60), <1>7 DEF Climbs, Rung, Reports, Conditioned, SameSpec
    <2>2. pc'[n] \in Creating \ {"addCredentialsFinalizer"} =>
                  pc[n] \in Creating \ {"addCredentialsFinalizer"}
      BY <1>7 DEF Climbs, Rung, Reports, Creating
    <2> QED
      BY <2>1, <2>2, <1>s DEF Secured
  <1>8. CASE Deletes(n)
    <2>0. pc[n] = "delete"
      BY <1>8 DEF Deletes
    <2>1. scope[n].providerID = obj[n].providerID
      BY <2>0, <1>h, <1>f DEF Changed, BeforeID, InSync, Agrees, SameSpec
    <2>2. /\ UNCHANGED <<obj, secret>>
          /\ scope'[n] = scope[n] \/ scope'[n] = WithoutInstance(scope[n])
          /\ pc'[n] \in {"release", "requeue"}
      BY <1>8 DEF Deletes
    <2>3. WithoutInstance(scope[n]).providerID = None
      BY Zenon, <1>o, InstanceFields
    <2>4. CASE pc'[n] = "requeue"
      BY <2>2, <2>3, <2>4, <1>s DEF Secured, Creating
    <2>5. CASE pc'[n] = "release"
      <3>1. Live(scope[n].providerID) /\ Delete(scope[n].providerID) =>
               inst'[scope[n].providerID].state \notin Status
        BY <1>o DEF Delete, Live, TypeOK, LinodeMachineObject, Instance, Status
      <3>2. ~Live(obj[n].providerID)'
        BY <3>1, <2>0, <2>1, <2>2, <2>5, <1>8 DEF Deletes, Live
      <3>3. ~Live(scope[n].providerID)'
        BY <3>2, <2>1, <2>2, <2>3 DEF Live
      <3> QED
        BY <3>2, <3>3, <2>5 DEF HeldFor, Creating
    <2> QED
      BY <2>2, <2>4, <2>5
  <1>9. CASE Releases(n)
    <2>1. /\ pc[n] = "release" /\ UNCHANGED obj /\ scope'[n].providerID = scope[n].providerID
          /\ pc'[n] \in {"return", "requeue"}
      BY Zenon, <1>9 DEF Releases, Finalized, SameSpec
    <2>2. scope[n].providerID = None /\ ~Live(obj[n].providerID)
      BY <2>1, <1>h, <1>f DEF Placed, HeldFor
    <2>3. ~Live(obj[n].providerID)' /\ ~Live(scope[n].providerID)'
      BY <2>1, <2>2, <1>a DEF Live
    <2> QED
      BY <2>1, <2>3 DEF HeldFor, Creating
  <1>10. CASE Closes(n)
    <2>1. pc'[n] = "idle" /\ scope'[n] = Gone /\ UNCHANGED secret
      BY Zenon, <1>10 DEF Closes
    <2>2. obj'[n].providerID \in {None, obj[n].providerID, scope[n].providerID}
      <3>1. CASE ~obj[n].exists
        BY <3>1, <1>10 DEF Closes
      <3>2. CASE obj[n].exists
        BY <3>2, <1>10, ClosedObject, GoneFields DEF PatchOf, Merged
      <3> QED
        BY <3>1, <3>2
    <2> QED
      BY <2>1, <2>2, <1>s, GoneFields DEF Secured, Creating
  <1>11. CASE Terminates(n)
    <2>1. obj'[n].providerID \in {None, obj[n].providerID}
      BY <1>11, TerminatedObject, GoneFields DEF SameSpec
    <2> QED
      BY <2>1, <1>11, <1>s DEF Terminates, Secured
  <1>12. CASE Crashes
    BY <1>12, <1>s, GoneFields DEF Crashes, Secured, Creating
  <1> QED
    BY Zenon, <1>1, <1>2, <1>3, <1>4, <1>5, <1>6, <1>7, <1>8, <1>9, <1>10, <1>11, <1>12,
       MachineEffect DEF Works

\* As long as a stored ProviderID names a live instance, the credentials that
\* deleting it takes are there and held, unless a reconcile worked from a stale
\* copy: the Secret is taken before reconcilePreflightCreate and released only
\* when reconcileDelete has seen the instance gone.
THEOREM CredentialsKept == Spec => []CredentialsHeld
  <1>1. Init => Held
    BY GoneFields DEF Init, Held, HeldFor, Live, Creating
  <1>2. TypeOK /\ ProviderIDHasLabel /\ Course /\ Sync /\ Held /\ [Next]_vars => Held'
    BY HeldKeeps
  <1>3. Held => CredentialsHeld
    BY MachineAssumptions DEF Held, HeldFor, CredentialsHeld, Secured
  <1> QED
    BY <1>1, <1>2, <1>3, TypeCorrect, ProviderIDCorrect, CourseOfReconcile, ReconcileInSync, PTL
       DEF Spec

-----------------------------------------------------------------------------
(***************************************************************************)
(* The disks and the start of an instance.                                 *)
(***************************************************************************)
\* Disks and profiles are never taken away.
LEMMA DisksStay ==
  ASSUME TypeOK, [Next]_vars, NEW i \in InstanceIDs
  PROVE  /\ \A d \in Disks : inst[i].disks[d] > 0 => inst'[i].disks[d] > 0
         /\ inst[i].profile => inst'[i].profile
  <1> DEFINE Goal == /\ \A d \in Disks : inst[i].disks[d] > 0 => inst'[i].disks[d] > 0
                     /\ inst[i].profile => inst'[i].profile
  <1>t. \A d \in Disks : inst[i].disks[d] \in Nat
    <2> HIDE DEF Disks
    <2> QED
      BY DEF TypeOK, Instance
  <1>1. CASE SameDisks(inst[i], inst'[i])
    BY <1>1 DEF SameDisks
  <1>2. ASSUME NEW m \in Machines, MakesDisks(m), i = scope[m].providerID, Live(i)
        PROVE  Goal
    <2>1. \/ \E d \in Disks : inst' = [inst EXCEPT ![i].disks[d] = @ + 1]
          \/ inst' = [inst EXCEPT ![i].profile = TRUE]
          \/ UNCHANGED inst
      BY Zenon, <1>2 DEF MakesDisks
    <2>2. ASSUME NEW d \in Disks, inst' = [inst EXCEPT ![i].disks[d] = @ + 1] PROVE Goal
      <3>1. /\ inst'[i].profile = inst[i].profile
            /\ inst'[i].disks[d] = inst[i].disks[d] + 1
            /\ \A e \in Disks \ {d} : inst'[i].disks[e] = inst[i].disks[e]
        BY Zenon, <2>2, <1>2, DiskEffect
      <3> HIDE DEF Disks
      <3>2. \A e \in Disks : inst[i].disks[e] > 0 => inst'[i].disks[e] > 0
        BY <3>1, <1>t
      <3> QED
        BY Zenon, <3>1, <3>2
    <2>3. ASSUME inst' = [inst EXCEPT ![i].profile = TRUE] PROVE Goal
      BY Zenon, <2>3, <1>2, ProfileEffect
    <2> QED
      BY Zenon, <2>1, <2>2, <2>3
  <1> QED
    BY Zenon, <1>1, <1>2, WhoMakesDisks

\* An instance is started by reconcilePreflightBoot only.
LEMMA WhoBoots ==
  ASSUME TypeOK, [Next]_vars, NEW i \in InstanceIDs,
         inst'[i].state \in {"booting", "running"}, inst[i].state \notin {"booting", "running"}
  PROVE  \E m \in Machines : Elsewhere(m) /\ Boots(m) /\ i = scope[m].providerID /\ Live(i)
  <1>0. inst'[i] # inst[i]
    OBVIOUS
  <1>1. ASSUME Moves(i) PROVE FALSE
    <2>1. Live(i) /\ \E s \in {"shutting_down", "deleted"} : inst' = [inst EXCEPT ![i].state = s]
      BY Zenon, <1>1 DEF Moves
    <2> QED
      BY <2>1 DEF TypeOK, Instance
  <1>2. ASSUME NEW m \in Machines, NewInstance(m, i) PROVE FALSE
    BY <1>2, NewInstanceEffect
  <1>3. ASSUME NEW m \in Machines, MakesDisks(m), i = scope[m].providerID, Live(i) PROVE FALSE
    <2>1. \/ \E d \in Disks : inst' = [inst EXCEPT ![i].disks[d] = @ + 1]
          \/ inst' = [inst EXCEPT ![i].profile = TRUE]
          \/ UNCHANGED inst
      BY Zenon, <1>3 DEF MakesDisks
    <2>2. inst'[i].state = inst[i].state
      BY Zenon, <2>1, <1>3, DiskEffect, ProfileEffect
    <2> QED
      BY Zenon, <2>2
  <1>4. ASSUME NEW m \in Machines, Deletes(m), i = scope[m].providerID, Live(i) PROVE FALSE
    <2>1. inst' = [inst EXCEPT ![i].state = "deleted"]
      BY Zenon, <1>4, <1>0 DEF Deletes, Delete
    <2> QED
      BY <2>1 DEF TypeOK, Instance
  <1> QED
    BY Zenon, <1>0, <1>1, <1>2, <1>3, <1>4, WhoTouches

Complete(x) == \A d \in Disks : x.disks[d] > 0 /\ x.profile

\* What the spec and the conditions of o say about its disks is true of the
\* instances in I.
Built(o, I) ==
    /\ \A d \in o.diskIDs : o.providerID # None /\ I[o.providerID].disks[d] > 0
    /\ o.conds \cap {"AdditionalDisksCreated", "Configured"} # {} =>
          /\ o.providerID # None \/ "Created" \in o.conds
          /\ o.providerID # None /\ I[o.providerID].state \in Status =>
                Complete(I[o.providerID])

Clean(m) == faults[m] \cap {"noConfigs", "stale"} = {}

BootedFor(m) ==
    Clean(m) =>
        /\ ~obj[m].deleting => Built(obj[m], inst)
        /\ ~scope[m].deleting => Built(scope[m], inst)
        /\ pc[m] \in {"config", "boot"} /\ Live(scope[m].providerID) =>
              Complete(inst[scope[m].providerID])

Booted == \A m \in Machines : BootedFor(m)

\* A copy that tells the truth goes on to do so.
LEMMA BuiltStays ==
  ASSUME TypeOK, ProviderIDHasLabel, [Next]_vars, NEW n \in Machines,
         NEW o \in {obj[n], seen[n], base[n], scope[n]}, Built(o, inst)
  PROVE  Built(o, inst')
  <1>o. o \in LinodeMachineObject
    BY DEF TypeOK
  <1>1. o.providerID # None => o.providerID \in InstanceIDs
    BY <1>o DEF LinodeMachineObject
  <1>2. \A d \in o.diskIDs : d \in Disks
    BY <1>o DEF LinodeMachineObject
  <1>3. o.providerID # None /\ inst'[o.providerID].state \in Status => Live(o.providerID)
    BY Zenon, NotBack
  <1>4. \A i \in InstanceIDs : Complete(inst[i]) => Complete(inst'[i])
    BY Zenon, DisksStay DEF Complete
  <1>5. \A d \in o.diskIDs : o.providerID # None /\ inst'[o.providerID].disks[d] > 0
    BY Zenon, <1>1, <1>2, DisksStay DEF Built
  <1> QED
    BY Zenon, <1>1, <1>3, <1>4, <1>5 DEF Built, Live

\* The disks and conditions of two copies that agree on these fields.
LEMMA BuiltFields ==
  ASSUME NEW o, NEW p, NEW I, Built(o, I), p.providerID = o.providerID, p.diskIDs = o.diskIDs,
         \A c \in {"AdditionalDisksCreated", "Configured", "Created"} : c \in p.conds <=> c \in o.conds
  PROVE  Built(p, I)
  BY DEF Built

\* No step has a machine without such faults take its disks for complete that are not.
LEMMA BootedKeeps ==
  ASSUME TypeOK, ProviderIDHasLabel, Course, Sync, Booted, [Next]_vars
  PROVE  Booted'
  <1> SUFFICES ASSUME NEW n \in Machines, Clean(n)' PROVE BootedFor(n)'
    BY DEF Booted, BootedFor
  <1>f. "stale" \notin faults'[n] /\ "noConfigs" \notin faults'[n]
    BY DEF Clean
  <1>g. "stale" \notin faults[n] /\ Clean(n)
    BY FaultsStay, <1>f DEF Clean
  <1>h. /\ ~obj[n].deleting => Built(obj[n], inst)
        /\ ~scope[n].deleting => Built(scope[n], inst)
        /\ pc[n] \in {"config", "boot"} /\ Live(scope[n].providerID) =>
              Complete(inst[scope[n].providerID])
    BY Zenon, <1>g DEF Booted, BootedFor
  <1>i. InSync(n) /\ Placed(n) /\ Changed(n)
    BY DEF Sync, Course
  <1>o. /\ obj[n] \in LinodeMachineObject /\ scope[n] \in LinodeMachineObject
        /\ base[n] \in LinodeMachineObject
    BY DEF TypeOK
  <1>a. ~obj[n].deleting => Built(obj[n], inst')
    BY Zenon, <1>h, BuiltStays
  <1>b. ~scope[n].deleting => Built(scope[n], inst')
    BY Zenon, <1>h, BuiltStays
  <1>c. pc[n] \in {"config", "boot"} /\ scope[n].providerID # None
        /\ inst'[scope[n].providerID].state \in Status
        => Complete(inst'[scope[n].providerID])
    <2> SUFFICES ASSUME pc[n] \in {"config", "boot"}, scope[n].providerID # None,
                        inst'[scope[n].providerID].state \in Status
                 PROVE  Complete(inst'[scope[n].providerID])
      OBVIOUS
    <2>1. scope[n].providerID \in InstanceIDs
      BY <1>o DEF LinodeMachineObject
    <2>2. Live(scope[n].providerID)
      BY Zenon, NotBack
    <2> QED
      BY Zenon, <2>1, <2>2, <1>h, DisksStay DEF Complete
  <1>e. Built(Gone, inst')
    BY GoneFields DEF Built
  \* What is left to show.
  <1>s. ASSUME ~obj'[n].deleting => Built(obj'[n], inst'),
               ~scope'[n].deleting => Built(scope'[n], inst'),
               pc'[n] \in {"config", "boot"} /\ scope'[n].providerID # None
               /\ inst'[scope'[n].providerID].state \in Status
               => Complete(inst'[scope'[n].providerID])
        PROVE  BootedFor(n)'
    BY Zenon, <1>s DEF BootedFor, Live, Built, Complete
  <1>1. CASE Untouched(n) \/ Informs(n) \/ LosesSecret(n)
    <2>1. pc'[n] = pc[n] /\ obj'[n] = obj[n] /\ scope'[n] = scope[n]
      BY Zenon, <1>1 DEF Untouched, Informs, LosesSecret
    <2> QED
      BY <2>1, <1>a, <1>b, <1>c, <1>s
  <1>2. CASE Begins(n)
    <2>1. pc'[n] = "addFinalizer" /\ obj'[n] = obj[n] /\ scope'[n] = obj[n]
      BY <1>2, <1>f DEF Begins, Hit
    <2> QED
      BY <2>1, <1>a, <1>s
  <1>3. CASE TakesFinalizer(n)
    <2>1. /\ Finalized(scope[n], scope'[n]) /\ pc'[n] \in {"credentials", "requeue"}
          /\ Finalized(obj[n], obj'[n])
      BY <1>3 DEF TakesFinalizer, Finalized, SameSpec, SameStatus
    <2>2. ~scope'[n].deleting => Built(scope'[n], inst')
      BY <2>1, <1>b, BuiltFields DEF Finalized, SameSpec
    <2>3. ~obj'[n].deleting => Built(obj'[n], inst')
      BY <2>1, <1>a, BuiltFields DEF Finalized, SameSpec
    <2> QED
      BY <2>1, <2>2, <2>3, <1>s
  <1>4. CASE Climbs(n)
    <2>1. /\ Conditioned(scope[n], scope'[n]) /\ UNCHANGED <<obj, inst>>
          /\ Rung(scope[n], pc[n], pc'[n], scope'[n].conds)
      BY <1>4 DEF Climbs
    <2>2. CASE pc[n] = "config"
      <3>1. \/ scope'[n].conds = scope[n].conds
            \/ Live(scope[n].providerID) /\ scope'[n].conds = scope[n].conds \cup {"Configured"}
        BY <2>1, <2>2 DEF Rung
      <3>2. ~scope[n].deleting /\ Built(scope[n], inst)
        BY <2>2, <1>h, <1>i DEF Placed, Creating
      <3>3. /\ scope'[n].providerID = scope[n].providerID /\ scope'[n].diskIDs = scope[n].diskIDs
        BY Zenon, <2>1 DEF Conditioned, SameSpec
      <3>4. CASE scope'[n].conds = scope[n].conds
        BY <3>2, <3>3, <3>4, BuiltFields, <2>1, <2>2, <1>a, <1>c, <1>s
      <3>5. CASE Live(scope[n].providerID) /\ scope'[n].conds = scope[n].conds \cup {"Configured"}
        <4>1. Complete(inst[scope[n].providerID]) /\ scope[n].providerID # None
          BY Zenon, <3>5, <2>2, <1>h DEF Live
        <4>2. Built(scope'[n], inst')
          BY <4>1, <3>2, <3>3, <3>5, <2>1 DEF Built
        <4> QED
          BY <4>1, <4>2, <3>3, <2>1, <1>a, <1>s
      <3> QED
        BY <3>1, <3>4, <3>5
    <2>3. CASE pc[n] # "config"
      <3>1. \A c \in {"AdditionalDisksCreated", "Configured", "Created"} :
               c \in scope'[n].conds <=> c \in scope[n].conds
        BY <2>1, <2>3 DEF Rung
      <3>2. /\ scope'[n].providerID = scope[n].providerID /\ scope'[n].diskIDs = scope[n].diskIDs
            /\ scope'[n].deleting = scope[n].deleting
        BY Zenon, <2>1 DEF Conditioned, SameSpec, SameMeta
      <3>3. ~scope'[n].deleting => Built(scope'[n], inst')
        BY <3>1, <3>2, <1>b, BuiltFields
      <3>4. pc'[n] \in {"config", "boot"} =>
               /\ ~scope[n].deleting
               /\ \/ NDisks = 0
                  \/ scope[n].conds \cap {"AdditionalDisksCreated", "Configured"} # {}
        BY <2>1, <2>3, <1>i DEF Rung, Placed, Creating
      <3>5. NDisks = 0 => \A x : Complete(x)
        BY DEF Complete, Disks
      <3>6. pc'[n] \in {"config", "boot"} /\ scope[n].providerID # None
            /\ inst'[scope[n].providerID].state \in Status => Complete(inst'[scope[n].providerID])
        BY Zenon, <3>4, <3>5, <1>b DEF Built
      <3> QED
        BY <3>2, <3>3, <3>6, <2>1, <1>a, <1>s
    <2> QED
      BY <2>2, <2>3
  <1>5. CASE Creates(n) \/ Adopts(n)
    <2>1. /\ pc[n] \in {"create", "adopt"} /\ pc'[n] \notin {"config", "boot"} /\ obj'[n] = obj[n]
          /\ \/ scope'[n] = scope[n]
             \/ /\ scope[n].providerID = None /\ "Created" \notin scope[n].conds
                /\ \E i \in InstanceIDs : scope'[n] = WithInstance(scope[n], i)
      BY <1>5, <1>i DEF Creates, Adopts, ListInstances, Placed
    <2>2. CASE scope'[n] = scope[n]
      BY <2>1, <2>2, <1>a, <1>b, <1>s
    <2>3. ASSUME NEW i \in InstanceIDs, scope'[n] = WithInstance(scope[n], i),
                 scope[n].providerID = None, "Created" \notin scope[n].conds
          PROVE  Built(scope'[n], inst')
      <3>1. /\ WithInstance(scope[n], i).diskIDs = scope[n].diskIDs
            /\ WithInstance(scope[n], i).conds = scope[n].conds \cup {"Created"}
        BY Zenon, <1>o, InstanceFields
      <3>2. ~scope[n].deleting
        BY <2>1, <1>i DEF Placed, Creating
      <3>3. /\ \A d \in scope[n].diskIDs : FALSE
            /\ scope[n].conds \cap {"AdditionalDisksCreated", "Configured"} = {}
        BY Zenon, <3>2, <2>3, <1>h DEF Built
      <3> QED
        BY <3>1, <3>3, <2>3 DEF Built
    <2> QED
      BY <2>1, <2>2, <2>3, <1>a, <1>s
  <1>6. CASE MakesDisks(n)
    <2> DEFINE i == scope[n].providerID
    <2>0. pc[n] = "disks" /\ obj'[n] = obj[n] /\ (Live(i) => i \in InstanceIDs)
      BY <1>6, <1>o DEF MakesDisks, LinodeMachineObject, Live
    <2>1. ~scope[n].deleting /\ Built(scope[n], inst) /\ Built(scope[n], inst')
      BY <2>0, <1>h, <1>b, <1>i DEF Placed, Creating
    <2>2. CASE UNCHANGED scope /\ pc'[n] = "requeue"
      BY <2>0, <2>1, <2>2, <1>a, <1>s
    <2>3. ASSUME NEW d \in Disks, Live(i), inst' = [inst EXCEPT ![i].disks[d] = @ + 1],
                 pc'[n] = "disks", scope'[n] = AddDiskID(scope[n], d)
          PROVE  BootedFor(n)'
      <3>1. inst'[i].disks[d] = inst[i].disks[d] + 1 /\ inst[i].disks[d] \in Nat
        <4>1. inst'[i].disks[d] = inst[i].disks[d] + 1
          BY Zenon, <2>0, <2>3, DiskEffect
        <4>2. inst[i] \in Instance
          BY <2>0, <2>3 DEF TypeOK
        <4> HIDE DEF Disks
        <4>3. inst[i].disks[d] \in Nat
          BY <4>2 DEF Instance
        <4> QED
          BY <4>1, <4>3
      <3>2. inst'[i].disks[d] > 0
        BY <3>1
      <3>3. /\ AddDiskID(scope[n], d).providerID = i
            /\ AddDiskID(scope[n], d).conds = scope[n].conds
            /\ AddDiskID(scope[n], d).diskIDs = scope[n].diskIDs \cup {d}
        BY Zenon, <1>o, SmallUpdates
      <3>4. i # None
        BY Zenon, <2>3 DEF Live
      <3>5. Built(scope'[n], inst')
        BY <3>2, <3>3, <3>4, <2>1, <2>3 DEF Built
      <3> QED
        BY <3>5, <2>0, <2>3, <1>a, <1>s
    <2>4. ASSUME pc'[n] = "config", Disks \subseteq scope[n].diskIDs, Live(i),
                 Conditioned(scope[n], scope'[n]),
                 scope'[n].conds = scope[n].conds \cup {"AdditionalDisksCreated"},
                 inst' = [inst EXCEPT ![i].profile = TRUE]
          PROVE  BootedFor(n)'
      <3>1. inst'[i].disks = inst[i].disks /\ inst'[i].profile = TRUE /\ i # None
        BY Zenon, <2>0, <2>4, ProfileEffect DEF Live
      <3>2. Complete(inst'[i])
        BY Zenon, <3>1, <2>1, <2>4 DEF Complete, Built
      <3>3. scope'[n].providerID = i /\ scope'[n].diskIDs = scope[n].diskIDs
        BY Zenon, <2>4 DEF Conditioned, SameSpec
      <3>4. Built(scope'[n], inst')
        BY <3>1, <3>2, <3>3, <2>1, <2>4 DEF Built
      <3> QED
        BY <3>2, <3>3, <3>4, <2>0, <1>a, <1>s
    <2>h. ~Hit(n, "noConfigs")
      BY <1>f DEF Hit
    <2> QED
      BY Zenon, <2>2, <2>3, <2>4, <2>h, <1>6 DEF MakesDisks
  <1>7. CASE TakesSecret(n) \/ Boots(n) \/ Reports(n)
    <2>1. /\ obj'[n] = obj[n] /\ pc'[n] \notin {"config", "boot"}
          /\ scope'[n].providerID = scope[n].providerID /\ scope'[n].diskIDs = scope[n].diskIDs
          /\ scope'[n].deleting = scope[n].deleting
      BY Zenon, <1>7 DEF TakesSecret, Boots, Reports, Conditioned, SameSpec, SameMeta
    <2>2. \A c \in {"AdditionalDisksCreated", "Configured", "Created"} :
             c \in scope'[n].conds <=> c \in scope[n].conds
      BY <1>7 DEF TakesSecret, Boots, Reports
    <2>3. ~scope'[n].deleting => Built(scope'[n], inst')
      BY <2>1, <2>2, <1>b, BuiltFields
    <2> QED
      BY <2>1, <2>3, <1>a, <1>s
  <1>8. CASE Deletes(n) \/ Releases(n)
    <2>1. /\ pc[n] \in {"delete", "release"} /\ obj'[n] = obj[n] /\ pc'[n] \notin {"config", "boot"}
          /\ \/ scope'[n].deleting = scope[n].deleting
             \/ scope'[n] = WithoutInstance(scope[n])
      BY Zenon, <1>8 DEF Deletes, Releases, Finalized
    <2>2. WithoutInstance(scope[n]).deleting = scope[n].deleting
      BY Zenon, <1>o, InstanceFields DEF SameMeta
    <2>3. scope[n].deleting
      BY <2>1, <1>i DEF Placed
    <2>4. scope'[n].deleting
      BY Zenon, <2>1, <2>2, <2>3
    <2> QED
      BY <2>1, <2>4, <1>a, <1>s
  <1>9. CASE Closes(n)
    <2>1. /\ pc[n] \in {"return", "requeue"} /\ pc'[n] = "idle" /\ scope'[n] = Gone
          /\ ~obj[n].exists => obj'[n] = obj[n]
      BY Zenon, <1>9 DEF Closes
    <2>2. ASSUME ~obj'[n].deleting PROVE Built(obj'[n], inst')
      <3>1. CASE ~obj[n].exists
        BY <3>1, <2>1, <1>e, <1>i DEF Placed
      <3>2. CASE obj[n].exists /\ obj'[n] # Gone
        <4>1. PICK parts \in SUBSET PatchParts :
                      PatchOf(obj'[n], obj[n], base[n], scope[n], parts)
          BY <1>9, <3>2, ClosedObject
        <4>2. ~obj[n].deleting /\ ~scope[n].deleting
          BY <4>1, <3>2, <2>2, <1>i DEF PatchOf, Placed
        <4>3. /\ base[n].providerID = obj[n].providerID /\ base[n].diskIDs = obj[n].diskIDs
              /\ base[n].conds = obj[n].conds
          BY <3>2, <2>1, <1>g, <1>i DEF InSync, Agrees, SameSpec
        <4>4. \/ /\ obj'[n].providerID = scope[n].providerID
                 /\ obj'[n].diskIDs = scope[n].diskIDs
              \/ /\ obj'[n].providerID = obj[n].providerID
                 /\ obj'[n].diskIDs = obj[n].diskIDs
          <5>1. obj'[n].diskIDs = MergedSet("object" \in parts, obj[n].diskIDs, scope[n].diskIDs,
                                            obj[n].diskIDs)
            BY Zenon, <4>1, <4>3 DEF PatchOf
          <5>2. obj'[n].diskIDs = IF "object" \in parts THEN scope[n].diskIDs ELSE obj[n].diskIDs
            BY Zenon, <5>1, SetPatch DEF MergedSet
          <5>3. obj'[n].providerID = IF "object" \in parts THEN scope[n].providerID
                                                           ELSE obj[n].providerID
            BY <4>1, <4>3 DEF PatchOf, Merged
          <5> QED
            BY <5>2, <5>3
        <4>5. obj'[n].conds = scope[n].conds \/ obj'[n].conds = obj[n].conds
          <5>1. obj'[n].conds = MergedSet("conditions" \in parts, obj[n].conds, scope[n].conds,
                                          obj[n].conds)
            BY Zenon, <4>1, <4>3 DEF PatchOf
          <5> QED
            BY Zenon, <5>1, SetPatch DEF MergedSet
        <4>6. /\ scope[n].providerID # obj[n].providerID =>
                    obj[n].providerID = None /\ "Created" \in scope[n].conds
              /\ obj[n].conds \subseteq scope[n].conds \cup {"Ready"}
          BY <4>2, <4>3, <1>i DEF Changed
        <4>7. Built(obj[n], inst') /\ Built(scope[n], inst')
          BY <4>2, <1>a, <1>b
        <4>8. \A d \in obj'[n].diskIDs :
                 obj'[n].providerID # None /\ inst'[obj'[n].providerID].disks[d] > 0
          BY Zenon, <4>4, <4>7 DEF Built
        <4>9. ASSUME obj'[n].conds \cap {"AdditionalDisksCreated", "Configured"} # {}
              PROVE  /\ obj'[n].providerID # None \/ "Created" \in obj'[n].conds
                     /\ obj'[n].providerID # None /\ inst'[obj'[n].providerID].state \in Status =>
                           Complete(inst'[obj'[n].providerID])
          <5>1. scope[n].conds \cap {"AdditionalDisksCreated", "Configured"} # {}
            BY <4>5, <4>6, <4>9
          <5>2. /\ scope[n].providerID # None \/ "Created" \in scope[n].conds
                /\ scope[n].providerID # None /\ inst'[scope[n].providerID].state \in Status =>
                      Complete(inst'[scope[n].providerID])
            BY Zenon, <5>1, <4>7 DEF Built
          <5>3. obj'[n].conds = obj[n].conds =>
                   obj[n].providerID # None \/ "Created" \in obj[n].conds
            BY Zenon, <4>9, <4>7 DEF Built
          <5>4. obj'[n].providerID # None \/ "Created" \in obj'[n].conds
            BY <5>2, <5>3, <4>4, <4>5, <4>6
          <5>5. obj'[n].providerID # None => obj'[n].providerID = scope[n].providerID
            BY <4>4, <4>6
          <5> QED
            BY <5>2, <5>4, <5>5
        <4> QED
          BY Zenon, <4>8, <4>9 DEF Built
      <3> QED
        BY <3>1, <3>2, <1>e
    <2> QED
      BY <2>1, <2>2, <1>e, <1>s, GoneFields
  <1>10. CASE Terminates(n)
    <2>1. pc'[n] = pc[n] /\ scope'[n] = scope[n]
      BY <1>10 DEF Terminates
    <2>2. obj'[n] = Gone \/ obj'[n].deleting
      BY Zenon, <1>10, TerminatedObject
    <2> QED
      BY <2>1, <2>2, <1>b, <1>c, <1>e, <1>s
  <1>11. CASE Crashes
    <2>1. pc'[n] = "idle" /\ scope'[n] = Gone /\ obj'[n] = obj[n]
      BY <1>11 DEF Crashes
    <2> QED
      BY <2>1, <1>a, <1>e, <1>s
  <1> QED
    BY Zenon, <1>1, <1>2, <1>3, <1>4, <1>5, <1>6, <1>7, <1>8, <1>9, <1>10, <1>11, MachineEffect
       DEF Works

\* No step starts an instance whose disks are not complete.
LEMMA StartedKeeps ==
  ASSUME TypeOK, ProviderIDHasLabel, Booted, DisksBeforeBoot, [Next]_vars
  PROVE  DisksBeforeBoot'
  <1> SUFFICES ASSUME NEW i \in InstanceIDs, inst'[i].state \in {"booting", "running"},
                      \A m \in Machines : LabelOf[m] = inst'[i].label => Clean(m)'
               PROVE  Complete(inst'[i])
    BY Zenon DEF DisksBeforeBoot, Clean, Complete
  <1>c. \A m \in Machines : Clean(m)' => Clean(m)
    BY FaultsStay DEF Clean
  <1>k. Complete(inst[i]) => Complete(inst'[i])
    BY Zenon, DisksStay DEF Complete
  <1>o. inst[i].state # "unused" => inst'[i].label = inst[i].label
    BY Zenon, InstanceEffect, NewInstanceEffect DEF Onward
  <1>1. CASE inst[i].state \in {"booting", "running"}
    <2>1. \A m \in Machines : LabelOf[m] = inst[i].label => Clean(m)
      BY <1>1, <1>o, <1>c
    <2> QED
      BY Zenon, <1>1, <1>k, <2>1 DEF DisksBeforeBoot, Clean, Complete
  <1>2. CASE inst[i].state \notin {"booting", "running"}
    <2>1. PICK m \in Machines : Boots(m) /\ i = scope[m].providerID /\ Live(i)
      BY Zenon, <1>2, WhoBoots
    <2>2. inst[i].state # "unused" /\ scope[m].providerID # None
      BY <2>1 DEF Live, Status
    <2>3. inst[i].label = LabelOf[m]
      BY Zenon, <2>1, <2>2 DEF ProviderIDHasLabel
    <2>4. Clean(m)
      BY Zenon, <2>2, <2>3, <1>o, <1>c
    <2>5. Complete(inst[i])
      BY Zenon, <2>1, <2>4 DEF Boots, Booted, BootedFor
    <2> QED
      BY Zenon, <2>5, <1>k
  <1> QED
    BY <1>1, <1>2

\* No instance is started before its data disks are there and its configuration
\* profile maps them, whatever is lost or crashes and however many machines share
\* its label, unless the API listed one of them no profile or one of them worked
\* from a stale copy: the conditions that let reconcilePreflightConfigure skip
\* configureDisks are stored only together with, or after, the ProviderID of an
\* instance whose disks are complete.
THEOREM DisksCompleteAtBoot == Spec => []DisksBeforeBoot
  <1>1. Init => Booted /\ DisksBeforeBoot
    <2> SUFFICES ASSUME Init PROVE Booted /\ DisksBeforeBoot
      OBVIOUS
    <2>1. /\ \A m \in Machines : obj[m] = New /\ scope[m] = Gone /\ pc[m] = "idle"
          /\ \A i \in InstanceIDs : inst[i] = Unused
      BY DEF Init
    <2>2. /\ New.diskIDs = {} /\ New.conds = {}
          /\ Gone.diskIDs = {} /\ Gone.conds = {}
      BY DEF New, Gone
    <2>3. Built(New, inst) /\ Built(Gone, inst)
      BY <2>2 DEF Built
    <2>4. Booted
      BY <2>1, <2>3 DEF Booted, BootedFor
    <2>5. DisksBeforeBoot
      BY <2>1 DEF Unused, DisksBeforeBoot
    <2> QED
      BY <2>4, <2>5
  <1>2. TypeOK /\ ProviderIDHasLabel /\ Course /\ Sync /\ Booted /\ [Next]_vars => Booted'
    BY BootedKeeps
  <1>3. TypeOK /\ ProviderIDHasLabel /\ Booted /\ DisksBeforeBoot /\ [Next]_vars
        => DisksBeforeBoot'
    BY StartedKeeps
  <1> QED
    BY <1>1, <1>2, <1>3, TypeCorrect, ProviderIDCorrect, CourseOfReconcile, ReconcileInSync, PTL
       DEF Spec

-----------------------------------------------------------------------------
(***************************************************************************)
(* What the conditions and the status say of the spec.                     *)
(***************************************************************************)
Whole(o) ==
    /\ "Created" \in o.conds => o.providerID # None
    /\ o.instanceState # None => o.providerID # None /\ o.addresses
    /\ "PreflightReady" \in o.conds => o.addresses

\* p has a ProviderID and addresses if o has.
After(o, p) ==
    /\ o.providerID # None => p.providerID # None
    /\ o.addresses => p.addresses

WholeFor(m) ==
    "lostPatch" \notin faults[m] =>
        /\ ~obj[m].deleting => Whole(obj[m])
        /\ ~seen[m].deleting => Whole(seen[m])
        /\ ~scope[m].deleting => Whole(scope[m])
        /\ obj[m].exists /\ ~obj[m].deleting => After(seen[m], obj[m]) /\ After(base[m], obj[m])

AllWhole == \A m \in Machines : WholeFor(m)

\* A patch that is served completely keeps a whole object whole, even if it
\* comes from a copy that was stale.
LEMMA WholePatch ==
  ASSUME NEW o, NEW b, NEW s, NEW t, PatchOf(t, o, b, s, PatchParts),
         Whole(o), Whole(s), After(b, o), b.addresses => s.addresses,
         o.addresses \in BOOLEAN, s.addresses \in BOOLEAN, b.addresses \in BOOLEAN,
         s.providerID # b.providerID => s.providerID # None
  PROVE  Whole(t) /\ After(o, t)
  <1>1. /\ t.providerID = IF b.providerID # s.providerID THEN s.providerID ELSE o.providerID
        /\ t.addresses = IF b.addresses # s.addresses THEN s.addresses ELSE o.addresses
        /\ t.instanceState =
              IF b.instanceState # s.instanceState THEN s.instanceState ELSE o.instanceState
        /\ t.conds = (o.conds \cup (s.conds \ b.conds)) \ (b.conds \ s.conds)
    BY DEF PatchOf, Merged, MergedSet, PatchParts
  <1>2. o.providerID # None => t.providerID # None
    BY <1>1
  <1>3. s.providerID # None => t.providerID # None
    BY <1>1 DEF After
  <1>4. o.addresses => t.addresses
    BY <1>1
  <1>5. s.addresses => t.addresses
    <2>1. CASE b.addresses # s.addresses
      BY Zenon, <2>1, <1>1
    <2>2. CASE b.addresses = s.addresses
      BY Zenon, <2>2, <1>1 DEF After
    <2> QED
      BY <2>1, <2>2
  <1>6. \A c : c \in t.conds => c \in o.conds \/ c \in s.conds
    BY <1>1
  <1>7. t.instanceState \in {o.instanceState, s.instanceState}
    BY <1>1
  <1> QED
    BY <1>2, <1>3, <1>4, <1>5, <1>6, <1>7 DEF Whole, After

\* No step stores a Running status without the rest of it.
LEMMA WholeKeeps ==
  ASSUME TypeOK, Course, AllWhole, [Next]_vars
  PROVE  AllWhole'
  <1> SUFFICES ASSUME NEW n \in Machines, "lostPatch" \notin faults'[n] PROVE WholeFor(n)'
    BY DEF AllWhole, WholeFor
  <1>h. /\ ~obj[n].deleting => Whole(obj[n])
        /\ ~seen[n].deleting => Whole(seen[n])
        /\ ~scope[n].deleting => Whole(scope[n])
        /\ obj[n].exists /\ ~obj[n].deleting => After(seen[n], obj[n]) /\ After(base[n], obj[n])
    BY FaultsStay DEF AllWhole, WholeFor
  <1>i. Placed(n) /\ Changed(n)
    BY DEF Course
  <1>o. obj[n] \in LinodeMachineObject /\ scope[n] \in LinodeMachineObject
    BY DEF TypeOK
  <1>e. Whole(Gone) /\ \A o : After(Gone, o) /\ After(o, o)
    BY GoneFields DEF Whole, After
  \* A step that changes the scope only.
  <1>s. ASSUME obj'[n] = obj[n], seen'[n] = seen[n], base'[n] = base[n],
               ~scope'[n].deleting => Whole(scope'[n])
        PROVE  WholeFor(n)'
    BY <1>s, <1>h DEF WholeFor, Whole, After
  <1>1. CASE Untouched(n) \/ LosesSecret(n)
    <2>1. obj'[n] = obj[n] /\ seen'[n] = seen[n] /\ base'[n] = base[n] /\ scope'[n] = scope[n]
      BY Zenon, <1>1 DEF Untouched, LosesSecret
    <2> QED
      BY <2>1, <1>h, <1>s
  <1>2. CASE Informs(n)
    BY <1>2, <1>h, <1>e DEF Informs, WholeFor, Whole, After
  <1>3. CASE Begins(n)
    BY <1>3, <1>h, <1>e DEF Begins, WholeFor, Whole, After
  <1>4. CASE TakesFinalizer(n)
    <2>1. Finalized(scope[n], scope'[n]) /\ Finalized(obj[n], obj'[n])
      BY <1>4 DEF TakesFinalizer, Finalized, SameSpec, SameStatus
    <2>2. seen'[n] = seen[n] /\ base'[n] = base[n]
      BY <1>4 DEF TakesFinalizer
    <2> QED
      BY <2>1, <2>2, <1>h DEF WholeFor, Whole, After, Finalized, SameSpec, SameStatus
  <1>5. CASE Climbs(n)
    <2>1. UNCHANGED <<obj, seen, base>> /\ Conditioned(scope[n], scope'[n])
      BY <1>5 DEF Climbs
    <2>2. \A c \in {"Created", "PreflightReady"} : c \in scope'[n].conds => c \in scope[n].conds
      BY <1>5 DEF Climbs, Rung
    <2>3. ~scope'[n].deleting => Whole(scope'[n])
      BY <2>1, <2>2, <1>h DEF Whole, Conditioned, SameMeta, SameSpec, SameStatus
    <2> QED
      BY Zenon, <2>1, <2>3, <1>s
  <1>6. CASE TakesSecret(n)
    BY <1>6, <1>h, <1>s DEF TakesSecret
  <1>7. CASE Creates(n) \/ Adopts(n)
    <2>1. /\ UNCHANGED <<obj, seen, base>>
          /\ \/ scope'[n] = scope[n]
             \/ \E i \in InstanceIDs : scope'[n] = WithInstance(scope[n], i)
      BY <1>7 DEF Creates, Adopts, ListInstances
    <2>2. ASSUME NEW i \in InstanceIDs, ~scope[n].deleting PROVE Whole(WithInstance(scope[n], i))
      <3>1. /\ SameStatus(scope[n], WithInstance(scope[n], i))
            /\ WithInstance(scope[n], i).providerID = i
            /\ WithInstance(scope[n], i).conds = scope[n].conds \cup {"Created"}
        BY Zenon, <1>o, InstanceFields
      <3>2. i # None
        BY MachineAssumptions
      <3> QED
        BY <3>1, <3>2, <2>2, <1>h DEF Whole, SameStatus
    <2>3. ~scope[n].deleting
      BY <1>7, <1>i DEF Creates, Adopts, Placed, Creating
    <2>4. Whole(scope'[n])
      BY <2>1, <2>2, <2>3, <1>h
    <2> QED
      BY Zenon, <2>1, <2>4, <1>s
  <1>8. CASE MakesDisks(n)
    <2>1. /\ UNCHANGED <<obj, seen, base>>
          /\ \/ scope'[n] = scope[n]
             \/ \E d \in Disks : scope'[n] = AddDiskID(scope[n], d)
             \/ /\ Conditioned(scope[n], scope'[n])
                /\ scope'[n].conds = scope[n].conds \cup {"AdditionalDisksCreated"}
      BY Zenon, <1>8 DEF MakesDisks
    <2>2. ASSUME NEW d \in Disks
          PROVE  /\ SameMeta(scope[n], AddDiskID(scope[n], d))
                 /\ SameStatus(scope[n], AddDiskID(scope[n], d))
                 /\ AddDiskID(scope[n], d).providerID = scope[n].providerID
                 /\ AddDiskID(scope[n], d).conds = scope[n].conds
      BY Zenon, <1>o, SmallUpdates
    <2>3. /\ SameMeta(scope[n], scope'[n]) /\ SameStatus(scope[n], scope'[n])
          /\ scope'[n].providerID = scope[n].providerID
          /\ scope'[n].conds \subseteq scope[n].conds \cup {"AdditionalDisksCreated"}
      <3> HIDE DEF Disks
      <3> QED
        BY <2>1, <2>2 DEF Conditioned, SameSpec, SameMeta, SameStatus
    <2>4. ~scope'[n].deleting => Whole(scope'[n])
      BY <2>3, <1>h DEF Whole, SameMeta, SameStatus
    <2> QED
      BY Zenon, <2>1, <2>4, <1>s
  <1>9. CASE Boots(n)
    <2>1. /\ UNCHANGED <<obj, seen, base>>
          /\ \/ scope'[n] = scope[n]
             \/ /\ Conditioned(scope[n], scope'[n])
                /\ scope'[n].conds = scope[n].conds \cup {"BootTriggered"}
      BY Zenon, <1>9 DEF Boots
    <2>2. ~scope'[n].deleting => Whole(scope'[n])
      BY <2>1, <1>h DEF Whole, Conditioned, SameMeta, SameSpec, SameStatus
    <2> QED
      BY Zenon, <2>1, <2>2, <1>s
  <1>10. CASE Reports(n)
    <2>1. UNCHANGED <<obj, seen, base>> /\ pc[n] \in {"ready", "update"}
      BY Zenon, <1>10 DEF Reports
    <2>2. ~scope[n].deleting /\ Whole(scope[n])
      BY <2>1, <1>h, <1>i DEF Placed, Creating
    <2>3. scope'[n].providerID = scope[n].providerID
      BY Zenon, <1>10 DEF Reports, SameSpec
    <2>4. CASE UNCHANGED scope
      BY <2>1, <2>4, <1>h, <1>s
    <2>5. CASE pc[n] = "ready" /\ ~UNCHANGED scope
      <3>1. scope[n].providerID # None
        BY <2>5, <1>i DEF Placed, WithID
      <3>2. scope'[n].addresses
        BY <2>2, <2>5, <1>10 DEF Reports, Whole
      <3> QED
        BY <3>1, <3>2, <2>1, <2>3, <1>s DEF Whole
    <2>6. CASE pc[n] = "update" /\ ~UNCHANGED scope
      <3>1. scope[n].instanceState # None
        BY <2>6, <1>i DEF Placed
      <3>2. scope[n].providerID # None /\ scope[n].addresses
        BY <3>1, <2>2 DEF Whole
      <3>3. scope'[n].addresses = scope[n].addresses
        BY <2>6, <1>10 DEF Reports
      <3> QED
        BY <3>2, <3>3, <2>1, <2>3, <1>s DEF Whole
    <2> QED
      BY Zenon, <2>1, <2>4, <2>5, <2>6
  <1>11. CASE Deletes(n) \/ Releases(n)
    <2>1. /\ pc[n] \in {"delete", "release"} /\ UNCHANGED <<obj, seen, base>>
          /\ \/ scope'[n].deleting = scope[n].deleting
             \/ scope'[n] = WithoutInstance(scope[n])
      BY Zenon, <1>11 DEF Deletes, Releases, Finalized
    <2>2. WithoutInstance(scope[n]).deleting = scope[n].deleting
      BY Zenon, <1>o, InstanceFields DEF SameMeta
    <2>3. scope[n].deleting
      BY <2>1, <1>i DEF Placed
    <2>4. scope'[n].deleting
      BY Zenon, <2>1, <2>2, <2>3
    <2> QED
      BY <2>1, <2>4, <1>s
  <1>12. CASE Closes(n)
    <2>1. /\ scope'[n] = Gone /\ base'[n] = Gone /\ seen'[n] = seen[n]
          /\ ~obj[n].exists => obj'[n] = obj[n]
      BY Zenon, <1>12 DEF Closes
    <2>2. ASSUME ~obj'[n].deleting, obj'[n] # Gone, obj[n].exists
          PROVE  Whole(obj'[n]) /\ After(obj[n], obj'[n]) /\ ~obj[n].deleting
      <3>1. PatchOf(obj'[n], obj[n], base[n], scope[n], PatchParts)
        BY <1>12, <2>2, ClosedObject DEF Hit
      <3>2. ~obj[n].deleting /\ ~scope[n].deleting
        BY <3>1, <2>2, <1>i DEF PatchOf, Placed
      <3>3. Whole(obj[n]) /\ Whole(scope[n]) /\ After(base[n], obj[n])
        BY Zenon, <3>2, <2>2, <1>h
      <3>4. /\ base[n].addresses => scope[n].addresses
            /\ scope[n].providerID # base[n].providerID => scope[n].providerID # None
        BY <3>2, <1>i DEF Changed
      <3>5. /\ obj[n].addresses \in BOOLEAN /\ scope[n].addresses \in BOOLEAN
            /\ base[n].addresses \in BOOLEAN
        BY DEF TypeOK, LinodeMachineObject
      <3> QED
        BY Zenon, <3>1, <3>2, <3>3, <3>4, <3>5, WholePatch
    <2>3. ~obj[n].exists => obj'[n] = Gone
      BY <2>1, <1>i DEF Placed
    <2>4. ~obj'[n].deleting => Whole(obj'[n])
      BY Zenon, <2>2, <2>3, <1>e
    <2>5. obj'[n].exists /\ ~obj'[n].deleting => After(seen[n], obj'[n])
      BY <2>2, <2>3, <1>h, GoneFields DEF After
    <2> QED
      BY <2>1, <2>4, <2>5, <1>h, <1>e DEF WholeFor, Whole, After
  <1>13. CASE Terminates(n)
    <2>1. UNCHANGED <<seen, base, scope>>
      BY <1>13 DEF Terminates
    <2>2. obj'[n] = Gone \/ obj'[n].deleting
      BY Zenon, <1>13, TerminatedObject
    <2> QED
      BY <2>1, <2>2, <1>h, <1>e, GoneFields DEF WholeFor, Whole, After
  <1>14. CASE Crashes
    <2>1. obj'[n] = obj[n] /\ seen'[n] = obj[n] /\ base'[n] = Gone /\ scope'[n] = Gone
      BY <1>14 DEF Crashes
    <2> QED
      BY <2>1, <1>h, <1>e DEF WholeFor, Whole, After
  <1> QED
    BY Zenon, <1>1, <1>2, <1>3, <1>4, <1>5, <1>6, <1>7, <1>8, <1>9, <1>10, <1>11, <1>12, <1>13,
       <1>14, MachineEffect DEF Works

\* A stored object that is not being deleted has a ProviderID if its Created
\* condition is True, and a ProviderID and addresses if it has an InstanceState,
\* unless one of the requests of a patch was lost.  A reconcile that worked from
\* a stale copy cannot break this: ProviderID and addresses, once stored, are
\* taken back by deletion only, so whatever copy a reconcile starts from, what
\* it adds to it fits what is stored.
THEOREM StatusComplete == Spec => []StateComplete
  <1>1. Init => AllWhole
    BY GoneFields DEF Init, AllWhole, WholeFor, Whole, After
  <1>2. TypeOK /\ Course /\ AllWhole /\ [Next]_vars => AllWhole'
    BY WholeKeeps
  <1>3. AllWhole => StateComplete
    BY DEF AllWhole, WholeFor, Whole, StateComplete
  <1> QED
    BY <1>1, <1>2, <1>3, TypeCorrect, CourseOfReconcile, PTL DEF Spec

-----------------------------------------------------------------------------
(***************************************************************************)
(* The ProviderID, once stored.                                            *)
(***************************************************************************)
\* The API never has two live instances with the same label.
OneLive ==
    \A i, j \in InstanceIDs : Live(i) /\ Live(j) /\ inst[i].label = inst[j].label => i = j

\* The API refuses a label that a live instance bears.
LEMMA OneLiveKeeps ==
  ASSUME TypeOK, OneLive, [Next]_vars
  PROVE  OneLive'
  <1>1. CASE \A j \in InstanceIDs : Onward(inst[j], inst'[j])
    BY Zenon, <1>1 DEF OneLive, Onward, Live
  <1>2. ASSUME NEW m \in Machines, NEW k \in InstanceIDs, NewInstance(m, k) PROVE OneLive'
    <2>0. ~LabelTaken(LabelOf[m])
      BY Zenon, <1>2 DEF NewInstance
    <2>1. /\ inst'[k].label = LabelOf[m]
          /\ \A i \in InstanceIDs \ {k} : inst'[i] = inst[i]
      BY Zenon, <1>2, NewInstanceEffect
    <2> SUFFICES ASSUME NEW i \in InstanceIDs, NEW j \in InstanceIDs, Live(i)', Live(j)',
                        inst'[i].label = inst'[j].label
                 PROVE  i = j
      BY Zenon DEF OneLive
    <2>2. CASE i = k \/ j = k
      BY <2>0, <2>1, <2>2 DEF Live, LabelTaken
    <2>3. CASE i # k /\ j # k
      BY <2>1, <2>3 DEF Live, OneLive
    <2> QED
      BY <2>2, <2>3
  <1> QED
    BY Zenon, <1>1, <1>2, InstanceEffect

\* A ProviderID that a reconcile has found or created names the instance that
\* the stored object names, if that one is live.
ReplacedFor(m) ==
    scope[m].providerID \notin {None, base[m].providerID} =>
        obj[m].providerID = scope[m].providerID \/ ~Live(obj[m].providerID)

Replaced == \A m \in Machines : ReplacedFor(m)

\* No step of a reconcile names a second instance while the stored one lives.
LEMMA ReplacedKeeps ==
  ASSUME TypeOK, TypeOK', ProviderIDHasLabel, ProviderIDHasLabel', OneLive', Replaced, [Next]_vars
  PROVE  Replaced'
  <1> SUFFICES ASSUME NEW n \in Machines PROVE ReplacedFor(n)'
    BY DEF Replaced
  <1>r. ReplacedFor(n)
    BY DEF Replaced
  <1>o. scope[n] \in LinodeMachineObject
    BY DEF TypeOK
  <1>a. obj[n].providerID # None /\ inst'[obj[n].providerID].state \in Status =>
           Live(obj[n].providerID)
    BY Zenon, NotBack
  \* A step that leaves the ProviderIDs of n alone.
  <1>s. ASSUME scope'[n].providerID = scope[n].providerID, base'[n] = base[n],
               obj'[n].providerID \in {None, obj[n].providerID}
        PROVE  ReplacedFor(n)'
    BY <1>s, <1>r, <1>a DEF ReplacedFor, Live
  <1>1. CASE Untouched(n) \/ Informs(n) \/ LosesSecret(n)
    BY <1>1, <1>s DEF Untouched, Informs, LosesSecret
  <1>2. CASE Begins(n)
    BY <1>2 DEF Begins, ReplacedFor
  <1>3. CASE TakesFinalizer(n)
    BY <1>3, <1>s DEF TakesFinalizer, Finalized, SameSpec
  <1>4. CASE Climbs(n) \/ TakesSecret(n) \/ MakesDisks(n) \/ Boots(n) \/ Reports(n)
    BY <1>4, <1>s, QuietSteps
  <1>5. CASE Creates(n) \/ Adopts(n)
    <2>1. /\ UNCHANGED <<obj, base>>
          /\ \/ scope'[n] = scope[n]
             \/ \E i \in InstanceIDs : /\ scope'[n] = WithInstance(scope[n], i)
                                       /\ NewInstance(n, i) \/ (Live(i) /\ UNCHANGED inst)
      BY <1>5 DEF Creates, Adopts, ListInstances
    <2>2. CASE scope'[n] = scope[n]
      BY <2>1, <2>2, <1>s
    <2>3. ASSUME NEW i \in InstanceIDs, scope'[n] = WithInstance(scope[n], i),
                 NewInstance(n, i) \/ (Live(i) /\ UNCHANGED inst)
          PROVE  ReplacedFor(n)'
      <3>0. i # None
        BY MachineAssumptions
      <3>1. scope'[n].providerID = i
        <4>1. WithInstance(scope[n], i).providerID = i
          BY Zenon, <1>o, InstanceFields
        <4> QED
          BY Zenon, <4>1, <2>3
      <3>2. inst'[i].state \in Status
        <4>1. NewInstance(n, i) => inst'[i].state = "offline"
          BY Zenon, NewInstanceEffect
        <4> QED
          BY <4>1, <2>3 DEF Live, Status
      <3>3. \A o \in {obj'[n], scope'[n]} : o.providerID # None =>
               o.providerID \in InstanceIDs /\ inst'[o.providerID].label = LabelOf[n]
        <4>1. \A o \in {obj'[n], scope'[n]} : o \in LinodeMachineObject
          BY DEF TypeOK
        <4>2. \A o \in {obj'[n], scope'[n]} : o.providerID # None => o.providerID \in InstanceIDs
          BY <4>1 DEF LinodeMachineObject
        <4> QED
          BY Zenon, <4>2 DEF ProviderIDHasLabel
      <3>4. inst'[i].label = LabelOf[n]
        BY <3>0, <3>1, <3>3
      <3>5. Live(obj[n].providerID)' => obj'[n].providerID = i
        <4> SUFFICES ASSUME obj'[n].providerID # None, inst'[obj'[n].providerID].state \in Status
                     PROVE  obj'[n].providerID = i
          BY DEF Live
        <4>1. obj'[n].providerID \in InstanceIDs /\ inst'[obj'[n].providerID].label = LabelOf[n]
          BY Zenon, <3>3
        <4>2. \A j \in InstanceIDs : j # None /\ inst'[j].state \in Status
                                     /\ inst'[j].label = LabelOf[n] => j = i
          BY Zenon, <3>0, <3>2, <3>4 DEF OneLive, Live
        <4> QED
          BY Zenon, <4>1, <4>2
      <3> QED
        BY Zenon, <3>1, <3>5 DEF ReplacedFor
    <2> QED
      BY Zenon, <2>1, <2>2, <2>3
  <1>6. CASE Deletes(n)
    <2>1. /\ UNCHANGED <<obj, base>>
          /\ scope'[n] = scope[n] \/ scope'[n] = WithoutInstance(scope[n])
      BY <1>6 DEF Deletes
    <2>2. WithoutInstance(scope[n]).providerID = None
      BY Zenon, <1>o, InstanceFields
    <2>3. CASE scope'[n] = scope[n]
      BY <2>1, <2>3, <1>s
    <2>4. CASE scope'[n] = WithoutInstance(scope[n])
      BY <2>2, <2>4 DEF ReplacedFor
    <2> QED
      BY <2>1, <2>3, <2>4
  <1>7. CASE Releases(n)
    BY <1>7, <1>s DEF Releases, Finalized, SameSpec
  <1>8. CASE Closes(n) \/ Crashes
    BY <1>8, GoneFields DEF Closes, Crashes, ReplacedFor
  <1>9. CASE Terminates(n)
    <2>1. obj'[n].providerID \in {None, obj[n].providerID}
      BY <1>9, TerminatedObject, GoneFields DEF SameSpec
    <2> QED
      BY <2>1, <1>9, <1>s DEF Terminates
  <1> QED
    BY Zenon, <1>1, <1>2, <1>3, <1>4, <1>5, <1>6, <1>7, <1>8, <1>9, MachineEffect DEF Works

\* A stored ProviderID gives way to another only when the instance it named is
\* gone, whatever faults happen and whatever labels the machines share: a
\* reconcile that starts from a stale copy without a ProviderID finds the label
\* taken and adopts the very instance that the stored object names.
THEOREM ProviderIDNotReplaced == Spec => ProviderIDStable
  <1>1. ASSUME Init PROVE OneLive /\ Replaced
    <2>1. OneLive
      BY <1>1 DEF Init, OneLive, Live, Unused, Status
    <2>2. \A m \in Machines : scope[m].providerID = None
      BY <1>1, GoneFields DEF Init
    <2> QED
      BY <2>1, <2>2 DEF Replaced, ReplacedFor
  <1>2. TypeOK /\ OneLive /\ [Next]_vars => OneLive'
    BY OneLiveKeeps
  <1>3. TypeOK /\ TypeOK' /\ ProviderIDHasLabel /\ ProviderIDHasLabel' /\ OneLive' /\ Replaced
        /\ [Next]_vars => Replaced'
    BY ReplacedKeeps
  <1>4. TypeOK /\ Replaced /\ [Next]_vars =>
           [\A m \in Machines :
               obj[m].providerID # None /\ obj'[m].providerID \notin {None, obj[m].providerID}
                  => ~Live(obj[m].providerID)]_vars
    <2> SUFFICES ASSUME TypeOK, Replaced, [Next]_vars, NEW n \in Machines,
                        obj[n].providerID # None,
                        obj'[n].providerID \notin {None, obj[n].providerID}
                 PROVE  ~Live(obj[n].providerID)
      OBVIOUS
    <2>1. Closes(n)
      <3>1. TakesFinalizer(n) => obj'[n].providerID = obj[n].providerID
        BY DEF TakesFinalizer, Finalized, SameSpec
      <3>2. Terminates(n) => obj'[n].providerID \in {None, obj[n].providerID}
        BY TerminatedObject, GoneFields DEF SameSpec
      <3>3. obj'[n] # obj[n]
        OBVIOUS
      <3> QED
        BY Zenon, <3>1, <3>2, <3>3, MachineEffect
           DEF Works, Untouched, Informs, LosesSecret, Crashes, Begins, Climbs, TakesSecret,
               Creates, Adopts, MakesDisks, Boots, Reports, Deletes, Releases
    <2>2. obj[n].exists
      BY <2>1 DEF Closes
    <2>3. /\ obj'[n].providerID = scope[n].providerID
          /\ scope[n].providerID # base[n].providerID
      BY <2>1, <2>2, ClosedObject, GoneFields DEF PatchOf, Merged
    <2> QED
      BY <2>3 DEF Replaced, ReplacedFor
  <1> QED
    BY <1>1, <1>2, <1>3, <1>4, TypeCorrect, ProviderIDCorrect, PTL DEF Spec, ProviderIDStable

=============================================================================
