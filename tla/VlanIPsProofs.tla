--------------------------- MODULE VlanIPsProofs ---------------------------
(***************************************************************************)
(* Proofs about VlanIPs, for any number of machines, lists and faults.     *)
(*                                                                         *)
(*   TypeOK, Finite  the types of the state; lists are finite, so that     *)
(*                   getNextIP always finds an address                     *)
(*   MachineInv      a machine, its copies, its reconcile and its          *)
(*                   instance; AddressIsReal                               *)
(*   Listed          what the list, or the cache without one, knows        *)
(*   Distinct        addresses of the machines that are not lost differ;   *)
(*                   UniqueUnlessLost                                      *)
(***************************************************************************)
EXTENDS VlanIPs, FiniteSetTheorems, TLAPS

-----------------------------------------------------------------------------
(***************************************************************************)
(* Types.                                                                  *)
(***************************************************************************)
Finite == \A l \in Lists : IsFiniteSet(ips[l])

\* The steps of the reconcile of one machine, and of its object.
MachineStep(m) ==
    \/ Reconcile(m) \/ getClusterIPs(m) \/ GetNextVlanIP(m) \/ createInstance(m)
    \/ reconcilePreflightReady(m) \/ reconcileDelete(m) \/ Close(m)
    \/ CacheSync(m) \/ UserCreate(m) \/ UserDelete(m)

\* The steps around them.
ClusterStep == UserDeletesCluster \/ UserCreatesCluster \/ DeleteClusterIPs

\* Every step is one of these.
LEMMA Steps == Next <=> (\E m \in Machines : MachineStep(m)) \/ ClusterStep \/ Crash
BY Zenon DEF Next, MachineStep, ClusterStep

\* A fault leaves a smaller budget.
LEMMA FaultBudget ==
  ASSUME budget \in 0..MaxFaults, NEW f, Fault(f) PROVE budget' \in 0..MaxFaults
BY VlanAssumptions DEF Fault

\* Absent is a machine object without an address.
LEMMA AbsentFields ==
  /\ Absent \in LinodeMachineObject /\ [Absent EXCEPT !.phase = "gone"] \in LinodeMachineObject
  /\ Absent.phase = "absent" /\ Absent.address = 0 /\ ~Absent.providerID
  /\ [Absent EXCEPT !.phase = "gone"].phase = "gone" /\ [Absent EXCEPT !.phase = "gone"].address = 0
BY DEF Absent, LinodeMachineObject

\* What changing one field of a machine object does: its phase, ...
LEMMA PhaseUpdate ==
  ASSUME NEW o \in LinodeMachineObject, NEW p \in {"absent", "present", "deleting", "gone"}
  PROVE  LET u == [o EXCEPT !.phase = p]
         IN  u \in LinodeMachineObject /\ u.phase = p /\ u.address = o.address
BY DEF LinodeMachineObject

\* ... its ProviderID, ...
LEMMA ProviderIDUpdate ==
  ASSUME NEW o \in LinodeMachineObject
  PROVE  LET u == [o EXCEPT !.providerID = TRUE]
         IN  u \in LinodeMachineObject /\ u.phase = o.phase /\ u.address = o.address
BY DEF LinodeMachineObject

\* ... and its address.
LEMMA AddressUpdate ==
  ASSUME NEW o \in LinodeMachineObject, NEW a \in Nat
  PROVE  LET u == [o EXCEPT !.address = a]
         IN  u \in LinodeMachineObject /\ u.phase = o.phase /\ u.address = a
BY DEF LinodeMachineObject

\* The merge patch: a released machine is gone, otherwise its phase stays, and its
\* address comes from the scope if the reconcile changed it.
LEMMA PatchedFields ==
  ASSUME NEW o \in LinodeMachineObject, NEW b \in LinodeMachineObject,
         NEW s \in LinodeMachineObject, NEW parts
  PROVE  LET p == Patched(o, b, s, parts)
         IN  /\ p \in LinodeMachineObject
             /\ \/ p.phase = "gone" /\ p.address = 0 /\ s.phase = "gone"
                \/ /\ p.phase = o.phase
                   /\ p.address # o.address => p.address = s.address /\ s.address # b.address
<1> DEFINE id == IF "object" \in parts /\ b.providerID # s.providerID THEN s.providerID ELSE o.providerID
           ad == IF "status" \in parts /\ b.address # s.address THEN s.address ELSE o.address
           u == [o EXCEPT !.providerID = id, !.address = ad]
<1>1. id \in BOOLEAN
  BY Zenon DEF LinodeMachineObject
<1>2. ad \in Nat /\ (ad # o.address => ad = s.address /\ s.address # b.address)
  BY DEF LinodeMachineObject
<1>3. CASE "object" \in parts /\ s.phase = "gone"
  <2>1. Patched(o, b, s, parts) = [Absent EXCEPT !.phase = "gone"]
    BY Zenon, <1>3 DEF Patched
  <2> QED
    BY Zenon, <1>3, <2>1, AbsentFields
<1>4. CASE ~("object" \in parts /\ s.phase = "gone")
  <2>1. Patched(o, b, s, parts) = u
    BY Zenon, <1>4 DEF Patched
  <2> HIDE DEF id, ad
  <2>2. u \in LinodeMachineObject /\ u.phase = o.phase /\ u.address = ad
    BY <1>1, <1>2 DEF LinodeMachineObject
  <2> QED
    BY Zenon, <1>2, <2>1, <2>2
<1> QED
  BY Zenon, <1>3, <1>4

\* A new list is finite: there are finitely many machines to read it from.
LEMMA ExistingAddresses ==
  ASSUME TypeOK
  PROVE  getExistingIPsForCluster \in SUBSET Nat /\ IsFiniteSet(getExistingIPsForCluster)
<1> DEFINE S == {n \in Machines : Exists(seen[n])}
           f == [m \in S |-> seen[m].address]
           T == {seen[m].address : m \in S}
<1>1. IsFiniteSet(S)
  BY Zenon, FS_Subset, VlanAssumptions DEF VlanAssumptions
<1>2. f \in Surjection(S, T)
  BY DEF Surjection
<1>3. IsFiniteSet(T)
  <2> HIDE DEF S, T, f
  <2> QED
    BY Zenon, <1>1, <1>2, FS_Surjection
<1>4. IsFiniteSet(T \ {0})
  <2> HIDE DEF T
  <2> QED
    BY Zenon, <1>3, FS_RemoveElement
<1>5. T \subseteq Nat
  BY DEF TypeOK, LinodeMachineObject
<1> QED
  BY <1>4, <1>5 DEF getExistingIPsForCluster

\* getNextIP hands out a positive address that the list did not have.
LEMMA NextAddress ==
  ASSUME TypeOK, Finite, NEW m \in Machines, held[m] \in Lists, getNextIP(m)
  PROVE  \E a \in Nat \ {0} :
            /\ a \notin ips[held[m]] /\ ip' = [ip EXCEPT ![m] = a]
            /\ ips' = [ips EXCEPT ![held[m]] = @ \cup {a}]
            /\ IsFiniteSet(ips[held[m]] \cup {a})
<1>1. IsFiniteSet(ips[held[m]])
  BY Zenon DEF Finite
<1>2. Cardinality(ips[held[m]]) \in Nat
  BY Zenon, <1>1, FS_CardinalityType
<1>3. PICK a \in 1..(Cardinality(ips[held[m]]) + 1) :
        /\ a \notin ips[held[m]] /\ ip' = [ip EXCEPT ![m] = a]
        /\ ips' = [ips EXCEPT ![held[m]] = @ \cup {a}]
  BY Zenon DEF getNextIP
<1>4. a \in Nat \ {0}
  BY <1>2, <1>3
<1>5. IsFiniteSet(ips[held[m]] \cup {a})
  BY Zenon, <1>1, FS_AddElement
<1> QED
  BY Zenon, <1>3, <1>4, <1>5

\* Where the reconcile has an address and a list.
Handed(m) ==
    /\ pc[m] # "post" => ip[m] = 0
    /\ pc[m] \in {"next", "post"} => held[m] \in Lists

-----------------------------------------------------------------------------
(***************************************************************************)
(* What a step does to one machine, by what it does to its copies.         *)
(***************************************************************************)
\* Nothing.
Untouched(m) == UNCHANGED <<obj[m], seen[m], inst[m], pc[m], scope[m], base[m], held[m], ip[m]>>

\* Reconcile.
Begins(m) ==
    /\ pc[m] = "idle" /\ Exists(seen[m])
    /\ scope'[m] = seen[m] /\ base'[m] = seen[m]
    /\ \/ seen[m].phase = "deleting" /\ pc'[m] = "delete"
       \/ seen[m].phase = "present" /\ seen[m].address = 0 /\ pc'[m] \in {"ready", "list"}
    /\ UNCHANGED <<obj[m], seen[m], inst[m], held[m], ip[m]>>

\* getClusterIPs and GetNextVlanIP.
Takes(m) ==
    /\ \/ /\ pc[m] = "list" /\ pc'[m] = "next"
          /\ entry' \in Lists /\ held'[m] = entry' /\ ip'[m] = ip[m]
       \/ pc[m] = "list" /\ pc'[m] = "requeue" /\ held'[m] = held[m] /\ ip'[m] = ip[m]
       \/ /\ pc[m] = "next" /\ pc'[m] = "post" /\ held'[m] = held[m]
          /\ ip'[m] \in Nat /\ ip'[m] \in ips'[held[m]] \ ips[held[m]]
    /\ UNCHANGED <<obj[m], seen[m], inst[m], scope[m], base[m]>>

\* createInstance.
Makes(m) ==
    /\ pc[m] = "post" /\ pc'[m] \in {"ready", "requeue"}
    /\ inst'[m] = inst[m] \/ (inst[m] = 0 /\ inst'[m] = ip[m])
    /\ scope'[m] \in LinodeMachineObject
    /\ scope'[m].phase = scope[m].phase /\ scope'[m].address = scope[m].address
    /\ held'[m] = None /\ ip'[m] = 0
    /\ UNCHANGED <<obj[m], seen[m], base[m]>>

\* reconcilePreflightReady.
Records(m) ==
    /\ pc[m] = "ready" /\ pc'[m] \in {"return", "requeue"}
    /\ scope'[m] \in LinodeMachineObject /\ scope'[m].phase = scope[m].phase
    /\ scope'[m].address = scope[m].address \/ (inst[m] # 0 /\ scope'[m].address = inst[m])
    /\ UNCHANGED <<obj[m], seen[m], inst[m], base[m], held[m], ip[m]>>

\* reconcileDelete.
Removes(m) ==
    /\ pc[m] = "delete" /\ pc'[m] \in {"return", "requeue"}
    /\ inst'[m] \in {inst[m], 0}
    /\ scope'[m] \in LinodeMachineObject
    /\ scope'[m].phase \in {scope[m].phase, "gone"} /\ scope'[m].address = scope[m].address
    /\ UNCHANGED <<obj[m], seen[m], base[m], held[m], ip[m]>>

\* Close.
Closes(m) ==
    /\ pc[m] \in {"return", "requeue"} /\ pc'[m] = "idle"
    /\ scope'[m] = Absent /\ base'[m] = Absent
    /\ obj'[m] \in LinodeMachineObject
    /\ \/ obj'[m] = obj[m]
       \/ Exists(obj[m]) /\ obj'[m].phase = "gone" /\ obj'[m].address = 0 /\ scope[m].phase = "gone"
       \/ /\ Exists(obj[m]) /\ obj'[m].phase = obj[m].phase
          /\ obj'[m].address # obj[m].address =>
                obj'[m].address = scope[m].address /\ scope[m].address # base[m].address
    /\ UNCHANGED <<seen[m], inst[m], held[m], ip[m]>>

\* CacheSync.
Syncs(m) ==
    /\ seen'[m] = obj[m]
    /\ UNCHANGED <<obj[m], inst[m], pc[m], scope[m], base[m], held[m], ip[m]>>

\* UserCreate and UserDelete.
Edits(m) ==
    /\ \/ obj[m].phase = "absent" /\ obj'[m].phase = "present"
       \/ obj[m].phase = "present" /\ obj'[m].phase = "deleting"
    /\ obj'[m] \in LinodeMachineObject /\ obj'[m].address = obj[m].address
    /\ UNCHANGED <<seen[m], inst[m], pc[m], scope[m], base[m], held[m], ip[m]>>

\* Crash.
Restarts(m) ==
    /\ pc'[m] = "idle" /\ scope'[m] = Absent /\ base'[m] = Absent /\ held'[m] = None /\ ip'[m] = 0
    /\ seen'[m] = obj[m]
    /\ UNCHANGED <<obj[m], inst[m]>>

OwnEffect(m) ==
    Begins(m) \/ Takes(m) \/ Makes(m) \/ Records(m) \/ Removes(m) \/ Closes(m) \/ Syncs(m) \/ Edits(m)

\* The step of a machine is one of these for it, and nothing for another one.
LEMMA MachineEffect ==
  ASSUME TypeOK, Finite, NEW q \in Machines, Handed(q), MachineStep(q)
  PROVE  OwnEffect(q) /\ \A m \in Machines \ {q} : Untouched(m)
<1>t. /\ obj \in [Machines -> LinodeMachineObject] /\ seen \in [Machines -> LinodeMachineObject]
      /\ scope \in [Machines -> LinodeMachineObject] /\ base \in [Machines -> LinodeMachineObject]
      /\ inst \in [Machines -> Nat] /\ ip \in [Machines -> Nat]
      /\ held \in [Machines -> Lists \cup {None}]
      /\ DOMAIN pc = Machines
  BY DEF TypeOK
<1>o. /\ obj[q] \in LinodeMachineObject /\ seen[q] \in LinodeMachineObject
      /\ scope[q] \in LinodeMachineObject /\ base[q] \in LinodeMachineObject
  BY <1>t
<1>n. inst[q] \in Nat /\ ip[q] \in Nat
  BY <1>t
<1>p. \A l : Goto(q, l) => pc'[q] = l /\ \A m \in Machines \ {q} : pc'[m] = pc[m]
  BY <1>t DEF Goto
<1>1. CASE Reconcile(q)
  <2>1. /\ pc[q] = "idle" /\ Exists(seen[q]) /\ (seen[q].phase = "present" => seen[q].address = 0)
        /\ scope' = [scope EXCEPT ![q] = seen[q]] /\ base' = [base EXCEPT ![q] = seen[q]]
        /\ UNCHANGED <<obj, seen, inst, held, ip>>
    BY Zenon, <1>1 DEF Reconcile
  <2>2. /\ seen[q].phase = "deleting" => Goto(q, "delete")
        /\ seen[q].phase = "present" => Goto(q, "ready") \/ Goto(q, "list")
    BY <1>1 DEF Reconcile
  <2>3. seen[q].phase \in {"present", "deleting"}
    BY Zenon, <2>1 DEF Exists
  <2>4. Begins(q)
    BY <2>1, <2>2, <2>3, <1>p, <1>t DEF Begins
  <2>5. \A m \in Machines \ {q} : Untouched(m)
    BY <2>1, <2>2, <2>3, <1>p, <1>t DEF Untouched
  <2> QED
    BY Zenon, <2>4, <2>5 DEF OwnEffect
<1>2. CASE getClusterIPs(q)
  <2>1. pc[q] = "list" /\ UNCHANGED <<obj, seen, inst, scope, base, ip>>
    BY Zenon, <1>2 DEF getClusterIPs
  <2>2. \/ Goto(q, "next") /\ \E l \in Lists : entry' = l /\ held' = [held EXCEPT ![q] = l]
        \/ Goto(q, "requeue") /\ UNCHANGED held
    BY Zenon, <1>2 DEF getClusterIPs, TypeOK
  <2>3. Takes(q)
    BY <2>1, <2>2, <1>p, <1>t DEF Takes
  <2>4. \A m \in Machines \ {q} : Untouched(m)
    BY <2>1, <2>2, <1>p, <1>t DEF Untouched
  <2> QED
    BY Zenon, <2>3, <2>4 DEF OwnEffect
<1>3. CASE GetNextVlanIP(q)
  <2>1. pc[q] = "next" /\ Goto(q, "post") /\ UNCHANGED <<obj, seen, inst, scope, base, held>>
    BY Zenon, <1>3 DEF GetNextVlanIP
  <2>h. held[q] \in Lists /\ ips \in [Lists -> SUBSET Nat]
    BY Zenon, <2>1 DEF Handed, TypeOK
  <2>2. \E a \in Nat \ {0} : /\ a \notin ips[held[q]] /\ ip' = [ip EXCEPT ![q] = a]
                            /\ ips' = [ips EXCEPT ![held[q]] = @ \cup {a}]
    BY Zenon, <1>3, <2>h, NextAddress DEF GetNextVlanIP
  <2>3. Takes(q)
    BY <2>1, <2>2, <2>h, <1>p, <1>t DEF Takes
  <2>4. \A m \in Machines \ {q} : Untouched(m)
    BY <2>1, <2>2, <1>p, <1>t DEF Untouched
  <2> QED
    BY Zenon, <2>3, <2>4 DEF OwnEffect
<1>4. CASE createInstance(q)
  <2>1. /\ pc[q] = "post" /\ (Goto(q, "ready") \/ Goto(q, "requeue"))
        /\ held' = [held EXCEPT ![q] = None] /\ ip' = [ip EXCEPT ![q] = 0]
        /\ UNCHANGED <<obj, seen, base>>
    BY Zenon, <1>4 DEF createInstance
  <2>2. UNCHANGED inst \/ (inst[q] = 0 /\ inst' = [inst EXCEPT ![q] = ip[q]])
    BY <1>4, <1>t DEF createInstance
  <2>3. UNCHANGED scope \/ scope' = [scope EXCEPT ![q] = [scope[q] EXCEPT !.providerID = TRUE]]
    BY <1>4 DEF createInstance
  <2>u. LET u == [scope[q] EXCEPT !.providerID = TRUE]
        IN  u \in LinodeMachineObject /\ u.phase = scope[q].phase /\ u.address = scope[q].address
    BY Zenon, <1>o, ProviderIDUpdate
  <2>s. scope'[q] \in {scope[q], [scope[q] EXCEPT !.providerID = TRUE]}
    BY <2>3, <1>t
  <2>f. scope'[q] \in LinodeMachineObject /\ scope'[q].phase = scope[q].phase
        /\ scope'[q].address = scope[q].address
    BY Zenon, <2>u, <2>s, <1>o
  <2>4. Makes(q)
    BY <2>1, <2>2, <2>f, <1>p, <1>t DEF Makes
  <2>5. \A m \in Machines \ {q} : Untouched(m)
    BY <2>1, <2>2, <2>3, <1>p, <1>t DEF Untouched
  <2> QED
    BY Zenon, <2>4, <2>5 DEF OwnEffect
<1>5. CASE reconcilePreflightReady(q)
  <2>1. /\ pc[q] = "ready" /\ (Goto(q, "return") \/ Goto(q, "requeue"))
        /\ UNCHANGED <<obj, seen, inst, base, held, ip>>
    BY Zenon, <1>5 DEF reconcilePreflightReady
  <2>2. \/ UNCHANGED scope
        \/ inst[q] # 0 /\ scope' = [scope EXCEPT ![q] = [scope[q] EXCEPT !.address = inst[q]]]
    BY <1>5 DEF reconcilePreflightReady, handleVlanIps
  <2>u. LET u == [scope[q] EXCEPT !.address = inst[q]]
        IN  u \in LinodeMachineObject /\ u.phase = scope[q].phase /\ u.address = inst[q]
    BY Zenon, <1>o, <1>n, AddressUpdate
  <2>s. scope'[q] = scope[q] \/ (inst[q] # 0 /\ scope'[q] = [scope[q] EXCEPT !.address = inst[q]])
    BY <2>2, <1>t
  <2>f. scope'[q] \in LinodeMachineObject /\ scope'[q].phase = scope[q].phase
        /\ (scope'[q].address = scope[q].address \/ (inst[q] # 0 /\ scope'[q].address = inst[q]))
    BY Zenon, <2>u, <2>s, <1>o
  <2>3. Records(q)
    BY <2>1, <2>f, <1>p, <1>t DEF Records
  <2>4. \A m \in Machines \ {q} : Untouched(m)
    BY <2>1, <2>2, <1>p, <1>t DEF Untouched
  <2> QED
    BY Zenon, <2>3, <2>4 DEF OwnEffect
<1>6. CASE reconcileDelete(q)
  <2>1. /\ pc[q] = "delete" /\ (Goto(q, "return") \/ Goto(q, "requeue"))
        /\ UNCHANGED <<obj, seen, base, held, ip>>
    BY Zenon, <1>6 DEF reconcileDelete
  <2>2. UNCHANGED inst \/ inst' = [inst EXCEPT ![q] = 0]
    BY <1>6, <1>t DEF reconcileDelete
  <2>3. UNCHANGED scope \/ scope' = [scope EXCEPT ![q] = [scope[q] EXCEPT !.phase = "gone"]]
    BY <1>6 DEF reconcileDelete
  <2>u. LET u == [scope[q] EXCEPT !.phase = "gone"]
        IN  u \in LinodeMachineObject /\ u.phase = "gone" /\ u.address = scope[q].address
    BY Zenon, <1>o, PhaseUpdate
  <2>s. scope'[q] \in {scope[q], [scope[q] EXCEPT !.phase = "gone"]}
    BY <2>3, <1>t
  <2>f. scope'[q] \in LinodeMachineObject /\ scope'[q].phase \in {scope[q].phase, "gone"}
        /\ scope'[q].address = scope[q].address
    BY Zenon, <2>u, <2>s, <1>o
  <2>4. Removes(q)
    BY <2>1, <2>2, <2>f, <1>p, <1>t DEF Removes
  <2>5. \A m \in Machines \ {q} : Untouched(m)
    BY <2>1, <2>2, <2>3, <1>p, <1>t DEF Untouched
  <2> QED
    BY Zenon, <2>4, <2>5 DEF OwnEffect
<1>7. CASE Close(q)
  <2>1. /\ pc[q] \in {"return", "requeue"} /\ Goto(q, "idle")
        /\ scope' = [scope EXCEPT ![q] = Absent] /\ base' = [base EXCEPT ![q] = Absent]
        /\ UNCHANGED <<seen, inst, held, ip>>
    BY Zenon, <1>7 DEF Close
  <2>2. \/ UNCHANGED obj
        \/ /\ Exists(obj[q])
           /\ \E parts : obj' = [obj EXCEPT ![q] = Patched(obj[q], base[q], scope[q], parts)]
    BY <1>7 DEF Close
  <2>3. CASE UNCHANGED obj
    <3>1. Closes(q)
      BY <2>1, <2>3, <1>p, <1>t DEF Closes
    <3>2. \A m \in Machines \ {q} : Untouched(m)
      BY <2>1, <2>3, <1>p, <1>t DEF Untouched
    <3> QED
      BY Zenon, <3>1, <3>2 DEF OwnEffect
  <2>4. ASSUME Exists(obj[q]), NEW parts,
               obj' = [obj EXCEPT ![q] = Patched(obj[q], base[q], scope[q], parts)]
        PROVE  OwnEffect(q) /\ \A m \in Machines \ {q} : Untouched(m)
    <3> DEFINE p == Patched(obj[q], base[q], scope[q], parts)
    <3>1. /\ p \in LinodeMachineObject
          /\ \/ p.phase = "gone" /\ p.address = 0 /\ scope[q].phase = "gone"
             \/ /\ p.phase = obj[q].phase
                /\ p.address # obj[q].address =>
                      p.address = scope[q].address /\ scope[q].address # base[q].address
      BY <1>o, PatchedFields
    <3>2. obj' = [obj EXCEPT ![q] = p]
      BY Zenon, <2>4
    <3> HIDE DEF p
    <3>3. obj'[q] = p /\ \A m \in Machines \ {q} : obj'[m] = obj[m]
      BY <3>2, <1>t
    <3>4. Closes(q)
      BY <2>1, <2>4, <3>1, <3>3, <1>p, <1>t DEF Closes
    <3>5. \A m \in Machines \ {q} : Untouched(m)
      BY <2>1, <3>3, <1>p, <1>t DEF Untouched
    <3> QED
      BY Zenon, <3>4, <3>5 DEF OwnEffect
  <2> QED
    BY Zenon, <2>2, <2>3, <2>4
<1>8. CASE CacheSync(q)
  <2>1. Syncs(q) /\ \A m \in Machines \ {q} : Untouched(m)
    BY <1>8, <1>t DEF CacheSync, ctrlVars, Syncs, Untouched
  <2> QED
    BY Zenon, <2>1 DEF OwnEffect
<1>9. CASE UserCreate(q) \/ UserDelete(q)
  <2>1. UNCHANGED <<seen, inst, ctrlVars>>
    BY Zenon, <1>9 DEF UserCreate, UserDelete
  <2>2. \/ obj[q].phase = "absent" /\ obj' = [obj EXCEPT ![q] = [obj[q] EXCEPT !.phase = "present"]]
        \/ obj[q].phase = "present" /\ obj' = [obj EXCEPT ![q] = [obj[q] EXCEPT !.phase = "deleting"]]
    BY <1>9 DEF UserCreate, UserDelete
  <2>u. ASSUME NEW p \in {"present", "deleting"}
        PROVE  LET u == [obj[q] EXCEPT !.phase = p]
               IN  u \in LinodeMachineObject /\ u.phase = p /\ u.address = obj[q].address
    <3>1. p \in {"absent", "present", "deleting", "gone"}
      OBVIOUS
    <3> QED
      BY Zenon, <1>o, <3>1, PhaseUpdate
  <2>s. \/ obj[q].phase = "absent" /\ obj'[q] = [obj[q] EXCEPT !.phase = "present"]
        \/ obj[q].phase = "present" /\ obj'[q] = [obj[q] EXCEPT !.phase = "deleting"]
    BY <2>2, <1>t
  <2>f. /\ (obj[q].phase = "absent" /\ obj'[q].phase = "present")
           \/ (obj[q].phase = "present" /\ obj'[q].phase = "deleting")
        /\ obj'[q] \in LinodeMachineObject /\ obj'[q].address = obj[q].address
    BY Zenon, <2>u, <2>s
  <2>3. Edits(q)
    BY Zenon, <2>1, <2>f DEF Edits, ctrlVars
  <2>4. \A m \in Machines \ {q} : Untouched(m)
    BY <2>1, <2>2, <1>t DEF Untouched, ctrlVars
  <2> QED
    BY Zenon, <2>3, <2>4 DEF OwnEffect
<1> QED
  BY Zenon, <1>1, <1>2, <1>3, <1>4, <1>5, <1>6, <1>7, <1>8, <1>9 DEF MachineStep

\* The other steps do nothing to a machine, or restart its reconcile.
LEMMA OtherEffect ==
  /\ ClusterStep => UNCHANGED <<obj, seen, inst, pc, scope, base, held, ip>>
  /\ ClusterStep => \A m \in Machines : Untouched(m)
  /\ Crash => \A m \in Machines : Restarts(m)
<1>1. ClusterStep => UNCHANGED <<obj, seen, inst, pc, scope, base, held, ip>>
  BY Zenon DEF ClusterStep, UserDeletesCluster, UserCreatesCluster, DeleteClusterIPs, ctrlVars
<1>2. ClusterStep => \A m \in Machines : Untouched(m)
  BY Zenon, <1>1 DEF Untouched
<1>3. Crash => \A m \in Machines : Restarts(m)
  BY DEF Crash, Restarts
<1> QED
  BY Zenon, <1>1, <1>2, <1>3

\* So every step does one of these things to a machine.
LEMMA StepEffect ==
  ASSUME TypeOK, Finite, \A m \in Machines : Handed(m), Next, NEW m \in Machines
  PROVE  Untouched(m) \/ OwnEffect(m) \/ Restarts(m)
BY Zenon, Steps, MachineEffect, OtherEffect

\* What a step does to the list of the cluster and to the addresses in it.
LEMMA ListStep ==
  ASSUME TypeOK, Finite, \A m \in Machines : Handed(m), Next
  PROVE  \/ UNCHANGED <<entry, ips, lost>>
         \/ \E m \in Machines, l \in Lists :
               /\ pc[m] = "list" /\ pc'[m] = "next" /\ entry = None /\ entry' = l /\ held'[m] = l
               /\ ips' = [ips EXCEPT ![l] = getExistingIPsForCluster] /\ UNCHANGED <<lost, inst, obj>>
         \/ \E m \in Machines, a \in Nat \ {0} :
               /\ pc[m] = "next" /\ pc'[m] = "post" /\ held[m] \in Lists /\ a \notin ips[held[m]]
               /\ ips' = [ips EXCEPT ![held[m]] = @ \cup {a}] /\ ip' = [ip EXCEPT ![m] = a]
               /\ IsFiniteSet(ips[held[m]] \cup {a})
               /\ UNCHANGED <<entry, lost>>
         \/ /\ DeleteClusterIPs /\ entry' = None /\ UNCHANGED ips
            /\ lost' = lost \cup Unrecorded(seen) \cup InFlight
         \/ /\ Crash /\ entry' = None /\ ips' = [l \in Lists |-> {}]
            /\ lost' = lost \cup Unrecorded(obj)
<1>1. ASSUME NEW m \in Machines, getClusterIPs(m), ~UNCHANGED <<entry, ips, lost>>
      PROVE  \E l \in Lists :
               /\ pc[m] = "list" /\ pc'[m] = "next" /\ entry = None /\ entry' = l /\ held'[m] = l
               /\ ips' = [ips EXCEPT ![l] = getExistingIPsForCluster] /\ UNCHANGED <<lost, inst, obj>>
  <2>1. PICK l \in Lists :
          /\ pc[m] = "list" /\ Goto(m, "next") /\ entry = None /\ entry' = l
          /\ held' = [held EXCEPT ![m] = l]
          /\ ips' = [ips EXCEPT ![l] = getExistingIPsForCluster] /\ UNCHANGED <<lost, inst, obj>>
    BY Zenon, <1>1 DEF getClusterIPs
  <2>2. pc'[m] = "next" /\ held'[m] = l
    BY <2>1 DEF Goto, TypeOK
  <2> QED
    BY Zenon, <2>1, <2>2
<1>2. ASSUME NEW m \in Machines, GetNextVlanIP(m)
      PROVE  \E a \in Nat \ {0} :
               /\ pc[m] = "next" /\ pc'[m] = "post" /\ held[m] \in Lists /\ a \notin ips[held[m]]
               /\ ips' = [ips EXCEPT ![held[m]] = @ \cup {a}] /\ ip' = [ip EXCEPT ![m] = a]
               /\ IsFiniteSet(ips[held[m]] \cup {a})
               /\ UNCHANGED <<entry, lost>>
  <2>1. pc[m] = "next" /\ getNextIP(m) /\ Goto(m, "post") /\ UNCHANGED <<entry, lost>>
    BY Zenon, <1>2 DEF GetNextVlanIP
  <2>2. pc'[m] = "post"
    BY <2>1 DEF Goto, TypeOK
  <2>3. held[m] \in Lists
    BY Zenon, <2>1 DEF Handed
  <2> QED
    BY Zenon, <2>1, <2>2, <2>3, NextAddress
<1>3. ASSUME NEW m \in Machines, MachineStep(m), ~getClusterIPs(m), ~GetNextVlanIP(m)
      PROVE  UNCHANGED <<entry, ips, lost>>
  BY Zenon, <1>3 DEF MachineStep, Reconcile, createInstance, reconcilePreflightReady,
       reconcileDelete,
     Close, CacheSync, UserCreate, UserDelete
<1>4. ASSUME ClusterStep, ~DeleteClusterIPs PROVE UNCHANGED <<entry, ips, lost>>
  BY Zenon, <1>4 DEF ClusterStep, UserDeletesCluster, UserCreatesCluster
<1>5. DeleteClusterIPs => /\ entry' = None /\ UNCHANGED ips
                          /\ lost' = lost \cup Unrecorded(seen) \cup InFlight
  BY Zenon DEF DeleteClusterIPs
<1>6. Crash => /\ entry' = None /\ ips' = [l \in Lists |-> {}]
               /\ lost' = lost \cup Unrecorded(obj)
  BY Zenon DEF Crash
<1> QED
  BY Zenon, <1>1, <1>2, <1>3, <1>4, <1>5, <1>6, Steps DEF MachineStep

\* The cluster and the budget.
LEMMA ClusterAndBudget ==
  ASSUME TypeOK, Next
  PROVE  cluster' \in {"up", "deleting", "gone"} /\ budget' \in 0..MaxFaults
<1>t. budget \in 0..MaxFaults /\ cluster \in {"up", "deleting", "gone"}
  BY DEF TypeOK
<1>1. UNCHANGED budget \/ \E f : Fault(f)
  BY Zenon, Steps DEF MachineStep, ClusterStep, Crash, Reconcile, getClusterIPs, GetNextVlanIP,
     createInstance, reconcilePreflightReady, reconcileDelete, Close, CacheSync, UserCreate, UserDelete,
     UserDeletesCluster, UserCreatesCluster, DeleteClusterIPs
<1>2. UNCHANGED cluster \/ cluster' = "up" \/ cluster' = "deleting" \/ cluster' = "gone"
  BY Zenon, Steps DEF MachineStep, ClusterStep, Crash, Reconcile, getClusterIPs, GetNextVlanIP,
     createInstance, reconcilePreflightReady, reconcileDelete, Close, CacheSync, UserCreate, UserDelete,
     UserDeletesCluster, UserCreatesCluster, DeleteClusterIPs
<1>3. budget' \in 0..MaxFaults
  BY Zenon, <1>1, <1>t, FaultBudget
<1> QED
  BY <1>2, <1>3, <1>t

TypeInv == TypeOK /\ Finite /\ \A m \in Machines : Handed(m)

\* Each machine keeps its type, its list and its address.
LEMMA MachineTyped ==
  ASSUME TypeInv, Next, NEW m \in Machines
  PROVE  /\ obj'[m] \in LinodeMachineObject /\ seen'[m] \in LinodeMachineObject
         /\ scope'[m] \in LinodeMachineObject /\ base'[m] \in LinodeMachineObject
         /\ inst'[m] \in Nat /\ ip'[m] \in Nat /\ held'[m] \in Lists \cup {None}
         /\ pc'[m] \in {"idle", "list", "next", "post", "ready", "delete", "return", "requeue"}
         /\ Handed(m)'
<1>t. /\ obj[m] \in LinodeMachineObject /\ seen[m] \in LinodeMachineObject
      /\ scope[m] \in LinodeMachineObject /\ base[m] \in LinodeMachineObject
      /\ inst[m] \in Nat /\ ip[m] \in Nat /\ held[m] \in Lists \cup {None}
      /\ pc[m] \in {"idle", "list", "next", "post", "ready", "delete", "return", "requeue"}
  BY DEF TypeInv, TypeOK
<1>h. Handed(m)
  BY Zenon DEF TypeInv
<1>1. CASE Untouched(m)
  BY <1>1, <1>t, <1>h DEF Untouched, Handed
<1>2. CASE Begins(m)
  BY <1>2, <1>t, <1>h DEF Begins, Handed
<1>3. CASE Takes(m)
  BY <1>3, <1>t, <1>h DEF Takes, Handed
<1>4. CASE Makes(m)
  BY <1>4, <1>t, <1>h DEF Makes, Handed
<1>5. CASE Records(m) \/ Removes(m)
  BY <1>5, <1>t, <1>h DEF Records, Removes, Handed
<1>6. CASE Closes(m)
  BY <1>6, <1>t, <1>h, AbsentFields DEF Closes, Handed
<1>7. CASE Syncs(m) \/ Edits(m)
  BY <1>7, <1>t, <1>h DEF Syncs, Edits, Handed
<1>8. CASE Restarts(m)
  BY <1>8, <1>t, AbsentFields DEF Restarts, Handed
<1> QED
  BY Zenon, <1>1, <1>2, <1>3, <1>4, <1>5, <1>6, <1>7, <1>8, StepEffect DEF OwnEffect, TypeInv

\* f says something about each machine.
OfMachines(f) == f = [m \in Machines |-> f[m]]

\* The variables stay functions of the machines.
LEMMA FunctionsStay ==
  ASSUME TypeOK, Next
  PROVE  /\ OfMachines(obj') /\ OfMachines(seen') /\ OfMachines(scope') /\ OfMachines(base')
         /\ OfMachines(inst') /\ OfMachines(pc') /\ OfMachines(held') /\ OfMachines(ip')
<1>t. /\ OfMachines(obj) /\ OfMachines(seen) /\ OfMachines(scope) /\ OfMachines(base)
      /\ OfMachines(inst) /\ OfMachines(pc) /\ OfMachines(held) /\ OfMachines(ip)
  BY DEF TypeOK, OfMachines
<1> USE DEF MachineStep
<1>1. ASSUME NEW q \in Machines, MachineStep(q) PROVE OfMachines(obj')
  <2>1. \/ UNCHANGED obj
        \/ \E parts : obj' = [obj EXCEPT ![q] = Patched(obj[q], base[q], scope[q], parts)]
        \/ obj' = [obj EXCEPT ![q] = [obj[q] EXCEPT !.phase = "present"]]
        \/ obj' = [obj EXCEPT ![q] = [obj[q] EXCEPT !.phase = "deleting"]]
    BY <1>1 DEF Reconcile, getClusterIPs, GetNextVlanIP, createInstance,
         reconcilePreflightReady,
       reconcileDelete, Close, CacheSync, UserCreate, UserDelete
  <2> QED
    BY <2>1, <1>t DEF OfMachines
<1>2. ASSUME NEW q \in Machines, MachineStep(q) PROVE OfMachines(seen')
  <2>1. UNCHANGED seen \/ seen' = [seen EXCEPT ![q] = obj[q]]
    BY Zenon, <1>2
       DEF Reconcile, getClusterIPs, GetNextVlanIP, createInstance, reconcilePreflightReady,
       reconcileDelete, Close, CacheSync, UserCreate, UserDelete
  <2> QED
    BY <2>1, <1>t DEF OfMachines
<1>3. ASSUME NEW q \in Machines, MachineStep(q) PROVE OfMachines(scope')
  <2>1. \/ UNCHANGED scope
        \/ scope' = [scope EXCEPT ![q] = seen[q]]
        \/ scope' = [scope EXCEPT ![q] = [scope[q] EXCEPT !.providerID = TRUE]]
        \/ scope' = [scope EXCEPT ![q] = [scope[q] EXCEPT !.address = handleVlanIps(q)]]
        \/ scope' = [scope EXCEPT ![q] = [scope[q] EXCEPT !.phase = "gone"]]
        \/ scope' = [scope EXCEPT ![q] = Absent]
    BY <1>3 DEF Reconcile, getClusterIPs, GetNextVlanIP, createInstance,
         reconcilePreflightReady,
       reconcileDelete, Close, CacheSync, UserCreate, UserDelete, ctrlVars
  <2> QED
    BY <2>1, <1>t DEF OfMachines
<1>4. ASSUME NEW q \in Machines, MachineStep(q) PROVE OfMachines(base')
  <2>1. UNCHANGED base \/ base' = [base EXCEPT ![q] = seen[q]] \/ base' = [base EXCEPT ![q] = Absent]
    BY Zenon, <1>4
       DEF Reconcile, getClusterIPs, GetNextVlanIP, createInstance, reconcilePreflightReady,
       reconcileDelete, Close, CacheSync, UserCreate, UserDelete, ctrlVars
  <2> QED
    BY <2>1, <1>t DEF OfMachines
<1>5. ASSUME NEW q \in Machines, MachineStep(q) PROVE OfMachines(inst')
  <2>1. \/ UNCHANGED inst \/ inst' = [inst EXCEPT ![q] = ip[q]]
        \/ inst' = [inst EXCEPT ![q] = IF inst[q] = 0 THEN ip[q] ELSE inst[q]]
        \/ inst' = [inst EXCEPT ![q] = IF scope[q].providerID THEN 0 ELSE inst[q]]
    BY Zenon, <1>5
       DEF Reconcile, getClusterIPs, GetNextVlanIP, createInstance, reconcilePreflightReady,
       reconcileDelete, Close, CacheSync, UserCreate, UserDelete
  <2> QED
    BY <2>1, <1>t DEF OfMachines
<1>6. ASSUME NEW q \in Machines, MachineStep(q) PROVE OfMachines(pc')
  <2>1. UNCHANGED pc \/ \E l : pc' = [pc EXCEPT ![q] = l]
    BY Zenon, <1>6
       DEF Reconcile, getClusterIPs, GetNextVlanIP, createInstance, reconcilePreflightReady,
       reconcileDelete, Close, CacheSync, UserCreate, UserDelete, ctrlVars, Goto
  <2> QED
    BY <2>1, <1>t DEF OfMachines
<1>7. ASSUME NEW q \in Machines, MachineStep(q) PROVE OfMachines(held')
  <2>1. UNCHANGED held \/ \E l : held' = [held EXCEPT ![q] = l]
    BY Zenon, <1>7
       DEF Reconcile, getClusterIPs, GetNextVlanIP, createInstance, reconcilePreflightReady,
       reconcileDelete, Close, CacheSync, UserCreate, UserDelete, ctrlVars
  <2> QED
    BY <2>1, <1>t DEF OfMachines
<1>8. ASSUME NEW q \in Machines, MachineStep(q) PROVE OfMachines(ip')
  <2>1. UNCHANGED ip \/ \E a : ip' = [ip EXCEPT ![q] = a]
    BY Zenon, <1>8 DEF Reconcile, getClusterIPs, GetNextVlanIP, getNextIP, createInstance,
       reconcilePreflightReady, reconcileDelete, Close, CacheSync, UserCreate, UserDelete, ctrlVars
  <2> QED
    BY <2>1, <1>t DEF OfMachines
<1>9. Crash => /\ OfMachines(obj') /\ OfMachines(seen') /\ OfMachines(scope') /\ OfMachines(base')
               /\ OfMachines(inst') /\ OfMachines(pc') /\ OfMachines(held') /\ OfMachines(ip')
  BY <1>t DEF Crash, OfMachines
<1>10. ClusterStep => /\ OfMachines(obj') /\ OfMachines(seen') /\ OfMachines(scope') /\ OfMachines(base')
                      /\ OfMachines(inst') /\ OfMachines(pc') /\ OfMachines(held') /\ OfMachines(ip')
  BY Zenon, <1>t, OtherEffect
<1> HIDE DEF MachineStep
<1> QED
  BY Zenon, <1>1, <1>2, <1>3, <1>4, <1>5, <1>6, <1>7, <1>8, <1>9, <1>10, Steps

\* The lists stay finite sets of addresses.
LEMMA ListsTyped ==
  ASSUME TypeInv, Next
  PROVE  /\ entry' \in Lists \cup {None} /\ ips' \in [Lists -> SUBSET Nat] /\ lost' \subseteq Machines
         /\ Finite'
<1>t. entry \in Lists \cup {None} /\ ips \in [Lists -> SUBSET Nat] /\ lost \subseteq Machines /\ Finite
  BY DEF TypeInv, TypeOK
<1>e. getExistingIPsForCluster \in SUBSET Nat /\ IsFiniteSet(getExistingIPsForCluster)
  BY Zenon, ExistingAddresses DEF TypeInv
<1>1. CASE UNCHANGED <<entry, ips, lost>>
  BY <1>1, <1>t DEF Finite
<1>2. ASSUME NEW l \in Lists, entry' = l, UNCHANGED lost,
             ips' = [ips EXCEPT ![l] = getExistingIPsForCluster]
      PROVE  /\ entry' \in Lists \cup {None} /\ ips' \in [Lists -> SUBSET Nat] /\ lost' \subseteq Machines
             /\ Finite'
  BY <1>2, <1>t, <1>e DEF Finite
<1>3. ASSUME NEW l \in Lists, NEW a \in Nat, UNCHANGED <<entry, lost>>,
             ips' = [ips EXCEPT ![l] = @ \cup {a}], IsFiniteSet(ips[l] \cup {a})
      PROVE  /\ entry' \in Lists \cup {None} /\ ips' \in [Lists -> SUBSET Nat] /\ lost' \subseteq Machines
             /\ Finite'
  BY <1>3, <1>t DEF Finite
<1>4. Unrecorded(seen) \subseteq Machines /\ Unrecorded(obj) \subseteq Machines /\ InFlight \subseteq Machines
  BY DEF Unrecorded, InFlight
<1>5. ASSUME entry' = None, UNCHANGED ips \/ ips' = [l \in Lists |-> {}], lost' \subseteq Machines
      PROVE  /\ entry' \in Lists \cup {None} /\ ips' \in [Lists -> SUBSET Nat] /\ lost' \subseteq Machines
             /\ Finite'
  BY <1>5, <1>t, FS_EmptySet DEF Finite
<1>6. lost' = lost \cup Unrecorded(seen) \cup InFlight \/ lost' = lost \cup Unrecorded(obj)
         => lost' \subseteq Machines
  BY <1>4, <1>t
<1> QED
  BY <1>1, <1>2, <1>3, <1>5, <1>6, ListStep DEF TypeInv

\* TypeInv is inductive, and with it every step of every reconcile works on the
\* values it expects, getNextIP on a finite list in particular.
THEOREM TypeCorrect == Spec => []TypeInv
<1>1. Init => TypeInv
  BY VlanAssumptions, AbsentFields, FS_EmptySet DEF Init, TypeInv, TypeOK, Finite, Handed
<1>2. TypeInv /\ [Next]_vars => TypeInv'
  <2> SUFFICES ASSUME TypeInv, [Next]_vars PROVE TypeInv'
    OBVIOUS
  <2>1. CASE Next
    <3>1. \A o \in {obj', seen', scope', base'} : o \in [Machines -> LinodeMachineObject]
      BY <2>1, MachineTyped, FunctionsStay DEF OfMachines, TypeInv
    <3>2. /\ inst' \in [Machines -> Nat] /\ ip' \in [Machines -> Nat]
          /\ held' \in [Machines -> Lists \cup {None}]
      BY <2>1, MachineTyped, FunctionsStay DEF OfMachines, TypeInv
    <3>3. pc' \in [Machines -> {"idle", "list", "next", "post", "ready", "delete", "return", "requeue"}]
      BY <2>1, MachineTyped, FunctionsStay DEF OfMachines, TypeInv
    <3>4. \A m \in Machines : Handed(m)'
      BY Zenon, <2>1, MachineTyped
    <3>5. /\ entry' \in Lists \cup {None} /\ ips' \in [Lists -> SUBSET Nat] /\ lost' \subseteq Machines
          /\ Finite'
      BY Zenon, <2>1, ListsTyped
    <3>6. cluster' \in {"up", "deleting", "gone"} /\ budget' \in 0..MaxFaults
      BY Zenon, <2>1, ClusterAndBudget DEF TypeInv
    <3> QED
      BY Zenon, <3>1, <3>2, <3>3, <3>4, <3>5, <3>6 DEF TypeInv, TypeOK
  <2>2. CASE UNCHANGED vars
    BY Zenon, <2>2 DEF vars, ctrlVars, TypeInv, TypeOK, Finite, Handed
  <2> QED
    BY <2>1, <2>2
<1> QED
  BY <1>1, <1>2, PTL DEF Spec

-----------------------------------------------------------------------------
(***************************************************************************)
(* The machine, its copies and its instance.                               *)
(***************************************************************************)
\* The stored machine does not go back to an earlier phase, so that the copies
\* of it are behind: a reconcile that deletes has read of the deletion.
Ordered(m) ==
    /\ obj[m].phase = "absent" => seen[m].phase = "absent" /\ pc[m] = "idle" /\ inst[m] = 0
    /\ seen[m].phase = "deleting" => obj[m].phase \in {"deleting", "gone"}
    /\ seen[m].phase = "gone" => obj[m].phase = "gone"
    /\ scope[m].phase \in {"deleting", "gone"} => seen[m].phase \in {"deleting", "gone"}
    /\ pc[m] = "delete" => scope[m].phase = "deleting"

\* An address in a copy of the machine is that of its instance.  While there is no
\* instance there is no address either, unless the machine is being deleted: this
\* is why a new instance finds no address of an earlier one.
Truthful(m) ==
    /\ \A o \in {obj[m], seen[m], scope[m], base[m]} :
          /\ o.address # 0 /\ inst[m] # 0 => o.address = inst[m]
          /\ pc[m] \in {"list", "next", "post"} /\ inst[m] = 0 => o.address = 0
          /\ seen[m].phase \in {"absent", "present"} /\ inst[m] = 0 => o.address = 0
    /\ ~Exists(obj[m]) => obj[m].address = 0
    /\ ~Exists(seen[m]) => seen[m].address = 0
    /\ scope[m].address = 0 => base[m].address = 0
    /\ seen[m].address # 0 /\ Exists(obj[m]) => obj[m].address # 0

\* The phases stay in order.
LEMMA OrderedKept ==
  ASSUME TypeInv, Next, NEW m \in Machines, Ordered(m)
  PROVE  Ordered(m)'
<1>t. obj[m] \in LinodeMachineObject /\ seen[m] \in LinodeMachineObject
  BY DEF TypeInv, TypeOK
<1>p. obj[m].phase \in {"absent", "present", "deleting", "gone"}
      /\ seen[m].phase \in {"absent", "present", "deleting", "gone"}
  BY <1>t DEF LinodeMachineObject
<1>1. CASE Untouched(m)
  BY <1>1 DEF Untouched, Ordered
<1>2. CASE Begins(m)
  BY <1>2, <1>p DEF Begins, Ordered, Exists
<1>3. CASE Takes(m)
  BY <1>3 DEF Takes, Ordered
<1>4. CASE Makes(m)
  BY <1>4 DEF Makes, Ordered
<1>5. CASE Records(m) \/ Removes(m)
  BY <1>5 DEF Records, Removes, Ordered
<1>6. CASE Closes(m)
  BY <1>6, <1>p, AbsentFields DEF Closes, Ordered, Exists
<1>7. CASE Syncs(m)
  BY <1>7, <1>p DEF Syncs, Ordered
<1>8. CASE Edits(m)
  BY <1>8, <1>p DEF Edits, Ordered
<1>9. CASE Restarts(m)
  BY <1>9, <1>p, AbsentFields DEF Restarts, Ordered
<1> QED
  BY Zenon, <1>1, <1>2, <1>3, <1>4, <1>5, <1>6, <1>7, <1>8, <1>9, StepEffect
     DEF OwnEffect, TypeInv

\* The addresses stay those of the instance.
LEMMA TruthfulKept ==
  ASSUME TypeInv, Next, NEW m \in Machines, Ordered(m), Truthful(m)
  PROVE  Truthful(m)'
<1>t. obj[m] \in LinodeMachineObject /\ seen[m] \in LinodeMachineObject
  BY DEF TypeInv, TypeOK
<1>p. obj[m].phase \in {"absent", "present", "deleting", "gone"}
      /\ seen[m].phase \in {"absent", "present", "deleting", "gone"}
  BY <1>t DEF LinodeMachineObject
<1>1. CASE Untouched(m)
  BY <1>1 DEF Untouched, Truthful, Exists
<1>2. CASE Begins(m)
  BY <1>2, <1>p DEF Begins, Truthful, Exists
<1>3. CASE Takes(m)
  BY <1>3 DEF Takes, Truthful, Exists
<1>4. CASE Makes(m)
  BY <1>4 DEF Makes, Truthful, Exists
<1>5. CASE Records(m)
  BY <1>5 DEF Records, Truthful, Exists
<1>6. CASE Removes(m)
  BY <1>6 DEF Removes, Truthful, Ordered, Exists
<1>7. CASE Closes(m)
  BY <1>7, <1>p, AbsentFields DEF Closes, Truthful, Exists
<1>8. CASE Syncs(m)
  BY <1>8, <1>p DEF Syncs, Truthful, Ordered, Exists
<1>9. CASE Edits(m)
  BY <1>9, <1>p DEF Edits, Truthful, Ordered, Exists
<1>10. CASE Restarts(m)
  BY <1>10, <1>p, AbsentFields DEF Restarts, Truthful, Ordered, Exists
<1> QED
  BY Zenon, <1>1, <1>2, <1>3, <1>4, <1>5, <1>6, <1>7, <1>8, <1>9, <1>10, StepEffect
     DEF OwnEffect, TypeInv

MachineInv == \A m \in Machines : Ordered(m) /\ Truthful(m)

\* MachineInv is inductive, given the types.
THEOREM MachineInvariant == Spec => []MachineInv
<1>1. Init => MachineInv
  BY AbsentFields DEF Init, MachineInv, Ordered, Truthful, Exists
<1>2. TypeInv /\ MachineInv /\ [Next]_vars => MachineInv'
  <2> SUFFICES ASSUME TypeInv, MachineInv, [Next]_vars PROVE MachineInv'
    OBVIOUS
  <2>1. CASE Next
    BY Zenon, <2>1, OrderedKept, TruthfulKept DEF MachineInv
  <2>2. CASE UNCHANGED vars
    BY <2>2 DEF vars, ctrlVars, MachineInv, Ordered, Truthful
  <2> QED
    BY <2>1, <2>2
<1> QED
  BY <1>1, <1>2, TypeCorrect, PTL DEF Spec

\* The VLAN address in the status of a machine is that of its instance, whatever
\* attempts, faults and stale reads came before reconcilePreflightReady.
THEOREM AddressesAreReal == Spec => []AddressIsReal
<1>1. MachineInv => AddressIsReal
  BY Zenon DEF MachineInv, Truthful, AddressIsReal
<1> QED
  BY <1>1, MachineInvariant, PTL

-----------------------------------------------------------------------------
(***************************************************************************)
(* The list of the cluster and the addresses of its machines.              *)
(***************************************************************************)
\* The machines whose addresses the controller is answerable for.
Kept == {m \in Machines \ lost : Exists(obj[m])}

\* A machine that is being created takes its address from the present list, ...
Sourced(m) ==
    m \notin lost /\ pc[m] \in {"next", "post"} =>
        entry # None /\ held[m] = entry /\ (pc[m] = "post" => ip[m] \in ips[entry])

\* ... and the address of an instance is in it, or can be read from the cache
\* when there is none.
Known(m) ==
    m \in Kept /\ inst[m] # 0 =>
        IF entry = None THEN seen[m].address = inst[m] ELSE inst[m] \in ips[entry]

Listed == \A m \in Machines : Sourced(m) /\ Known(m)

\* The addresses given, or about to be given, to the instance of a machine.
Claims(m) == {inst[m], ip[m]} \ {0}

\* No two machines have one in common.
Distinct == \A m, n \in Kept : m # n => Claims(m) \cap Claims(n) = {}

\* The list of the cluster stays and grows, is made, or is dropped.
LEMMA ListChange ==
  ASSUME TypeInv, Next
  PROVE  /\ lost \subseteq lost'
         /\ \/ entry' = entry /\ entry # None /\ \A l \in Lists : ips[l] \subseteq ips'[l]
            \/ entry' = entry /\ entry = None
            \/ /\ entry = None /\ entry' \in Lists /\ ips'[entry'] = getExistingIPsForCluster
               /\ UNCHANGED <<inst, obj>>
            \/ /\ entry' = None /\ lost' = lost \cup Unrecorded(seen) \cup InFlight
               /\ UNCHANGED <<inst, obj, seen, pc>>
            \/ /\ entry' = None /\ lost' = lost \cup Unrecorded(obj)
               /\ UNCHANGED <<inst, obj>> /\ seen' = obj /\ pc' = [m \in Machines |-> "idle"]
<1>t. ips \in [Lists -> SUBSET Nat]
  BY Zenon DEF TypeInv, TypeOK
<1>1. CASE UNCHANGED <<entry, ips, lost>>
  BY <1>1
<1>2. ASSUME NEW m \in Machines, NEW l \in Lists, pc[m] = "list", pc'[m] = "next",
             entry = None, entry' = l, held'[m] = l,
             ips' = [ips EXCEPT ![l] = getExistingIPsForCluster], UNCHANGED <<lost, inst, obj>>
      PROVE  /\ entry = None /\ entry' \in Lists /\ ips'[entry'] = getExistingIPsForCluster
             /\ UNCHANGED <<inst, obj, lost>>
  BY <1>2, <1>t
<1>3. ASSUME NEW l \in Lists, NEW a, ips' = [ips EXCEPT ![l] = @ \cup {a}]
      PROVE  \A k \in Lists : ips[k] \subseteq ips'[k]
  BY <1>3, <1>t
<1>4. DeleteClusterIPs => UNCHANGED <<inst, obj, seen, pc>>
  BY Zenon DEF DeleteClusterIPs, ctrlVars
<1>5. Crash => UNCHANGED <<inst, obj>> /\ seen' = obj /\ pc' = [m \in Machines |-> "idle"]
  BY Zenon DEF Crash
<1> QED
  BY <1>1, <1>2, <1>3, <1>4, <1>5, ListStep DEF TypeInv

\* A machine that is being created holds the present list, or it is lost.
LEMMA SourcedKept ==
  ASSUME TypeInv, Next, NEW m \in Machines, Sourced(m)
  PROVE  Sourced(m)'
<1>n. None \notin Lists
  BY Zenon, VlanAssumptions DEF VlanAssumptions
<1>t. entry \in Lists \cup {None} /\ held[m] \in Lists \cup {None}
  BY DEF TypeInv, TypeOK
<1> SUFFICES ASSUME m \notin lost', pc'[m] \in {"next", "post"}
             PROVE  /\ entry' # None /\ held'[m] = entry'
                    /\ pc'[m] = "post" => ip'[m] \in ips'[entry']
  BY Zenon DEF Sourced
<1>l. m \notin lost
  BY ListChange
<1>1. CASE Takes(m)
  <2>1. CASE pc[m] = "list"
    BY <1>1, <2>1, <1>n DEF Takes
  <2>2. CASE pc[m] # "list"
    <3>1. /\ pc[m] = "next" /\ pc'[m] = "post" /\ held'[m] = held[m] /\ ip'[m] \in ips'[held[m]]
      BY Zenon, <1>1, <2>2 DEF Takes
    <3>2. entry # None /\ held[m] = entry
      BY Zenon, <1>l, <3>1 DEF Sourced
    <3>3. entry' = entry
      <4>1. m \in InFlight
        BY <3>1 DEF InFlight
      <4>2. pc' # [k \in Machines |-> "idle"]
        BY <3>1
      <4> QED
        BY <3>2, <4>1, <4>2, ListChange
    <3> QED
      BY Zenon, <3>1, <3>2, <3>3
  <2> QED
    BY <2>1, <2>2
<1>2. CASE UNCHANGED <<pc[m], held[m], ip[m]>>
  <2>1. entry # None /\ held[m] = entry /\ (pc[m] = "post" => ip[m] \in ips[entry])
    BY Zenon, <1>l, <1>2 DEF Sourced
  <2>2. m \in InFlight
    BY <1>2 DEF InFlight
  <2>3. pc' # [k \in Machines |-> "idle"]
    OBVIOUS
  <2>4. entry' = entry /\ \A l \in Lists : ips[l] \subseteq ips'[l]
    BY <2>1, <2>2, <2>3, ListChange
  <2> QED
    BY <1>2, <2>1, <2>4, <1>t
<1> QED
  BY Zenon, <1>1, <1>2, StepEffect
     DEF TypeInv, OwnEffect, Untouched, Begins, Makes, Records, Removes,
     Closes, Syncs, Edits, Restarts

\* An instance keeps its address, gets the one that was taken for it, or goes.
LEMMA InstanceEffect ==
  ASSUME TypeInv, Next, NEW m \in Machines, Ordered(m), inst'[m] # 0, Exists(obj'[m])
  PROVE  /\ Exists(obj[m]) \/ (inst[m] = 0 /\ pc[m] = "idle")
         /\ inst'[m] = inst[m] \/ (pc[m] = "post" /\ inst'[m] = ip[m])
         /\ seen'[m] = seen[m] \/ (seen'[m] = obj[m] /\ UNCHANGED <<inst[m], obj[m]>>)
<1>1. CASE Untouched(m) \/ Begins(m) \/ Takes(m)
  BY Zenon, <1>1 DEF Untouched, Begins, Takes
<1>2. CASE Makes(m) \/ Records(m)
  BY Zenon, <1>2 DEF Makes, Records
<1>3. CASE Removes(m)
  BY <1>3 DEF Removes
<1>4. CASE Closes(m)
  BY Zenon, <1>4 DEF Closes
<1>5. CASE Syncs(m) \/ Restarts(m)
  BY Zenon, <1>5 DEF Syncs, Restarts
<1>6. CASE Edits(m)
  BY <1>6 DEF Edits, Ordered, Exists
<1> QED
  BY Zenon, <1>1, <1>2, <1>3, <1>4, <1>5, <1>6, StepEffect DEF TypeInv, OwnEffect

\* The address of an instance stays known.
LEMMA KnownKept ==
  ASSUME TypeInv, MachineInv, Next, NEW m \in Machines, Sourced(m), Known(m)
  PROVE  Known(m)'
<1>n. None \notin Lists
  BY Zenon, VlanAssumptions DEF VlanAssumptions
<1>t. entry \in Lists \cup {None}
  BY DEF TypeInv, TypeOK
<1>i. Ordered(m) /\ Truthful(m)
  BY Zenon DEF MachineInv
<1> SUFFICES ASSUME m \notin lost', Exists(obj'[m]), inst'[m] # 0
             PROVE  IF entry' = None THEN seen'[m].address = inst'[m] ELSE inst'[m] \in ips'[entry']
  BY DEF Known, Kept
<1>l. m \notin lost
  BY ListChange
<1>e. /\ Exists(obj[m]) \/ (inst[m] = 0 /\ pc[m] = "idle")
      /\ inst'[m] = inst[m] \/ (pc[m] = "post" /\ inst'[m] = ip[m])
      /\ seen'[m] = seen[m] \/ (seen'[m] = obj[m] /\ UNCHANGED <<inst[m], obj[m]>>)
  BY Zenon, <1>i, InstanceEffect
<1>x. Exists(obj[m])
  BY <1>e
<1>k. m \in Kept
  BY <1>l, <1>x DEF Kept
<1>1. CASE entry' = entry /\ entry # None /\ \A l \in Lists : ips[l] \subseteq ips'[l]
  <2>1. inst'[m] \in ips[entry]
    BY <1>e, <1>k, <1>l, <1>1 DEF Known, Sourced
  <2> QED
    BY <1>1, <2>1, <1>t
<1>2. CASE entry' = entry /\ entry = None
  <2>1. inst'[m] = inst[m] /\ seen[m].address = inst[m]
    BY <1>e, <1>k, <1>l, <1>2 DEF Known, Sourced
  <2>2. obj[m].address = inst[m]
    BY <2>1, <1>x, <1>i DEF Truthful
  <2> QED
    BY Zenon, <1>e, <1>2, <2>1, <2>2
<1>3. CASE /\ entry = None /\ entry' \in Lists /\ ips'[entry'] = getExistingIPsForCluster
           /\ UNCHANGED <<inst, obj>>
  <2>1. inst'[m] = inst[m] /\ seen[m].address = inst[m]
    BY <1>k, <1>3 DEF Known
  <2>2. Exists(seen[m])
    BY Zenon, <2>1, <1>i DEF Truthful
  <2> QED
    BY <1>3, <1>n, <2>1, <2>2 DEF getExistingIPsForCluster
<1>4. CASE /\ entry' = None /\ lost' = lost \cup Unrecorded(seen) \cup InFlight
           /\ UNCHANGED <<inst, obj, seen, pc>>
  BY <1>4 DEF Unrecorded
<1>5. CASE /\ entry' = None /\ lost' = lost \cup Unrecorded(obj)
           /\ UNCHANGED <<inst, obj>> /\ seen' = obj /\ pc' = [k \in Machines |-> "idle"]
  BY <1>5 DEF Unrecorded
<1> QED
  BY Zenon, <1>1, <1>2, <1>3, <1>4, <1>5, ListChange

\* A new address is in no claim of another machine that the list answers for.
LEMMA DistinctKept ==
  ASSUME TypeInv, MachineInv, Listed, Distinct, Next
  PROVE  Distinct'
<1> DEFINE Draws(m) == /\ pc[m] = "next" /\ ip'[m] \notin ips[held[m]] /\ inst'[m] = inst[m]
                       /\ Exists(obj[m])
                       /\ \A k \in Machines \ {m} : Untouched(k)
<1>1. ASSUME NEW m \in Machines, m \notin lost', Exists(obj'[m])
      PROVE  \/ m \in Kept /\ (Claims(m)' \subseteq Claims(m) \/ Draws(m))
             \/ Claims(m)' = {}
  <2>l. m \in Machines \ lost
    BY <1>1, ListChange
  <2>i. Ordered(m) /\ Handed(m)
    BY Zenon DEF MachineInv, TypeInv
  <2>1. CASE Untouched(m) \/ Begins(m) \/ Records(m) \/ Syncs(m)
    BY <1>1, <2>1, <2>l DEF Untouched, Begins, Records, Syncs, Claims, Kept
  <2>2. CASE Makes(m) \/ Restarts(m)
    BY <1>1, <2>2, <2>l DEF Makes, Restarts, Claims, Kept
  <2>3. CASE Removes(m) \/ Closes(m)
    BY <1>1, <2>3, <2>l DEF Removes, Closes, Claims, Kept
  <2>4. CASE Edits(m)
    BY <1>1, <2>4, <2>l, <2>i DEF Edits, Claims, Kept, Ordered, Handed, Exists
  <2>5. CASE Takes(m)
    <3>1. CASE ip'[m] = ip[m]
      BY <1>1, <2>5, <3>1, <2>l DEF Takes, Claims, Kept
    <3>2. CASE ip'[m] # ip[m]
      <4>1. /\ pc[m] = "next" /\ pc'[m] = "post" /\ ip'[m] \notin ips[held[m]]
            /\ UNCHANGED <<inst[m], obj[m]>>
        BY <2>5, <3>2 DEF Takes
      <4>2. MachineStep(m)
        <5>1. ~Untouched(m) /\ ~Restarts(m)
          BY Zenon, <4>1 DEF Untouched, Restarts
        <5> QED
          BY Zenon, <5>1, Steps, OtherEffect, MachineEffect DEF TypeInv
      <4>3. \A k \in Machines \ {m} : Untouched(k)
        BY Zenon, <2>i, <4>2, MachineEffect DEF TypeInv
      <4>4. m \in Kept
        BY <1>1, <2>l, <4>1 DEF Kept
      <4> QED
        BY Zenon, <1>1, <4>1, <4>3, <4>4
    <3> QED
      BY <3>1, <3>2
  <2> QED
    BY Zenon, <2>1, <2>2, <2>3, <2>4, <2>5, StepEffect DEF TypeInv, OwnEffect
<1>2. ASSUME NEW m \in Kept, NEW n \in Kept, m # n, Draws(m)
      PROVE  Claims(m)' \cap Claims(n)' = {}
  <2>k. m \in Machines \ lost /\ n \in Machines \ lost
    BY DEF Kept
  <2>1. entry # None /\ held[m] = entry
    BY Zenon, <1>2, <2>k DEF Listed, Sourced
  <2>2. Claims(n) \subseteq ips[entry]
    <3>1. inst[n] # 0 => inst[n] \in ips[entry]
      BY Zenon, <2>1, <2>k DEF Listed, Known
    <3>2. ip[n] # 0 => ip[n] \in ips[entry]
      BY Zenon, <2>k DEF Listed, Sourced, TypeInv, Handed
    <3> QED
      BY <3>1, <3>2 DEF Claims
  <2>3. Claims(n)' = Claims(n)
    BY <1>2, <2>k DEF Untouched, Claims
  <2>4. Claims(m)' \subseteq Claims(m) \cup {ip'[m]}
    BY <1>2 DEF Claims
  <2>5. Claims(m) \cap Claims(n) = {}
    BY Zenon, <1>2 DEF Distinct
  <2> QED
    BY <1>2, <2>1, <2>2, <2>3, <2>4, <2>5
<1> HIDE DEF Draws
<1>3. ASSUME NEW m \in Machines \ lost', NEW n \in Machines \ lost', m # n, Exists(obj'[m]), Exists(obj'[n])
      PROVE  Claims(m)' \cap Claims(n)' = {}
  <2>1. CASE Claims(m)' = {} \/ Claims(n)' = {}
    BY <2>1
  <2>2. CASE m \in Kept /\ n \in Kept /\ Claims(m)' \subseteq Claims(m) /\ Claims(n)' \subseteq Claims(n)
    BY <1>3, <2>2 DEF Distinct
  <2>3. CASE m \in Kept /\ n \in Kept /\ (Draws(m) \/ Draws(n))
    <3>1. Claims(m)' \cap Claims(n)' = {} \/ Claims(n)' \cap Claims(m)' = {}
      BY Zenon, <1>2, <1>3, <2>3
    <3> QED
      BY <3>1
  <2> QED
    BY Zenon, <1>1, <1>3, <2>1, <2>2, <2>3
<1> QED
  BY <1>3 DEF Distinct, Kept

AddressInv == Listed /\ Distinct

\* The addresses of the machines that the list answers for stay distinct.
THEOREM AddressInvariant == Spec => []AddressInv
<1>1. Init => AddressInv
  BY AbsentFields DEF Init, AddressInv, Listed, Sourced, Known, Kept, Distinct, Claims, Exists
<1>2. TypeInv /\ MachineInv /\ AddressInv /\ [Next]_vars => AddressInv'
  <2> SUFFICES ASSUME TypeInv, MachineInv, AddressInv, [Next]_vars PROVE AddressInv'
    OBVIOUS
  <2>1. CASE Next
    BY Zenon, <2>1, SourcedKept, KnownKept, DistinctKept DEF AddressInv, Listed
  <2>2. CASE UNCHANGED vars
    BY Zenon, <2>2 DEF vars, ctrlVars, AddressInv, Listed, Sourced, Known, Kept, Distinct,
         Claims
  <2> QED
    BY <2>1, <2>2
<1> QED
  BY <1>1, <1>2, TypeCorrect, MachineInvariant, PTL DEF Spec

\* Two machines of a cluster never get the same VLAN address, through retries,
\* adoptions, dropped and rebuilt lists, unless the address was in no status when
\* a list was dropped.
THEOREM AddressesUnique == Spec => []UniqueUnlessLost
<1>1. AddressInv => UniqueUnlessLost
  BY DEF AddressInv, Distinct, Kept, Claims, UniqueUnlessLost
<1> QED
  BY <1>1, AddressInvariant, PTL

=============================================================================
