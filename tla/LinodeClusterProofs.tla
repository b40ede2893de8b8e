------------------------ MODULE LinodeClusterProofs ------------------------
(***************************************************************************)
(* Proofs about LinodeCluster, for any machines, NodeBalancers, ports and  *)
(* number of faults.  The argument has the steps of a reconcile:           *)
(*                                                                         *)
(*   TypeOK        the types of the state                                  *)
(*   Course        what a reconcile has behind it at each of its steps,    *)
(*                 and what it knows of its copies of the cluster          *)
(*   Effect        what any step does to the copies and the NodeBalancers  *)
(*   EndpointInv   every copy has a sound endpoint, old copies are behind  *)
(*                 the stored one in order, at most one NodeBalancer is    *)
(*                 live and a released cluster has none; EndpointSound     *)
(*   Tracked       a live NodeBalancer is that of the stored cluster or    *)
(*                 of the reconcile that made it; NoOrphanNodeBalancer     *)
(*   MachinesKnown lists of machines are behind the machines; NodeKept     *)
(*                 and NoMachineLeft                                       *)
(***************************************************************************)
EXTENDS LinodeCluster, TLAPS

-----------------------------------------------------------------------------
(***************************************************************************)
(* Copies of the cluster.                                                  *)
(***************************************************************************)
\* t is the cluster object s with this finalizer and this endpoint, whatever
\* its conditions and its readiness are.
Like(t, s, fin, n, h, c, e) ==
    /\ t \in LinodeClusterObject
    /\ t.exists = s.exists /\ t.deleting = s.deleting /\ t.given = s.given
    /\ t.finalizer = fin
    /\ t.nbID = n /\ t.host = h /\ t.configIDs = c /\ t.external = e

\* t differs from s in its conditions and its readiness at most.
SameAs(t, s) == Like(t, s, s.finalizer, s.nbID, s.host, s.configIDs, s.external)

\* The constructors of LinodeCluster objects and NodeBalancers.
LEMMA Constructors ==
  /\ \A g \in BOOLEAN : New(g) \in LinodeClusterObject
  /\ Gone \in LinodeClusterObject
  /\ ~Gone.exists /\ ~Gone.deleting /\ ~Gone.finalizer /\ ~Gone.given /\ ~Gone.host
  /\ Gone.nbID = None /\ ~Gone.configIDs /\ ~Gone.external
  /\ Unused \in NodeBalancer /\ [Unused EXCEPT !.state = "deleted"] \in NodeBalancer
<1>1. \A g \in BOOLEAN : New(g) \in LinodeClusterObject
  BY DEF New, LinodeClusterObject
<1>2. Gone \in LinodeClusterObject
  BY ZenonT(30) DEF Gone, New, LinodeClusterObject
<1>3. /\ ~Gone.exists /\ ~Gone.deleting /\ ~Gone.finalizer /\ ~Gone.given /\ ~Gone.host
      /\ Gone.nbID = None /\ ~Gone.configIDs /\ ~Gone.external
  BY DEF Gone, New
<1>4. Unused \in NodeBalancer /\ [Unused EXCEPT !.state = "deleted"] \in NodeBalancer
  BY DEF Unused, NodeBalancer
<1> QED
  BY <1>1, <1>2, <1>3, <1>4

\* What the reconcile writes into its copy.
LEMMA Updates ==
  ASSUME NEW s \in LinodeClusterObject
  PROVE  /\ SameAs(s, s)
         /\ SameAs([s EXCEPT !.ready = FALSE], s)
         /\ \A d \in {"vpc", "firewall"} : SameAs([s EXCEPT !.conds = @ \cup {d}], s)
         /\ \A b \in BOOLEAN : Like([s EXCEPT !.finalizer = b], s, b, s.nbID, s.host, s.configIDs, s.external)
         /\ \A n \in NodeBalancers : Like([s EXCEPT !.nbID = n], s, s.finalizer, n, s.host, s.configIDs, s.external)
         /\ Like(Balanced(s), s, s.finalizer, s.nbID, TRUE, TRUE, s.external)
         /\ \A e \in BOOLEAN : Like([s EXCEPT !.ready = TRUE, !.external = e], s, s.finalizer, s.nbID, s.host, s.configIDs, e)
         /\ Like([s EXCEPT !.nbID = None, !.configIDs = FALSE], s, s.finalizer, None, s.host, FALSE, s.external)
<1> USE DEF SameAs, Like, LinodeClusterObject
<1>1. SameAs(s, s)
  BY Zenon
<1>2. SameAs([s EXCEPT !.ready = FALSE], s)
  BY Zenon
<1>3. \A d \in {"vpc", "firewall"} : SameAs([s EXCEPT !.conds = @ \cup {d}], s)
  OBVIOUS
<1>4. \A b \in BOOLEAN : Like([s EXCEPT !.finalizer = b], s, b, s.nbID, s.host, s.configIDs, s.external)
  BY Zenon
<1>5. \A n \in NodeBalancers : Like([s EXCEPT !.nbID = n], s, s.finalizer, n, s.host, s.configIDs, s.external)
  OBVIOUS
<1>6. Like(Balanced(s), s, s.finalizer, s.nbID, TRUE, TRUE, s.external)
  BY Zenon DEF Balanced
<1>7. \A e \in BOOLEAN : Like([s EXCEPT !.ready = TRUE, !.external = e], s, s.finalizer, s.nbID, s.host, s.configIDs, e)
  BY Zenon
<1>8. Like([s EXCEPT !.nbID = None, !.configIDs = FALSE], s, s.finalizer, None, s.host, FALSE, s.external)
  BY Zenon
<1> QED
  BY Zenon, <1>1, <1>2, <1>3, <1>4, <1>5, <1>6, <1>7, <1>8

\* What a patch does to the stored object: each changed field is replaced if
\* the request with the object is served.
LEMMA PatchedFields ==
  ASSUME NEW o \in LinodeClusterObject, NEW b \in LinodeClusterObject,
         NEW s \in LinodeClusterObject, NEW parts
  PROVE  LET sent == "object" \in parts
         IN  Like(Patched(o, b, s, parts), o,
                  Merged(sent, b.finalizer, s.finalizer, o.finalizer),
                  Merged(sent, b.nbID, s.nbID, o.nbID), Merged(sent, b.host, s.host, o.host),
                  Merged(sent, b.configIDs, s.configIDs, o.configIDs),
                  Merged(sent, b.external, s.external, o.external))
<1> DEFINE sent == "object" \in parts
           c == IF "conditions" \in parts THEN o.conds \cup s.conds ELSE o.conds
           f == Merged(sent, b.finalizer, s.finalizer, o.finalizer)
           n == Merged(sent, b.nbID, s.nbID, o.nbID)
           h == Merged(sent, b.host, s.host, o.host)
           i == Merged(sent, b.configIDs, s.configIDs, o.configIDs)
           e == Merged(sent, b.external, s.external, o.external)
           r == Merged("status" \in parts, b.ready, s.ready, o.ready)
           p == [o EXCEPT !.conds = c, !.finalizer = f, !.host = h, !.nbID = n, !.configIDs = i,
                          !.external = e, !.ready = r]
<1>1. c \in SUBSET {"vpc", "firewall"} /\ n \in NodeBalancers \cup {None}
  BY DEF Merged, LinodeClusterObject
<1>2. f \in BOOLEAN /\ h \in BOOLEAN /\ i \in BOOLEAN /\ e \in BOOLEAN /\ r \in BOOLEAN
  BY DEF Merged, LinodeClusterObject
<1>3. Patched(o, b, s, parts) = p
  BY DEF Patched
<1> HIDE DEF c, f, n, h, i, e, r
<1>4. p \in LinodeClusterObject
  BY ZenonT(60), <1>1, <1>2 DEF LinodeClusterObject
<1>5. /\ p.exists = o.exists /\ p.deleting = o.deleting /\ p.given = o.given
      /\ p.finalizer = f /\ p.nbID = n /\ p.host = h /\ p.configIDs = i /\ p.external = e
  BY Zenon DEF LinodeClusterObject
<1>6. Like(p, o, f, n, h, i, e)
  BY Zenon, <1>4, <1>5 DEF Like
<1> QED
  BY ONLY Zenon, <1>3, <1>6 DEF f, n, h, i, e, sent

-----------------------------------------------------------------------------
(***************************************************************************)
(* Types.                                                                  *)
(***************************************************************************)
\* An object that is stored is the one that was sent, or is gone.
LEMMA StoredObject ==
  ASSUME NEW o \in LinodeClusterObject
  PROVE  /\ Stored(o) \in LinodeClusterObject
         /\ o.deleting /\ ~o.finalizer => Stored(o) = Gone
         /\ ~(o.deleting /\ ~o.finalizer) => Stored(o) = o
BY Constructors DEF Stored

\* A request for deletion changes nothing else in the object.
LEMMA DeletionRequest ==
  ASSUME NEW o \in LinodeClusterObject
  PROVE  LET d == [o EXCEPT !.deleting = TRUE]
         IN  /\ d \in LinodeClusterObject
             /\ d.deleting /\ d.exists = o.exists /\ d.given = o.given /\ d.finalizer = o.finalizer
             /\ d.nbID = o.nbID /\ d.host = o.host /\ d.configIDs = o.configIDs
             /\ d.external = o.external
BY Zenon DEF LinodeClusterObject

\* The steps of a reconcile between its start and its end leave the cache, the
\* machines and the patch helper's copy alone.
InnerStep ==
    \/ SetCredentialRefTokenForLinodeClients \/ AddFinalizer
    \/ reconcilePreflightLinodeVPCCheck \/ reconcilePreflightLinodeFirewallCheck
    \/ AddCredentialsRefFinalizer \/ EnsureNodeBalancer \/ getNBFromLabel
    \/ EnsureNodeBalancerConfigs \/ handleNBCreate \/ SetReady \/ ListNodeBalancerNodes
    \/ AddNodesToNB \/ DeleteNodeBalancerNode \/ DeleteNodesFromNB \/ DeleteNodeBalancer
    \/ reconcileDelete \/ RemoveCredentialsRefFinalizer

\* The steps of the environment on the machines, the dependencies and the Secret.
OuterStep ==
    \/ Wakeup \/ UserDeletesSecret
    \/ \E m \in Machines : \/ linodeMachineToLinodeCluster(m)
                           \/ MachineCreated(m) \/ MachineUp(m) \/ MachineDeleted(m)
    \/ \E d \in Refs : DependencyReady(d)

\* Every step is one of these.
LEMMA Steps ==
  Next => \/ InnerStep \/ OuterStep \/ Reconcile \/ Close \/ Crash \/ CacheSync \/ UserDelete
          \/ \E n \in NodeBalancers : OutOfBand(n)
BY Zenon DEF Next, ReconcileStep, InnerStep, OuterStep

\* What the steps inside a reconcile leave alone.
LEMMA InnerFrame ==
  InnerStep => UNCHANGED <<seen, mach, mseen, queued, base, list, deps>>
BY Zenon DEF InnerStep, SetCredentialRefTokenForLinodeClients, AddFinalizer,
       reconcilePreflightLinodeVPCCheck, reconcilePreflightLinodeFirewallCheck, CheckDependency,
       AddCredentialsRefFinalizer, EnsureNodeBalancer, getNBFromLabel, EnsureNodeBalancerConfigs,
       handleNBCreate, SetReady, ListNodeBalancerNodes, AddNodesToNB, DeleteNodeBalancerNode,
       DeleteNodesFromNB, DeleteNodeBalancer, reconcileDelete, RemoveCredentialsRefFinalizer,
       k8sVars, localVars

\* What those of the environment leave alone.
LEMMA OuterFrame ==
  OuterStep => UNCHANGED <<obj, seen, pc, base, scope, list, made, nodes, todo, nb, again>>
BY Zenon DEF OuterStep, Wakeup, UserDeletesSecret, linodeMachineToLinodeCluster, MachineCreated,
       MachineUp, MachineDeleted, DependencyReady, ctrlVars, localVars, k8sVars

\* The history of the faults grows.
Grows == faults \subseteq faults'

\* A step that records no fault spends an error at most.
LEMMA History ==
  ASSUME TypeOK, Next
  PROVE  faults' \subseteq Faults /\ budget' \in 0..MaxFaults /\ Grows
<1> DEFINE Goal == faults' \subseteq Faults /\ budget' \in 0..MaxFaults /\ Grows
<1>t. faults \subseteq Faults /\ budget \in 0..MaxFaults
  BY DEF TypeOK
<1>s. ASSUME Spend PROVE budget' \in 0..MaxFaults
  BY <1>s, <1>t, ClusterAssumptions DEF Spend
<1>f. ASSUME NEW f \in Faults, Fault(f) PROVE Goal
  BY <1>f, <1>s, <1>t DEF Fault, Grows
<1>u. ASSUME UNCHANGED histVars PROVE Goal
  BY <1>u, <1>t DEF histVars, Grows
<1>e. ASSUME Spend, UNCHANGED faults PROVE Goal
  BY <1>e, <1>s, <1>t DEF Grows
<1>1. InnerStep => UNCHANGED histVars \/ (Spend /\ UNCHANGED faults) \/ \E f \in Faults : Fault(f)
  BY Zenon DEF InnerStep, SetCredentialRefTokenForLinodeClients, AddFinalizer,
       reconcilePreflightLinodeVPCCheck, reconcilePreflightLinodeFirewallCheck, CheckDependency,
       AddCredentialsRefFinalizer, EnsureNodeBalancer, getNBFromLabel, EnsureNodeBalancerConfigs,
       handleNBCreate, SetReady, ListNodeBalancerNodes, AddNodesToNB, DeleteNodeBalancerNode,
       DeleteNodesFromNB, DeleteNodeBalancer, reconcileDelete, RemoveCredentialsRefFinalizer,
       Error, retryIfTransient, histVars, Faults
<1>2. Next => UNCHANGED histVars \/ (Spend /\ UNCHANGED faults) \/ \E f \in Faults : Fault(f)
  BY Zenon, <1>1, Steps DEF Reconcile, Close, Crash, CacheSync, UserDelete, OutOfBand,
       OuterStep,
       Wakeup, UserDeletesSecret, linodeMachineToLinodeCluster, MachineCreated, MachineUp,
       MachineDeleted, DependencyReady, Faults
<1> QED
  BY Zenon, <1>2, <1>f, <1>u, <1>e

\* The stored object is patched by AddFinalizer and at the end of a reconcile,
\* or its deletion is requested.
LEMMA ObjectStep ==
  ASSUME TypeOK, Next
  PROVE  obj' \in LinodeClusterObject
<1>t. obj \in LinodeClusterObject /\ base \in LinodeClusterObject /\ scope \in LinodeClusterObject
  BY Zenon DEF TypeOK
<1>f. [scope EXCEPT !.finalizer = TRUE] \in LinodeClusterObject
  BY Zenon, <1>t, Updates DEF Like
<1>p. \A s \in LinodeClusterObject : \A parts : Patched(obj, base, s, parts) \in LinodeClusterObject
  BY Zenon, <1>t, PatchedFields DEF Like
<1>s. \A s \in LinodeClusterObject : \A parts : Stored(Patched(obj, base, s, parts)) \in LinodeClusterObject
  BY Zenon, <1>p, StoredObject
<1>1. CASE InnerStep
  BY Zenon, <1>1, <1>t, <1>f, <1>p
     DEF InnerStep, SetCredentialRefTokenForLinodeClients, AddFinalizer,
       reconcilePreflightLinodeVPCCheck, reconcilePreflightLinodeFirewallCheck, CheckDependency,
       AddCredentialsRefFinalizer, EnsureNodeBalancer, getNBFromLabel, EnsureNodeBalancerConfigs,
       handleNBCreate, SetReady, ListNodeBalancerNodes, AddNodesToNB, DeleteNodeBalancerNode,
       DeleteNodesFromNB, DeleteNodeBalancer, reconcileDelete, RemoveCredentialsRefFinalizer,
       k8sVars
<1>2. CASE Close
  BY Zenon, <1>2, <1>t, <1>s DEF Close
<1>3. CASE UserDelete
  <2>1. [obj EXCEPT !.deleting = TRUE] \in LinodeClusterObject
    BY Zenon, <1>t, DeletionRequest
  <2> QED
    BY Zenon, <1>3, <2>1, StoredObject DEF UserDelete
<1> QED
  BY Zenon, <1>1, <1>2, <1>3, <1>t, Steps, OuterFrame
     DEF Reconcile, Crash, CacheSync, OutOfBand, k8sVars

\* The copy of the reconcile stays a LinodeCluster.
LEMMA ScopeStep ==
  ASSUME TypeOK, Next
  PROVE  scope' \in LinodeClusterObject
<1>t. seen \in LinodeClusterObject /\ scope \in LinodeClusterObject
  BY Zenon DEF TypeOK
<1>1. /\ [seen EXCEPT !.ready = FALSE] \in LinodeClusterObject
      /\ \A d \in {"vpc", "firewall"} : [scope EXCEPT !.conds = @ \cup {d}] \in LinodeClusterObject
      /\ [scope EXCEPT !.finalizer = TRUE] \in LinodeClusterObject
      /\ [scope EXCEPT !.finalizer = FALSE] \in LinodeClusterObject
      /\ \A n \in NodeBalancers : [scope EXCEPT !.nbID = n] \in LinodeClusterObject
      /\ Balanced(scope) \in LinodeClusterObject
      /\ \A e \in BOOLEAN : [scope EXCEPT !.ready = TRUE, !.external = e] \in LinodeClusterObject
      /\ [scope EXCEPT !.nbID = None, !.configIDs = FALSE] \in LinodeClusterObject
  BY Zenon, <1>t, Updates DEF SameAs, Like
<1>2. SetReady => \E e \in BOOLEAN : scope' = [scope EXCEPT !.ready = TRUE, !.external = e]
  <2>1. ASSUME SetReady
        PROVE  LET a == \A m \in Listed : list[m] = "up"
                   x == scope.nbID = None \/ ~scope.configIDs
               IN scope' = [scope EXCEPT !.ready = TRUE, !.external = @ \/ (a /\ x)]
    BY Zenon, <2>1 DEF SetReady
  <2> QED
    BY <2>1
<1>3. EnsureNodeBalancer \/ getNBFromLabel => scope' = scope \/ \E n \in NodeBalancers : scope' = [scope EXCEPT !.nbID = n]
  <2>1. scope.nbID # None => scope.nbID \in NodeBalancers
    BY <1>t DEF LinodeClusterObject
  <2> QED
    BY Zenon, <2>1 DEF EnsureNodeBalancer, getNBFromLabel, WithNodeBalancer
<1>4. InnerStep => scope' \in LinodeClusterObject
  BY Zenon, <1>1, <1>2, <1>3, <1>t
     DEF InnerStep, SetCredentialRefTokenForLinodeClients, AddFinalizer,
       reconcilePreflightLinodeVPCCheck, reconcilePreflightLinodeFirewallCheck, CheckDependency,
       AddCredentialsRefFinalizer, EnsureNodeBalancerConfigs,
       handleNBCreate, ListNodeBalancerNodes, AddNodesToNB, DeleteNodeBalancerNode,
       DeleteNodesFromNB, DeleteNodeBalancer, reconcileDelete, RemoveCredentialsRefFinalizer
<1> QED
  BY Zenon, <1>1, <1>4, <1>t, Steps, OuterFrame, Constructors
     DEF Reconcile, Close, Crash, CacheSync, UserDelete, OutOfBand, ctrlVars

\* A step leaves the NodeBalancers alone or does one of these things to one.
NodeBalancerChange(n) ==
    \/ nb[n].state = "unused" /\ (\A k \in NodeBalancers : ~Live(k))
       /\ nb' = [nb EXCEPT ![n].state = "live"]
    \/ \E p \in Ports : Live(n) /\ nb' = [nb EXCEPT ![n].configs = @ \cup {p}]
    \/ \E m \in Machines, p \in Ports : Live(n) /\ nb' = [nb EXCEPT ![n].nodes[p] = @ \cup {m}]
    \/ \E m \in Machines : Live(n) /\ nb' = [nb EXCEPT ![n].nodes["api"] = @ \ {m}]
    \/ nb' = [nb EXCEPT ![n] = [Unused EXCEPT !.state = "deleted"]]

\* What each of them makes of the NodeBalancers.
LEMMA NodeBalancerEffect ==
  ASSUME nb \in [NodeBalancers -> NodeBalancer], NEW n \in NodeBalancers \cup {None}, NodeBalancerChange(n)
  PROVE  nb' \in [NodeBalancers -> NodeBalancer]
<1> USE ClusterAssumptions
<1>a. "api" \in Ports
  BY DEF Ports
<1>0. n = None => nb' = nb
  BY DEF NodeBalancerChange, Live
<1>1. ASSUME n \in NodeBalancers, nb' = [nb EXCEPT ![n].state = "live"]
      PROVE  nb' \in [NodeBalancers -> NodeBalancer]
  BY <1>1 DEF NodeBalancer
<1>2. ASSUME n \in NodeBalancers, NEW p \in Ports, nb' = [nb EXCEPT ![n].configs = @ \cup {p}]
      PROVE  nb' \in [NodeBalancers -> NodeBalancer]
  BY <1>2 DEF NodeBalancer
<1>3. ASSUME n \in NodeBalancers, NEW p \in Ports, NEW m \in Machines, nb' = [nb EXCEPT ![n].nodes[p] = @ \cup {m}]
      PROVE  nb' \in [NodeBalancers -> NodeBalancer]
  BY <1>3 DEF NodeBalancer
<1>4. ASSUME n \in NodeBalancers, NEW m \in Machines, nb' = [nb EXCEPT ![n].nodes["api"] = @ \ {m}]
      PROVE  nb' \in [NodeBalancers -> NodeBalancer]
  BY <1>4, <1>a DEF NodeBalancer
<1>5. ASSUME n \in NodeBalancers, nb' = [nb EXCEPT ![n] = [Unused EXCEPT !.state = "deleted"]]
      PROVE  nb' \in [NodeBalancers -> NodeBalancer]
  BY <1>5, Constructors
<1> QED
  BY Zenon, <1>0, <1>1, <1>2, <1>3, <1>4, <1>5 DEF NodeBalancerChange

\* The API is called for a new NodeBalancer or for that of the reconcile's copy.
LEMMA NodeBalancerStep ==
  ASSUME TypeOK, Next
  PROVE  UNCHANGED nb \/ \E n \in NodeBalancers \cup {None} : NodeBalancerChange(n)
<1>t. scope.nbID \in NodeBalancers \cup {None} /\ nodes \subseteq Machines /\ todo \subseteq Machines \X Ports
  BY DEF TypeOK, LinodeClusterObject
<1>u. \A mp \in todo : mp[1] \in Machines /\ mp[2] \in Ports
  BY <1>t
<1>v. \A m \in nodes \ getIPPortCombo : m \in Machines
  BY <1>t
<1>1. EnsureNodeBalancer => UNCHANGED nb \/ \E n \in NodeBalancers : NodeBalancerChange(n)
  BY Zenon DEF EnsureNodeBalancer, NodeBalancerChange
<1>2. EnsureNodeBalancerConfigs => UNCHANGED nb \/ NodeBalancerChange(scope.nbID)
  BY Zenon DEF EnsureNodeBalancerConfigs, NodeBalancerChange
<1>3. AddNodesToNB => UNCHANGED nb \/ NodeBalancerChange(scope.nbID)
  BY Zenon, <1>u DEF AddNodesToNB, AddNode, NodeBalancerChange
<1>4. DeleteNodeBalancerNode => UNCHANGED nb \/ NodeBalancerChange(scope.nbID)
  BY Zenon, <1>v DEF DeleteNodeBalancerNode, NodeBalancerChange
<1>5. DeleteNodeBalancer => UNCHANGED nb \/ NodeBalancerChange(scope.nbID)
  BY Zenon DEF DeleteNodeBalancer, NodeBalancerChange
<1>6. \A n \in NodeBalancers : OutOfBand(n) => NodeBalancerChange(n)
  BY Zenon DEF OutOfBand, NodeBalancerChange
<1>7. InnerStep => UNCHANGED nb \/ \E n \in NodeBalancers \cup {None} : NodeBalancerChange(n)
  BY Zenon, <1>t, <1>1, <1>2, <1>3, <1>4, <1>5
     DEF InnerStep, SetCredentialRefTokenForLinodeClients, AddFinalizer,
       reconcilePreflightLinodeVPCCheck, reconcilePreflightLinodeFirewallCheck, CheckDependency,
       AddCredentialsRefFinalizer, getNBFromLabel,
       handleNBCreate, SetReady, ListNodeBalancerNodes,
       DeleteNodesFromNB, reconcileDelete, RemoveCredentialsRefFinalizer
<1> QED
  BY Zenon, <1>6, <1>7, Steps, OuterFrame
     DEF Reconcile, Close, Crash, CacheSync, UserDelete

\* A reconcile is at one of its steps.
LEMMA ControlStep ==
  ASSUME TypeOK, Next
  PROVE  pc' \in PCs
<1>t. pc \in PCs
  BY DEF TypeOK
<1>1. InnerStep => pc' \in PCs
  BY Zenon, <1>t
     DEF InnerStep, SetCredentialRefTokenForLinodeClients, AddFinalizer,
       reconcilePreflightLinodeVPCCheck, reconcilePreflightLinodeFirewallCheck, CheckDependency,
       DependencyMissing, WithNodeBalancer, Error, retryIfTransient, WaitForMachines,
       AddCredentialsRefFinalizer, EnsureNodeBalancer, getNBFromLabel, EnsureNodeBalancerConfigs,
       handleNBCreate, SetReady, ListNodeBalancerNodes, AddNodesToNB, DeleteNodeBalancerNode,
       DeleteNodesFromNB, DeleteNodeBalancer, reconcileDelete, RemoveCredentialsRefFinalizer, PCs
<1> QED
  BY Zenon, <1>1, <1>t, Steps, OuterFrame
     DEF Reconcile, Close, Crash, CacheSync, UserDelete, OutOfBand, ctrlVars, PCs

\* What a reconcile has listed and still has to do.
LEMMA LocalStep ==
  ASSUME TypeOK, Next
  PROVE  /\ made' \subseteq Ports /\ nodes' \subseteq Machines /\ todo' \subseteq Machines \X Ports
         /\ list' \in [Machines -> MachineState] /\ again' \subseteq {"config", "node"}
<1>t. /\ made \subseteq Ports /\ nodes \subseteq Machines /\ todo \subseteq Machines \X Ports
      /\ list \in [Machines -> MachineState] /\ mseen \in [Machines -> MachineState]
      /\ again \subseteq {"config", "node"} /\ nb \in [NodeBalancers -> NodeBalancer]
  BY DEF TypeOK
<1>n. \A n \in NodeBalancers : nb[n].nodes["api"] \subseteq Machines
  BY <1>t DEF NodeBalancer, Ports
<1>l. Listed \subseteq Machines
  BY DEF Listed
<1>a. [m \in Machines |-> "absent"] \in [Machines -> MachineState]
  BY DEF MachineState
<1>s. Live(scope.nbID) => scope.nbID \in NodeBalancers
  BY DEF TypeOK, LinodeClusterObject, Live
<1>1. CASE InnerStep
  <2>1. list' \in [Machines -> MachineState]
    BY <1>1, <1>t, InnerFrame
  <2>2. CASE EnsureNodeBalancerConfigs
    <3>1. UNCHANGED <<nodes, todo>>
      BY Zenon, <2>2 DEF EnsureNodeBalancerConfigs
    <3>2. made' = made \/ \E p \in Ports : made' = made \cup {p}
      BY Zenon, <2>2 DEF EnsureNodeBalancerConfigs
    <3>3. again' = again \/ again' = again \cup {"config"}
      BY Zenon, <2>2 DEF EnsureNodeBalancerConfigs
    <3> QED
      BY <3>1, <3>2, <3>3, <2>1, <1>t
  <2>3. CASE ListNodeBalancerNodes
    <3>1. UNCHANGED <<made, again>>
      BY Zenon, <2>3 DEF ListNodeBalancerNodes
    <3>2. CASE UNCHANGED <<nodes, todo>>
      BY <3>1, <3>2, <2>1, <1>t
    <3>3. CASE /\ Live(scope.nbID) /\ nodes' = nb[scope.nbID].nodes["api"]
               /\ todo' = {mp \in Listed \X Ports : mp[2] = "api" => mp[1] \notin nodes'}
      BY <3>1, <3>3, <2>1, <1>t, <1>n, <1>l, <1>s
    <3> QED
      BY Zenon, <2>3, <3>2, <3>3 DEF ListNodeBalancerNodes
  <2>4. CASE AddNodesToNB
    <3>1. UNCHANGED <<made, nodes>>
      BY Zenon, <2>4 DEF AddNodesToNB
    <3>2. todo' = todo \/ \E mp \in todo : todo' = todo \ {mp}
      BY Zenon, <2>4 DEF AddNodesToNB
    <3>3. again' = again \/ again' = again \cup {"node"}
      BY Zenon, <2>4 DEF AddNodesToNB
    <3> QED
      BY <3>1, <3>2, <3>3, <2>1, <1>t
  <2>5. CASE DeleteNodeBalancerNode
    <3>1. UNCHANGED <<made, todo, again>>
      BY Zenon, <2>5 DEF DeleteNodeBalancerNode
    <3>2. nodes' = nodes \/ \E m \in nodes : nodes' = nodes \ {m}
      BY Zenon, <2>5 DEF DeleteNodeBalancerNode
    <3> QED
      BY <3>1, <3>2, <2>1, <1>t
  <2> QED
    BY Zenon, <1>1, <2>1, <2>2, <2>3, <2>4, <2>5, <1>t
       DEF InnerStep, SetCredentialRefTokenForLinodeClients, AddFinalizer,
         reconcilePreflightLinodeVPCCheck, reconcilePreflightLinodeFirewallCheck, CheckDependency,
         AddCredentialsRefFinalizer, EnsureNodeBalancer, WithNodeBalancer, getNBFromLabel,
         handleNBCreate, SetReady, DeleteNodesFromNB, DeleteNodeBalancer, reconcileDelete,
         RemoveCredentialsRefFinalizer, localVars
<1>2. CASE Reconcile \/ Close \/ Crash
  BY Zenon, <1>2, <1>t, <1>a DEF Reconcile, Close, Crash
<1>3. CASE CacheSync \/ UserDelete \/ \E n \in NodeBalancers : OutOfBand(n)
  BY Zenon, <1>3, <1>t DEF CacheSync, UserDelete, OutOfBand, ctrlVars, localVars
<1> QED
  BY Zenon, <1>1, <1>2, <1>3, <1>t, Steps, OuterFrame

\* The machines come up and go, and the cache follows.
LEMMA MachineStep ==
  ASSUME TypeOK, Next
  PROVE  mach' \in [Machines -> MachineState] /\ mseen' \in [Machines -> MachineState]
<1>t. mach \in [Machines -> MachineState] /\ mseen \in [Machines -> MachineState]
  BY DEF TypeOK
<1>1. CASE OuterStep
  <2>1. ASSUME NEW m \in Machines, linodeMachineToLinodeCluster(m)
        PROVE  mach' \in [Machines -> MachineState] /\ mseen' \in [Machines -> MachineState]
    BY <2>1, <1>t DEF linodeMachineToLinodeCluster
  <2>2. ASSUME NEW m \in Machines, MachineCreated(m) \/ MachineUp(m) \/ MachineDeleted(m)
        PROVE  mach' \in [Machines -> MachineState] /\ mseen' \in [Machines -> MachineState]
    <3>1. UNCHANGED mseen /\ \E x \in MachineState : mach' = [mach EXCEPT ![m] = x]
      BY Zenon, <2>2 DEF MachineCreated, MachineUp, MachineDeleted, MachineState
    <3> QED
      BY <3>1, <1>t
  <2> QED
    BY Zenon, <1>1, <2>1, <2>2, <1>t
       DEF OuterStep, Wakeup, UserDeletesSecret, DependencyReady, k8sVars
<1> QED
  BY Zenon, <1>1, <1>t, Steps, InnerFrame
     DEF Reconcile, Close, Crash, CacheSync, UserDelete, OutOfBand, k8sVars

\* The Secret and the dependencies, the queue and the copies of the cache.
LEMMA OtherStep ==
  ASSUME TypeOK, Next
  PROVE  /\ seen' \in LinodeClusterObject /\ base' \in LinodeClusterObject
         /\ queued' \in BOOLEAN /\ deps' \subseteq Refs
         /\ secret' \in [exists: BOOLEAN, deleting: BOOLEAN, held: BOOLEAN]
<1> DEFINE Secret == [exists: BOOLEAN, deleting: BOOLEAN, held: BOOLEAN]
<1>t. /\ obj \in LinodeClusterObject /\ seen \in LinodeClusterObject /\ base \in LinodeClusterObject
      /\ queued \in BOOLEAN /\ deps \subseteq Refs /\ secret \in Secret
  BY Zenon DEF TypeOK
<1>1. seen' \in LinodeClusterObject /\ base' \in LinodeClusterObject
  BY Zenon, <1>t, Steps, InnerFrame, OuterFrame, Constructors
     DEF Reconcile, Close, Crash, CacheSync, UserDelete, OutOfBand, k8sVars, ctrlVars
<1>2. queued' \in BOOLEAN
  <2>1. OuterStep => queued' = TRUE \/ queued' = queued
    BY Zenon DEF OuterStep, Wakeup, UserDeletesSecret, linodeMachineToLinodeCluster,
         MachineCreated,
         MachineUp, MachineDeleted, DependencyReady, k8sVars
  <2>2. obj.exists \in BOOLEAN
    BY <1>t DEF LinodeClusterObject
  <2> QED
    BY Zenon, <1>t, <2>1, <2>2, Steps, InnerFrame
       DEF Reconcile, Close, Crash, CacheSync, UserDelete, OutOfBand, k8sVars
<1>3. deps' \subseteq Refs
  <2>1. OuterStep => deps' = deps \/ \E d \in Refs : deps' = deps \cup {d}
    BY Zenon DEF OuterStep, Wakeup, UserDeletesSecret, linodeMachineToLinodeCluster,
         MachineCreated,
         MachineUp, MachineDeleted, DependencyReady
  <2>2. deps' = deps \/ \E d \in Refs : deps' = deps \cup {d}
    BY Zenon, <2>1, Steps, InnerFrame
       DEF Reconcile, Close, Crash, CacheSync, UserDelete, OutOfBand
  <2> QED
    BY <2>2, <1>t
<1>4. secret' \in Secret
  <2>1. InnerStep => \/ UNCHANGED secret
                     \/ secret' = [secret EXCEPT !.held = TRUE]
                     \/ secret' = [secret EXCEPT !.held = FALSE, !.exists = @ /\ ~secret.deleting]
    BY Zenon DEF InnerStep, SetCredentialRefTokenForLinodeClients, AddFinalizer,
         reconcilePreflightLinodeVPCCheck, reconcilePreflightLinodeFirewallCheck, CheckDependency,
         AddCredentialsRefFinalizer, EnsureNodeBalancer, getNBFromLabel, EnsureNodeBalancerConfigs,
         handleNBCreate, SetReady, ListNodeBalancerNodes, AddNodesToNB, DeleteNodeBalancerNode,
         DeleteNodesFromNB, DeleteNodeBalancer, reconcileDelete, RemoveCredentialsRefFinalizer
  <2>2. OuterStep => \/ UNCHANGED secret
                     \/ secret' = [secret EXCEPT !.deleting = TRUE, !.exists = secret.held]
    BY Zenon DEF OuterStep, Wakeup, UserDeletesSecret, linodeMachineToLinodeCluster,
         MachineCreated,
         MachineUp, MachineDeleted, DependencyReady
  <2>3. /\ [secret EXCEPT !.held = TRUE] \in Secret
        /\ [secret EXCEPT !.held = FALSE, !.exists = @ /\ ~secret.deleting] \in Secret
        /\ [secret EXCEPT !.deleting = TRUE, !.exists = secret.held] \in Secret
    BY ZenonT(30), <1>t
  <2> HIDE DEF Secret
  <2> QED
    BY Zenon, <1>t, <2>1, <2>2, <2>3, Steps
       DEF Reconcile, Close, Crash, CacheSync, UserDelete, OutOfBand
<1> QED
  BY <1>1, <1>2, <1>3, <1>4

\* Each variable of the controller and of its surroundings keeps its type: every
\* copy of the cluster is a LinodeCluster object, the reconcile is at one of its
\* steps, and every id the Linode API can hand out has a NodeBalancer record.
THEOREM TypeCorrect == Spec => []TypeOK
<1>1. Init => TypeOK
  <2> SUFFICES ASSUME Init PROVE TypeOK
    OBVIOUS
  <2>1. /\ obj \in LinodeClusterObject /\ seen \in LinodeClusterObject
        /\ base \in LinodeClusterObject /\ scope \in LinodeClusterObject
    BY Zenon, Constructors DEF Init
  <2>2. mach \in [Machines -> MachineState] /\ mseen \in [Machines -> MachineState]
        /\ list \in [Machines -> MachineState]
    BY DEF Init, MachineState
  <2>3. nb \in [NodeBalancers -> NodeBalancer]
    BY Constructors DEF Init
  <2> QED
    BY <2>1, <2>2, <2>3, ClusterAssumptions DEF Init, TypeOK, PCs
<1>2. TypeOK /\ [Next]_vars => TypeOK'
  <2> SUFFICES ASSUME TypeOK, [Next]_vars PROVE TypeOK'
    OBVIOUS
  <2>1. CASE Next
    <3> USE <2>1
    <3>1. nb' \in [NodeBalancers -> NodeBalancer]
      BY Zenon, NodeBalancerStep, NodeBalancerEffect DEF TypeOK
    <3> QED
      BY Zenon, <3>1, ObjectStep, ScopeStep, ControlStep, LocalStep, MachineStep, OtherStep,
           History
         DEF TypeOK
  <2>2. CASE UNCHANGED vars
    BY Zenon, <2>2 DEF TypeOK, vars, k8sVars, localVars, histVars
  <2> QED
    BY <2>1, <2>2
<1> QED
  BY <1>1, <1>2, PTL DEF Spec

-----------------------------------------------------------------------------
(***************************************************************************)
(* The course of a reconcile.                                              *)
(***************************************************************************)
\* After AddFinalizer; before and after the endpoint is set; in reconcileDelete.
Working == {"vpc", "firewall", "addCredentialsFinalizer", "nodeBalancer", "adopt", "configs",
            "ready", "listNodes", "addNodes", "prune"}
Endpointless == {"addCredentialsFinalizer", "nodeBalancer", "adopt", "configs"}
Balancing == {"ready", "listNodes", "addNodes", "prune"}
Unwinding == {"delete", "deleteNB", "wait", "release"}

\* Before the spec of the copy is written to.
Reading == {"credentials", "addFinalizer", "vpc", "firewall", "addCredentialsFinalizer",
            "nodeBalancer", "adopt", "delete", "deleteNB"}

Alike(s, b) == s.nbID = b.nbID /\ s.host = b.host /\ s.configIDs = b.configIDs

\* What handleNBCreate and reconcileDelete make of the endpoint that was read:
\* nothing, or a NodeBalancer for a cluster that has no endpoint, with the
\* endpoint once its configurations are there, or no NodeBalancer any more.
Endpoint(s, b) ==
    \/ Alike(s, b)
    \/ /\ ~b.deleting /\ ~b.host /\ s.nbID # None
       /\ b.nbID = None \/ b.nbID = s.nbID
       /\ IF s.host THEN s.configIDs ELSE s.configIDs = b.configIDs
    \/ /\ b.deleting /\ b.nbID # None /\ s.nbID = None
       /\ ~s.configIDs /\ s.host = b.host

\* reconcileDelete may remove the finalizer.
Releasable == base.deleting /\ Listed = {} /\ (scope.nbID = None \/ scope.external)

\* What a reconcile has behind it when it is at a step.
Course ==
    /\ pc = "idle" => base = Gone /\ scope = Gone /\ nodes = {} /\ todo = {}
    /\ pc # "idle" => base.exists
    /\ scope.exists = base.exists /\ scope.deleting = base.deleting /\ scope.given = base.given
    /\ pc \in Reading => Alike(scope, base) /\ scope.external = base.external
    /\ pc \in Working \/ pc = "addFinalizer" => ~scope.deleting
    /\ pc \in Working => scope.finalizer
    /\ pc \in Unwinding => scope.deleting
    /\ pc \in Endpointless => ~scope.host
    /\ pc \in Balancing => scope.host
    /\ pc \in {"configs", "deleteNB", "listNodes", "addNodes", "prune"} => scope.nbID # None
    /\ pc = "adopt" => scope.nbID = None
    /\ pc = "wait" => scope.nbID = None \/ scope.external
    /\ pc = "release" => Releasable
    /\ pc \in {"credentials", "addFinalizer"} => scope.finalizer = base.finalizer
    /\ base.finalizer /\ ~scope.finalizer => Releasable
    /\ Endpoint(scope, base)

\* The steps that write into the copy of the reconcile, and what they write.
LEMMA ScopeFields ==
  ASSUME TypeOK
  PROVE  /\ SameAs(scope, scope)
         /\ SameAs([seen EXCEPT !.ready = FALSE], seen)
         /\ \A d \in {"vpc", "firewall"} : SameAs([scope EXCEPT !.conds = @ \cup {d}], scope)
         /\ \A b \in BOOLEAN : Like([scope EXCEPT !.finalizer = b], scope, b, scope.nbID, scope.host, scope.configIDs, scope.external)
         /\ \A n \in NodeBalancers : Like([scope EXCEPT !.nbID = n], scope, scope.finalizer, n, scope.host, scope.configIDs, scope.external)
         /\ Like(Balanced(scope), scope, scope.finalizer, scope.nbID, TRUE, TRUE, scope.external)
         /\ \A e \in BOOLEAN : Like([scope EXCEPT !.ready = TRUE, !.external = e], scope, scope.finalizer, scope.nbID, scope.host, scope.configIDs, e)
         /\ Like([scope EXCEPT !.nbID = None, !.configIDs = FALSE], scope, scope.finalizer, None, scope.host, FALSE, scope.external)
<1>1. scope \in LinodeClusterObject /\ seen \in LinodeClusterObject
  BY Zenon DEF TypeOK
<1> QED
  BY Zenon, <1>1, Updates

\* Reconcile takes its copies from the cache.
LEMMA BeginsCourse ==
  ASSUME TypeOK, Course, Reconcile
  PROVE  Course'
<1>1. CASE ~seen.exists
  BY Zenon, <1>1 DEF Reconcile, Course, Releasable, Listed
<1>2. CASE seen.exists
  <2>1. base' = seen /\ SameAs(scope', seen) /\ pc' = "credentials"
    BY Zenon, <1>2, ScopeFields DEF Reconcile
  <2> QED
    BY ONLY <2>1, <1>2 DEF Course, SameAs, Like, Reading, Working, Endpointless, Balancing,
         Unwinding,
       Alike, Endpoint
<1> QED
  BY <1>1, <1>2

\* SetReady marks only a cluster without a NodeBalancer or without its
\* configurations as external, and goes on with one that is not.
LEMMA ReadyExternal ==
  ASSUME TypeOK, SetReady
  PROVE  /\ \E e \in BOOLEAN : scope' = [scope EXCEPT !.ready = TRUE, !.external = e]
         /\ scope'.external /\ ~scope.external => scope.nbID = None \/ ~scope.configIDs
         /\ pc' = "listNodes" => scope.nbID # None /\ \A m \in Listed : list[m] = "up"
<1> DEFINE a == \A m \in Listed : list[m] = "up"
           x == scope.nbID = None \/ ~scope.configIDs
<1>t. scope \in LinodeClusterObject
  BY Zenon DEF TypeOK
<1>1. scope' = [scope EXCEPT !.ready = TRUE, !.external = @ \/ (a /\ x)]
  BY Zenon DEF SetReady
<1>2. scope'.external = (scope.external \/ (a /\ x))
  BY Zenon, <1>1, <1>t DEF LinodeClusterObject
<1>3. (\A m \in Listed : list[m] # "new") => a
  BY DEF Listed
<1> HIDE DEF a, x
<1>4. \E e \in BOOLEAN : scope' = [scope EXCEPT !.ready = TRUE, !.external = e]
  BY <1>1
<1>5. pc' = "listNodes" => ~scope'.external /\ a
  BY Zenon, <1>3 DEF SetReady
<1> QED
  BY Zenon, <1>2, <1>4, <1>5 DEF a, x

\* The steps inside a reconcile lead from one to the next as Course says.
LEMMA InnerCourse ==
  ASSUME TypeOK, Course, InnerStep
  PROVE  Course'
<1> USE DEF SameAs, Like, Reading, Working, Endpointless, Balancing, Unwinding, Alike, Endpoint
<1>f. UNCHANGED <<base, list>>
  BY Zenon, InnerFrame
<1>g. UNCHANGED <<base, list>> => Listed' = Listed
  BY DEF Listed
<1>l. Listed' = Listed
  BY <1>f, <1>g
<1>s. scope' = scope => SameAs(scope', scope)
  BY Zenon, ScopeFields
<1>1. CASE SetCredentialRefTokenForLinodeClients
  <2>1. /\ pc = "credentials" /\ UNCHANGED scope
        /\ \/ pc' = "requeue"
           \/ pc' = "delete" /\ scope.deleting
           \/ pc' = "addFinalizer" /\ ~scope.deleting
    BY Zenon, <1>1 DEF SetCredentialRefTokenForLinodeClients
  <2> QED
    BY ONLY <2>1, <1>f, <1>l, Course DEF Course, Releasable
<1>2. CASE AddFinalizer
  <2>1. /\ pc = "addFinalizer" /\ pc' \in {"vpc", "requeue"}
        /\ Like(scope', scope, TRUE, scope.nbID, scope.host, scope.configIDs, scope.external)
    BY Zenon, <1>2, ScopeFields DEF AddFinalizer, Error
  <2> QED
    BY ONLY <2>1, <1>f, <1>l, Course DEF Course, Releasable
<1>3. CASE reconcilePreflightLinodeVPCCheck
  <2>1. pc = "vpc" /\ pc' \in {"firewall", "requeue"} /\ SameAs(scope', scope)
    BY Zenon, <1>3, <1>s, ScopeFields
       DEF reconcilePreflightLinodeVPCCheck, CheckDependency, DependencyMissing
  <2> QED
    BY ONLY <2>1, <1>f, <1>l, Course DEF Course, Releasable
<1>4. CASE reconcilePreflightLinodeFirewallCheck
  <2>1. /\ pc = "firewall" /\ SameAs(scope', scope)
        /\ \/ pc' = "requeue"
           \/ pc' = "ready" /\ scope.host
           \/ pc' = "addCredentialsFinalizer" /\ ~scope.host
    BY Zenon, <1>4, <1>s, ScopeFields
       DEF reconcilePreflightLinodeFirewallCheck, CheckDependency, DependencyMissing
  <2> QED
    BY ONLY <2>1, <1>f, <1>l, Course DEF Course, Releasable
<1>5. CASE AddCredentialsRefFinalizer
  <2>1. pc = "addCredentialsFinalizer" /\ pc' \in {"nodeBalancer", "requeue"} /\ UNCHANGED scope
    BY Zenon, <1>5 DEF AddCredentialsRefFinalizer, Error
  <2> QED
    BY ONLY <2>1, <1>f, <1>l, Course DEF Course, Releasable
<1>6. CASE EnsureNodeBalancer \/ getNBFromLabel
  <2>1. pc \in {"nodeBalancer", "adopt"}
    BY Zenon, <1>6 DEF EnsureNodeBalancer, getNBFromLabel
  <2>2. scope.nbID # None => scope.nbID \in NodeBalancers
    BY DEF TypeOK, LinodeClusterObject
  <2>3. pc = "adopt" => scope.nbID = None
    BY Zenon DEF Course
  <2>4. \/ pc' = "requeue" /\ UNCHANGED scope
        \/ pc' = "adopt" /\ scope.nbID = None /\ UNCHANGED scope
        \/ \E n \in NodeBalancers :
              /\ pc' = "configs" /\ scope' = [scope EXCEPT !.nbID = n]
              /\ scope.nbID = None \/ scope.nbID = n
    BY Zenon, <1>6, <2>2, <2>3 DEF EnsureNodeBalancer, getNBFromLabel, WithNodeBalancer, Error
  <2>5. CASE pc' \in {"adopt", "requeue"} /\ UNCHANGED scope /\ (pc' = "adopt" => scope.nbID = None)
    BY ONLY <2>1, <2>5, <1>f, <1>l, Course DEF Course, Releasable
  <2>6. ASSUME NEW n \in NodeBalancers, pc' = "configs", scope' = [scope EXCEPT !.nbID = n],
               scope.nbID = None \/ scope.nbID = n
        PROVE  Course'
    <3>1. /\ Like(scope', scope, scope.finalizer, n, scope.host, scope.configIDs, scope.external)
          /\ n # None
      BY Zenon, <2>6, ScopeFields, ClusterAssumptions
    <3> QED
      BY ONLY <2>1, <2>6, <3>1, <1>f, <1>l, Course DEF Course, Releasable
  <2> QED
    BY Zenon, <2>4, <2>5, <2>6
<1>7. CASE EnsureNodeBalancerConfigs
  <2>1. pc = "configs" /\ pc' \in {"configs", "requeue"} /\ UNCHANGED scope
    BY Zenon, <1>7 DEF EnsureNodeBalancerConfigs, Error
  <2> QED
    BY ONLY <2>1, <1>f, <1>l, Course DEF Course, Releasable
<1>8. CASE handleNBCreate
  <2>1. /\ pc = "configs" /\ pc' = "ready"
        /\ Like(scope', scope, scope.finalizer, scope.nbID, TRUE, TRUE, scope.external)
    BY Zenon, <1>8, ScopeFields DEF handleNBCreate
  <2> QED
    BY ONLY <2>1, <1>f, <1>l, Course DEF Course, Releasable
<1>9. CASE SetReady
  <2>1. PICK e \in BOOLEAN : scope' = [scope EXCEPT !.ready = TRUE, !.external = e]
    BY Zenon, <1>9, ReadyExternal
  <2>2. Like(scope', scope, scope.finalizer, scope.nbID, scope.host, scope.configIDs, e)
    BY Zenon, <2>1, ScopeFields
  <2>3. pc = "ready" /\ pc' \in {"return", "listNodes"} /\ (pc' = "listNodes" => scope.nbID # None)
    BY Zenon, <1>9, ReadyExternal DEF SetReady
  <2> QED
    BY ONLY <2>2, <2>3, <1>f, <1>l, Course DEF Course, Releasable
<1>10. CASE ListNodeBalancerNodes \/ AddNodesToNB \/ DeleteNodeBalancerNode
  <2>1. /\ pc \in {"listNodes", "addNodes", "prune"} /\ UNCHANGED scope
        /\ pc' \in {"addNodes", "prune", "return", "requeue"}
    BY Zenon, <1>10 DEF ListNodeBalancerNodes, AddNodesToNB, DeleteNodeBalancerNode,
         retryIfTransient
  <2> QED
    BY ONLY <2>1, <1>f, <1>l, Course DEF Course, Releasable
<1>11. CASE DeleteNodesFromNB
  <2>1. /\ pc = "delete" /\ UNCHANGED scope
        /\ \/ pc' = "requeue"
           \/ pc' = "deleteNB" /\ scope.nbID # None
           \/ pc' = "wait" /\ (scope.external \/ scope.nbID = None)
    BY Zenon, <1>11 DEF DeleteNodesFromNB, HasNodeBalancer, Error
  <2> QED
    BY ONLY <2>1, <1>f, <1>l, Course DEF Course, Releasable
<1>12. CASE DeleteNodeBalancer
  <2>1. /\ pc = "deleteNB"
        /\ \/ pc' = "requeue" /\ SameAs(scope', scope)
           \/ /\ pc' = "wait"
              /\ Like(scope', scope, scope.finalizer, None, scope.host, FALSE, scope.external)
    BY Zenon, <1>12, <1>s, ScopeFields DEF DeleteNodeBalancer, Error
  <2> QED
    BY ONLY <2>1, <1>f, <1>l, Course DEF Course, Releasable
<1>13. CASE reconcileDelete
  <2>1. pc = "wait" /\ (pc' = "requeue" \/ (pc' = "release" /\ Listed = {})) /\ UNCHANGED scope
    BY Zenon, <1>13 DEF reconcileDelete, WaitForMachines
  <2> QED
    BY ONLY <2>1, <1>f, <1>l, Course DEF Course, Releasable
<1>14. CASE RemoveCredentialsRefFinalizer
  <2>1. /\ pc = "release" /\ pc' \in {"return", "requeue"}
        /\ Like(scope', scope, scope'.finalizer, scope.nbID, scope.host, scope.configIDs, scope.external)
    BY Zenon, <1>14, <1>s, ScopeFields DEF RemoveCredentialsRefFinalizer, Error
  <2> QED
    BY ONLY <2>1, <1>f, <1>l, Course DEF Course, Releasable
<1> QED
  BY Zenon, <1>1, <1>2, <1>3, <1>4, <1>5, <1>6, <1>7, <1>8, <1>9, <1>10, <1>11, <1>12, <1>13,
       <1>14
     DEF InnerStep

\* At the end of a reconcile its copies are dropped; nothing else touches them.
LEMMA OtherCourse ==
  ASSUME TypeOK, Course,
         OuterStep \/ Close \/ Crash \/ CacheSync \/ UserDelete \/ \E n \in NodeBalancers : OutOfBand(n)
  PROVE  Course'
<1>1. CASE Close \/ Crash
  <2>1. pc' = "idle" /\ base' = Gone /\ scope' = Gone /\ nodes' = {} /\ todo' = {}
    BY Zenon, <1>1 DEF Close, Crash
  <2> QED
    BY <2>1, Constructors DEF Course, Reading, Working, Endpointless, Balancing, Unwinding,
         Alike, Endpoint
<1>2. CASE UNCHANGED <<pc, base, scope, list, nodes, todo>>
  BY <1>2 DEF Course, Releasable, Listed
<1> QED
  BY Zenon, <1>1, <1>2, OuterFrame DEF CacheSync, UserDelete, OutOfBand, ctrlVars, localVars

\* Course holds at every step of a reconcile.
THEOREM CourseOfReconcile == Spec => []Course
<1>1. Init => Course
  BY Constructors DEF Init, Course, Reading, Working, Endpointless, Balancing, Unwinding,
       Alike, Endpoint
<1>2. TypeOK /\ Course /\ [Next]_vars => Course'
  <2> SUFFICES ASSUME TypeOK, Course, [Next]_vars PROVE Course'
    OBVIOUS
  <2>1. CASE Next
    BY Zenon, <2>1, Steps, BeginsCourse, InnerCourse, OtherCourse
  <2>2. CASE UNCHANGED vars
    BY <2>2 DEF Course, Releasable, Listed, vars, localVars
  <2> QED
    BY <2>1, <2>2
<1> QED
  BY <1>1, <1>2, TypeCorrect, PTL DEF Spec

-----------------------------------------------------------------------------
(***************************************************************************)
(* What the steps do to the copies of the cluster and to the NodeBalancers.*)
(***************************************************************************)
\* Reconcile.
Begins ==
    /\ pc = "idle" /\ pc' = "credentials" /\ seen.exists
    /\ base' = seen /\ SameAs(scope', seen) /\ list' = mseen
    /\ UNCHANGED <<obj, seen, nb, mach, mseen>>
    /\ "stale" \notin faults' => seen = obj /\ mseen = mach

\* AddFinalizer with its patch.
TakesFinalizer ==
    /\ pc = "addFinalizer" /\ pc' = "vpc" /\ obj.exists
    /\ Like(scope', scope, TRUE, scope.nbID, scope.host, scope.configIDs, scope.external)
    /\ Like(obj', obj, TRUE, obj.nbID, obj.host, obj.configIDs, obj.external)
    /\ UNCHANGED <<seen, base, nb>>

\* A step that changes neither the endpoint of a copy nor whether a NodeBalancer
\* is there.
Quiet ==
    /\ pc # "idle" /\ pc' # "idle"
    /\ UNCHANGED <<obj, seen, base>>
    /\ Like(scope', scope, scope'.finalizer, scope.nbID, scope.host, scope.configIDs, scope.external)
    /\ scope.finalizer => scope'.finalizer
    /\ pc' \in Working => pc \in Working \/ (pc = "addFinalizer" /\ scope.finalizer)
    /\ pc' \in {"credentials", "addFinalizer"} => pc = "credentials" /\ UNCHANGED scope
    /\ pc' = "configs" => pc = "configs"
    /\ \A n \in NodeBalancers : nb'[n].state = nb[n].state /\ nb[n].configs \subseteq nb'[n].configs
    /\ pc' = "configs" /\ Live(scope.nbID) => made' \subseteq made \cup nb'[scope.nbID].configs

\* The NodeBalancer n is new, or the only one.
Appears(n) ==
    /\ nb[n].state = "live" \/ (nb[n].state = "unused" /\ \A k \in NodeBalancers : nb[k].state # "live")
    /\ nb'[n].state = "live" /\ nb'[n].configs = nb[n].configs
    /\ \A k \in NodeBalancers : k # n => nb'[k] = nb[k]

\* EnsureNodeBalancer and getNBFromLabel.
Names(n) ==
    /\ pc \in {"nodeBalancer", "adopt"} /\ pc' = "configs" /\ made' = {}
    /\ UNCHANGED <<obj, seen, base>>
    /\ Like(scope', scope, scope.finalizer, n, scope.host, scope.configIDs, scope.external)
    /\ scope.nbID = None \/ scope.nbID = n
    /\ Appears(n)

\* EnsureNodeBalancer without an answer.
Misses(n) ==
    /\ pc = "nodeBalancer" /\ pc' = "requeue" /\ "lostReply" \in faults'
    /\ UNCHANGED <<obj, seen, base, scope>>
    /\ Appears(n)

\* The end of handleNBCreate.
Balances ==
    /\ pc = "configs" /\ made = Ports /\ pc' = "ready"
    /\ UNCHANGED <<obj, seen, base, nb>>
    /\ Like(scope', scope, scope.finalizer, scope.nbID, TRUE, TRUE, scope.external)

\* SetReady.
Readies ==
    /\ pc = "ready" /\ pc' \in {"return", "listNodes"}
    /\ UNCHANGED <<obj, seen, base, nb>>
    /\ Like(scope', scope, scope.finalizer, scope.nbID, scope.host, scope.configIDs, scope'.external)
    /\ scope'.external /\ ~scope.external => scope.nbID = None \/ ~scope.configIDs

Disappears(n) ==
    /\ nb'[n].state = "deleted"
    /\ \A k \in NodeBalancers : k # n => nb'[k] = nb[k]

\* DeleteNodeBalancer.
Dismantles ==
    /\ pc = "deleteNB" /\ scope.nbID \in NodeBalancers
    /\ UNCHANGED <<obj, seen, base>>
    /\ Disappears(scope.nbID)
    /\ \/ /\ pc' = "wait"
          /\ Like(scope', scope, scope.finalizer, None, scope.host, FALSE, scope.external)
       \/ pc' = "requeue" /\ UNCHANGED scope /\ "lostReply" \in faults'

\* RemoveCredentialsRefFinalizer.
Releases ==
    /\ pc = "release" /\ pc' = "return"
    /\ UNCHANGED <<obj, seen, base, nb>>
    /\ Like(scope', scope, FALSE, scope.nbID, scope.host, scope.configIDs, scope.external)

\* Close.
Closes ==
    /\ pc \in {"return", "requeue"} /\ pc' = "idle" /\ base' = Gone /\ scope' = Gone
    /\ UNCHANGED <<seen, nb, mach>>
    /\ IF obj.exists
       THEN \E parts : /\ obj' = Stored(Patched(obj, base, scope, parts))
                       /\ "object" \in parts \/ "lostPatch" \in faults'
       ELSE obj' = obj

\* Crash and CacheSync.
Dies ==
    /\ pc # "idle" /\ pc' = "idle" /\ base' = Gone /\ scope' = Gone /\ seen' = obj
    /\ UNCHANGED <<obj, nb>> /\ "crash" \in faults'

Informs == seen' = obj /\ UNCHANGED <<obj, base, scope, pc, nb, made>>

\* UserDelete.
Terminates ==
    /\ obj.exists /\ ~obj.deleting /\ obj' = Stored([obj EXCEPT !.deleting = TRUE])
    /\ UNCHANGED <<seen, base, scope, pc, nb, made, list, mach, faults>>

\* OutOfBand.
Vanishes(n) ==
    /\ Disappears(n) /\ "outOfBand" \in faults'
    /\ UNCHANGED <<obj, seen, base, scope, pc, made>>

Rests == UNCHANGED <<obj, seen, base, scope, pc, nb, made>>

\* The steps inside a reconcile do one of these things.
InnerEffect ==
    \/ TakesFinalizer \/ Quiet \/ Balances \/ Readies \/ Dismantles \/ Releases
    \/ \E n \in NodeBalancers : Names(n) \/ Misses(n)

\* Every step does.
Effect ==
    \/ Begins \/ InnerEffect \/ Closes \/ Dies \/ Informs \/ Terminates \/ Rests
    \/ \E n \in NodeBalancers : Vanishes(n)

\* A fault that happens is recorded.
LEMMA FaultRecorded == \A f : Fault(f) => f \in faults'
BY DEF Fault

\* What is done to one NodeBalancer.
LEMMA OneNodeBalancer ==
  ASSUME nb \in [NodeBalancers -> NodeBalancer], NEW n \in NodeBalancers
  PROVE  /\ nb[n].state = "unused" /\ (\A k \in NodeBalancers : ~Live(k)) /\ nb' = [nb EXCEPT ![n].state = "live"]
            => Appears(n)
         /\ Live(n) /\ UNCHANGED nb => Appears(n)
         /\ nb' = [nb EXCEPT ![n] = [Unused EXCEPT !.state = "deleted"]] => Disappears(n)
         /\ \A p \in Ports : nb' = [nb EXCEPT ![n].configs = @ \cup {p}] =>
               /\ \A k \in NodeBalancers : nb'[k].state = nb[k].state /\ nb[k].configs \subseteq nb'[k].configs
               /\ p \in nb'[n].configs
         /\ \A p \in Ports, m \in Machines : nb' = [nb EXCEPT ![n].nodes[p] = @ \cup {m}] =>
               \A k \in NodeBalancers : nb'[k].state = nb[k].state /\ nb[k].configs \subseteq nb'[k].configs
         /\ \A m \in Machines : nb' = [nb EXCEPT ![n].nodes["api"] = @ \ {m}] =>
               \A k \in NodeBalancers : nb'[k].state = nb[k].state /\ nb[k].configs \subseteq nb'[k].configs
<1> USE ClusterAssumptions
<1>1. nb[n].state = "unused" /\ (\A k \in NodeBalancers : ~Live(k)) /\ nb' = [nb EXCEPT ![n].state = "live"]
        => Appears(n)
  BY DEF Appears, Live, NodeBalancer
<1>2. Live(n) /\ UNCHANGED nb => Appears(n)
  BY DEF Appears, Live, NodeBalancer
<1>3. nb' = [nb EXCEPT ![n] = [Unused EXCEPT !.state = "deleted"]] => Disappears(n)
  BY DEF Disappears, Unused
<1>4. \A p \in Ports : nb' = [nb EXCEPT ![n].configs = @ \cup {p}] =>
               /\ \A k \in NodeBalancers : nb'[k].state = nb[k].state /\ nb[k].configs \subseteq nb'[k].configs
               /\ p \in nb'[n].configs
  BY DEF NodeBalancer
<1>5. \A p \in Ports, m \in Machines : nb' = [nb EXCEPT ![n].nodes[p] = @ \cup {m}] =>
               \A k \in NodeBalancers : nb'[k].state = nb[k].state /\ nb[k].configs \subseteq nb'[k].configs
  BY DEF NodeBalancer
<1>6. \A m \in Machines : nb' = [nb EXCEPT ![n].nodes["api"] = @ \ {m}] =>
               \A k \in NodeBalancers : nb'[k].state = nb[k].state /\ nb[k].configs \subseteq nb'[k].configs
  BY DEF NodeBalancer
<1> QED
  BY Zenon, <1>1, <1>2, <1>3, <1>4, <1>5, <1>6

\* The steps before reconcileCreate and those of reconcileDelete.
LEMMA ControlEffect ==
  ASSUME TypeOK, Course,
         \/ SetCredentialRefTokenForLinodeClients \/ AddFinalizer
         \/ reconcilePreflightLinodeVPCCheck \/ reconcilePreflightLinodeFirewallCheck
         \/ AddCredentialsRefFinalizer \/ DeleteNodesFromNB \/ DeleteNodeBalancer
         \/ reconcileDelete \/ RemoveCredentialsRefFinalizer
  PROVE  InnerEffect
<1>t. nb \in [NodeBalancers -> NodeBalancer]
  BY DEF TypeOK
<1>n. UNCHANGED nb => \A n \in NodeBalancers : nb'[n].state = nb[n].state /\ nb[n].configs \subseteq nb'[n].configs
  OBVIOUS
<1>s. SameAs(scope, scope)
  BY Zenon, ScopeFields
<1>f. UNCHANGED <<seen, base>>
  BY Zenon, InnerFrame DEF InnerStep
<1>q. ASSUME pc # "idle", pc' \notin {"idle", "configs", "credentials", "addFinalizer"},
             pc' \in Working => pc \in Working, UNCHANGED <<obj, nb>>, SameAs(scope', scope)
      PROVE  Quiet
  BY Zenon, <1>q, <1>f, <1>n DEF Quiet, SameAs, Like
<1>1. CASE SetCredentialRefTokenForLinodeClients
  <2>1. /\ pc = "credentials" /\ pc' \in {"requeue", "delete", "addFinalizer"}
        /\ UNCHANGED <<obj, scope, nb>>
    BY Zenon, <1>1 DEF SetCredentialRefTokenForLinodeClients, k8sVars
  <2>2. \A n \in NodeBalancers : nb'[n].state = nb[n].state /\ nb[n].configs \subseteq nb'[n].configs
    BY <2>1, <1>n
  <2>3. SameAs(scope', scope)
    BY Zenon, <1>s, <2>1
  <2>4. Quiet
    BY ONLY Zenon, <2>1, <2>2, <2>3, <1>f DEF Quiet, SameAs, Like, Working
  <2> QED
    BY <2>4 DEF InnerEffect
<1>2. CASE AddFinalizer
  <2>1. /\ pc = "addFinalizer" /\ UNCHANGED nb
        /\ Like(scope', scope, TRUE, scope.nbID, scope.host, scope.configIDs, scope.external)
    BY Zenon, <1>2, ScopeFields DEF AddFinalizer
  <2>2. CASE /\ ~scope.finalizer /\ obj.exists /\ pc' = "vpc"
             /\ obj' = Patched(obj, base, [scope EXCEPT !.finalizer = TRUE], PatchParts)
    <3> DEFINE s == [scope EXCEPT !.finalizer = TRUE]
    <3>1. obj \in LinodeClusterObject /\ base \in LinodeClusterObject /\ scope \in LinodeClusterObject
      BY Zenon DEF TypeOK
    <3>2. Like(s, scope, TRUE, scope.nbID, scope.host, scope.configIDs, scope.external)
      BY Zenon, <3>1, Updates
    <3>3. Alike(scope, base) /\ scope.external = base.external /\ scope.finalizer = base.finalizer
      BY Zenon, <2>1 DEF Course, Reading
    <3>4. LET sent == "object" \in PatchParts
          IN  Like(Patched(obj, base, s, PatchParts), obj,
                  Merged(sent, base.finalizer, s.finalizer, obj.finalizer),
                  Merged(sent, base.nbID, s.nbID, obj.nbID), Merged(sent, base.host, s.host, obj.host),
                  Merged(sent, base.configIDs, s.configIDs, obj.configIDs),
                  Merged(sent, base.external, s.external, obj.external))
      <4>1. s \in LinodeClusterObject
        BY Zenon, <3>2 DEF Like
      <4> HIDE DEF s
      <4> QED
        BY Zenon, <3>1, <4>1, PatchedFields
    <3> HIDE DEF s
    <3>5. Like(obj', obj, TRUE, obj.nbID, obj.host, obj.configIDs, obj.external)
      BY <2>2, <3>1, <3>2, <3>3, <3>4 DEF Like, Merged, Alike, PatchParts, s
    <3> QED
      BY Zenon, <2>1, <2>2, <3>5, <1>f DEF TakesFinalizer, InnerEffect
  <2>3. CASE UNCHANGED obj /\ (pc' = "requeue" \/ (pc' = "vpc" /\ scope.finalizer))
    <3>1. \A n \in NodeBalancers : nb'[n].state = nb[n].state /\ nb[n].configs \subseteq nb'[n].configs
      BY <2>1, <1>n
    <3>2. Quiet
      BY ONLY Zenon, <2>1, <2>3, <3>1, <1>f DEF Quiet, Like, Working
    <3> QED
      BY <3>2 DEF InnerEffect
  <2> QED
    BY Zenon, <1>2, <2>2, <2>3 DEF AddFinalizer, Error
<1>3. CASE reconcilePreflightLinodeVPCCheck \/ reconcilePreflightLinodeFirewallCheck
  <2>1. /\ pc \in {"vpc", "firewall"} /\ UNCHANGED <<obj, nb>> /\ SameAs(scope', scope)
        /\ pc' \in {"firewall", "requeue", "ready", "addCredentialsFinalizer"}
    BY Zenon, <1>3, <1>s, ScopeFields DEF reconcilePreflightLinodeVPCCheck,
       reconcilePreflightLinodeFirewallCheck, CheckDependency, DependencyMissing, k8sVars
  <2> QED
    BY <2>1, <1>q DEF InnerEffect, Working
<1>4. CASE AddCredentialsRefFinalizer
  <2>1. /\ pc = "addCredentialsFinalizer" /\ UNCHANGED <<obj, nb>> /\ SameAs(scope', scope)
        /\ pc' \in {"nodeBalancer", "requeue"}
    BY Zenon, <1>4, <1>s DEF AddCredentialsRefFinalizer, Error, k8sVars
  <2> QED
    BY <2>1, <1>q DEF InnerEffect, Working
<1>5. CASE DeleteNodesFromNB \/ reconcileDelete
  <2>1. /\ pc \in {"delete", "wait"} /\ UNCHANGED <<obj, nb>> /\ SameAs(scope', scope)
        /\ pc' \in {"deleteNB", "wait", "requeue", "release"}
    BY Zenon, <1>5, <1>s DEF DeleteNodesFromNB, reconcileDelete, WaitForMachines, Error, k8sVars
  <2> QED
    BY <2>1, <1>q DEF InnerEffect, Working
<1>6. CASE DeleteNodeBalancer
  <2>1. pc = "deleteNB" /\ UNCHANGED obj
    BY Zenon, <1>6 DEF DeleteNodeBalancer, k8sVars
  <2>2. scope.nbID \in NodeBalancers
    BY <2>1 DEF Course, TypeOK, LinodeClusterObject
  <2>3. CASE nb' = [nb EXCEPT ![scope.nbID] = [Unused EXCEPT !.state = "deleted"]]
             /\ (\/ scope' = [scope EXCEPT !.nbID = None, !.configIDs = FALSE] /\ pc' = "wait"
                 \/ Fault("lostReply") /\ pc' = "requeue" /\ UNCHANGED scope)
    BY Zenon, <2>1, <2>2, <2>3, <1>t, <1>f, OneNodeBalancer, ScopeFields, FaultRecorded
       DEF Dismantles, InnerEffect
  <2>4. CASE Error /\ UNCHANGED <<nb, scope>>
    <3>1. pc' = "requeue" /\ SameAs(scope', scope)
      BY Zenon, <2>4, <1>s DEF Error
    <3> QED
      BY <3>1, <2>1, <2>4, <1>q DEF InnerEffect, Working
  <2> QED
    BY Zenon, <1>6, <2>3, <2>4 DEF DeleteNodeBalancer
<1>7. CASE RemoveCredentialsRefFinalizer
  <2>1. /\ pc = "release" /\ UNCHANGED <<obj, nb>>
        /\ \/ pc' = "return" /\ Like(scope', scope, FALSE, scope.nbID, scope.host, scope.configIDs, scope.external)
           \/ pc' = "requeue" /\ SameAs(scope', scope)
    BY Zenon, <1>7, <1>s, ScopeFields DEF RemoveCredentialsRefFinalizer, Error, k8sVars
  <2> QED
    BY <2>1, <1>q, <1>f DEF InnerEffect, Working, Releases
<1> QED
  BY Zenon, <1>1, <1>2, <1>3, <1>4, <1>5, <1>6, <1>7

\* The steps of reconcileCreate and addMachineToLB.
LEMMA CreateEffect ==
  ASSUME TypeOK, Course,
         \/ EnsureNodeBalancer \/ getNBFromLabel \/ EnsureNodeBalancerConfigs \/ handleNBCreate
         \/ SetReady \/ ListNodeBalancerNodes \/ AddNodesToNB \/ DeleteNodeBalancerNode
  PROVE  InnerEffect
<1> DEFINE Kept == \A n \in NodeBalancers : nb'[n].state = nb[n].state /\ nb[n].configs \subseteq nb'[n].configs
<1>t. nb \in [NodeBalancers -> NodeBalancer]
  BY DEF TypeOK
<1>n. UNCHANGED nb => Kept
  OBVIOUS
<1>s. SameAs(scope, scope)
  BY Zenon, ScopeFields
<1>f. UNCHANGED <<seen, base>>
  BY Zenon, InnerFrame DEF InnerStep
<1>m. scope.nbID # None => scope.nbID \in NodeBalancers
  BY DEF TypeOK, LinodeClusterObject
<1>q. ASSUME pc \in Working, pc' \notin {"idle", "configs", "credentials", "addFinalizer"},
             Kept, UNCHANGED <<obj, scope>>
      PROVE  InnerEffect
  BY Zenon, <1>q, <1>f, <1>s DEF Quiet, SameAs, Like, Working, InnerEffect
<1>a. ASSUME NEW n \in NodeBalancers, WithNodeBalancer(n), Appears(n),
             scope.nbID = None \/ scope.nbID = n, UNCHANGED obj, pc \in {"nodeBalancer", "adopt"}
      PROVE  InnerEffect
  <2>1. Like([scope EXCEPT !.nbID = n], scope, scope.finalizer, n, scope.host, scope.configIDs, scope.external)
    BY Zenon, ScopeFields
  <2> QED
    BY Zenon, <1>a, <1>f, <2>1 DEF WithNodeBalancer, Names, InnerEffect
<1>1. CASE EnsureNodeBalancer
  <2>1. pc = "nodeBalancer" /\ UNCHANGED obj
    BY Zenon, <1>1 DEF EnsureNodeBalancer, k8sVars
  <2>2. CASE scope.nbID # None /\ Live(scope.nbID) /\ WithNodeBalancer(scope.nbID) /\ UNCHANGED nb
    BY Zenon, <2>1, <2>2, <1>a, <1>m, <1>t, OneNodeBalancer
  <2>3. ASSUME scope.nbID = None, \A k \in NodeBalancers : ~Live(k), NEW n \in NodeBalancers, nb[n].state = "unused",
               nb' = [nb EXCEPT ![n].state = "live"],
               WithNodeBalancer(n) \/ (Fault("lostReply") /\ pc' = "requeue" /\ UNCHANGED scope)
        PROVE  InnerEffect
    <3>1. Appears(n)
      BY Zenon, <2>3, <1>t, OneNodeBalancer
    <3> QED
      BY Zenon, <3>1, <2>1, <2>3, <1>a, <1>f, FaultRecorded DEF Misses, InnerEffect
  <2>4. CASE pc' \in {"adopt", "requeue"} /\ UNCHANGED <<scope, nb>>
    BY <2>1, <2>4, <1>q, <1>n DEF Working
  <2> QED
    BY Zenon, <1>1, <2>2, <2>3, <2>4 DEF EnsureNodeBalancer, Error
<1>2. CASE getNBFromLabel
  <2>1. pc = "adopt" /\ UNCHANGED <<obj, nb>>
    BY Zenon, <1>2 DEF getNBFromLabel, k8sVars
  <2>2. scope.nbID = None
    BY Zenon, <2>1 DEF Course
  <2>3. ASSUME NEW n \in NodeBalancers, Live(n), WithNodeBalancer(n)
        PROVE  InnerEffect
    BY Zenon, <2>1, <2>2, <2>3, <1>a, <1>t, OneNodeBalancer
  <2>4. CASE pc' = "requeue" /\ UNCHANGED scope
    BY <2>1, <2>4, <1>q, <1>n DEF Working
  <2> QED
    BY Zenon, <1>2, <2>3, <2>4 DEF getNBFromLabel, Error
<1>3. CASE EnsureNodeBalancerConfigs
  <2>1. pc = "configs" /\ UNCHANGED <<obj, scope>>
    BY Zenon, <1>3 DEF EnsureNodeBalancerConfigs, k8sVars
  <2>2. ASSUME NEW p \in Ports, Live(scope.nbID), nb' = [nb EXCEPT ![scope.nbID].configs = @ \cup {p}],
               \/ made' = made \cup {p} /\ UNCHANGED pc
               \/ pc' = "requeue"
        PROVE  InnerEffect
    <3>1. scope.nbID \in NodeBalancers
      BY <1>m, <2>2 DEF Live
    <3>2. Kept /\ p \in nb'[scope.nbID].configs
      BY Zenon, <2>2, <3>1, <1>t, OneNodeBalancer
    <3>3. CASE pc' = "requeue"
      BY <3>2, <3>3, <2>1, <1>q DEF Working
    <3>4. CASE made' = made \cup {p} /\ UNCHANGED pc
      <4>1. made' \subseteq made \cup nb'[scope.nbID].configs
        BY <3>2, <3>4
      <4> QED
        BY Zenon, <4>1, <3>2, <3>4, <2>1, <1>s, <1>f
           DEF Quiet, SameAs, Like, Working, InnerEffect
    <3> QED
      BY <2>2, <3>3, <3>4
  <2>3. CASE UNCHANGED nb /\ pc' = "requeue"
    BY <2>1, <2>3, <1>q, <1>n DEF Working
  <2> QED
    BY Zenon, <1>3, <2>2, <2>3 DEF EnsureNodeBalancerConfigs, Error
<1>4. CASE handleNBCreate
  BY Zenon, <1>4, <1>f, ScopeFields DEF handleNBCreate, Balances, InnerEffect, k8sVars
<1>5. CASE SetReady
  <2>1. PICK e \in BOOLEAN : scope' = [scope EXCEPT !.ready = TRUE, !.external = e]
    BY Zenon, <1>5, ReadyExternal
  <2>2. Like(scope', scope, scope.finalizer, scope.nbID, scope.host, scope.configIDs, scope'.external)
    BY Zenon, <2>1, ScopeFields DEF Like
  <2>3. pc = "ready" /\ pc' \in {"return", "listNodes"} /\ UNCHANGED <<obj, nb>>
    BY Zenon, <1>5 DEF SetReady, k8sVars
  <2> QED
    BY Zenon, <1>5, <2>2, <2>3, <1>f, ReadyExternal DEF Readies, InnerEffect
<1>6. CASE ListNodeBalancerNodes
  <2>1. pc = "listNodes" /\ pc' \in {"addNodes", "return", "requeue"} /\ UNCHANGED <<obj, scope, nb>>
    BY Zenon, <1>6 DEF ListNodeBalancerNodes, retryIfTransient, k8sVars
  <2> QED
    BY <2>1, <1>q, <1>n DEF Working
<1>7. CASE AddNodesToNB
  <2>1. pc = "addNodes" /\ pc' \in {"addNodes", "prune", "return", "requeue"} /\ UNCHANGED <<obj, scope>>
    BY Zenon, <1>7 DEF AddNodesToNB, retryIfTransient, k8sVars
  <2>2. \A mp \in todo : mp[1] \in Machines /\ mp[2] \in Ports
    BY DEF TypeOK
  <2>3. UNCHANGED nb \/ \E m \in Machines, p \in Ports :
           Live(scope.nbID) /\ nb' = [nb EXCEPT ![scope.nbID].nodes[p] = @ \cup {m}]
    BY Zenon, <1>7, <2>2 DEF AddNodesToNB, AddNode
  <2>4. ASSUME NEW m \in Machines, NEW p \in Ports, Live(scope.nbID),
               nb' = [nb EXCEPT ![scope.nbID].nodes[p] = @ \cup {m}]
        PROVE  Kept
    <3>1. scope.nbID \in NodeBalancers
      BY <1>m, <2>4 DEF Live
    <3> QED
      BY Zenon, <2>4, <3>1, <1>t, OneNodeBalancer
  <2>5. Kept
    BY Zenon, <2>3, <2>4, <1>n
  <2> QED
    BY <2>1, <2>5, <1>q DEF Working
<1>8. CASE DeleteNodeBalancerNode
  <2>1. pc = "prune" /\ pc' \in {"prune", "return", "requeue"} /\ UNCHANGED <<obj, scope>>
    BY Zenon, <1>8 DEF DeleteNodeBalancerNode, retryIfTransient, k8sVars
  <2>2. \A m \in nodes \ getIPPortCombo : m \in Machines
    BY DEF TypeOK
  <2>3. UNCHANGED nb \/ \E m \in Machines :
           Live(scope.nbID) /\ nb' = [nb EXCEPT ![scope.nbID].nodes["api"] = @ \ {m}]
    BY Zenon, <1>8, <2>2 DEF DeleteNodeBalancerNode
  <2>4. Kept
    BY Zenon, <2>3, <1>m, <1>n, <1>t, OneNodeBalancer DEF Live
  <2> QED
    BY <2>1, <2>4, <1>q DEF Working
<1> QED
  BY Zenon, <1>1, <1>2, <1>3, <1>4, <1>5, <1>6, <1>7, <1>8

\* Every step has one of the effects, and the history of the faults grows.
LEMMA StepEffect ==
  ASSUME TypeOK, Course, Next
  PROVE  Effect /\ Grows
<1>1. InnerStep => InnerEffect
  BY Zenon, ControlEffect, CreateEffect DEF InnerStep
<1>2. Reconcile => Begins \/ Rests
  <2>1. "stale" \notin faults' => ~Fault("stale")
    BY Zenon, FaultRecorded
  <2> QED
    BY Zenon, <2>1, ScopeFields DEF Reconcile, Begins, Rests
<1>3. Close => Closes
  <2>1. "object" \in PatchParts
    BY DEF PatchParts
  <2> QED
    BY Zenon, <2>1, FaultRecorded DEF Close, Closes
<1>4. OuterStep => Rests
  BY Zenon, OuterFrame DEF Rests
<1>5. Crash => Dies
  BY Zenon, FaultRecorded DEF Crash, Dies
<1>6. CacheSync => Informs
  BY Zenon DEF CacheSync, Informs, ctrlVars, localVars
<1>7. UserDelete => Terminates
  BY Zenon DEF UserDelete, Terminates, ctrlVars, localVars, histVars
<1>8. ASSUME NEW n \in NodeBalancers, OutOfBand(n) PROVE Vanishes(n)
  <2>1. nb \in [NodeBalancers -> NodeBalancer]
    BY DEF TypeOK
  <2> QED
    BY Zenon, <1>8, <2>1, OneNodeBalancer, FaultRecorded
       DEF OutOfBand, Vanishes, ctrlVars, localVars, k8sVars
<1> QED
  BY Zenon, <1>1, <1>2, <1>3, <1>4, <1>5, <1>6, <1>7, <1>8, Steps, History DEF Effect

-----------------------------------------------------------------------------
(***************************************************************************)
(* The endpoint.                                                           *)
(***************************************************************************)
\* What every copy o of the cluster says, with the NodeBalancers x and the
\* faults f: EndpointSound, and that the user's endpoint comes without a
\* NodeBalancer, the configuration ids with the endpoint, and the id of a
\* NodeBalancer from the API.
Sound(o, x, f) ==
    /\ o.given => o.host /\ o.nbID = None
    /\ o.external => o.given
    /\ o.configIDs => o.host
    /\ o.nbID # None => x[o.nbID].state # "unused"
    /\ o.host /\ ~o.given /\ (o.nbID # None \/ ~o.deleting) =>
          /\ o.nbID # None /\ o.configIDs
          /\ x[o.nbID].state = "live" =>
                x[o.nbID].configs = Ports \/ {"stale", "outOfBand"} \subseteq f

AllSound ==
    /\ Sound(obj, nb, faults) /\ Sound(seen, nb, faults)
    /\ Sound(base, nb, faults) /\ Sound(scope, nb, faults)

\* A copy is older than the one it was taken from; an object that is gone stays
\* gone, a deletion is not taken back, and who gave the endpoint does not change.
Ordered ==
    /\ obj.exists \/ obj = Gone
    /\ ~seen.exists => ~obj.exists
    /\ seen.deleting => obj.deleting \/ ~obj.exists
    /\ base.deleting => seen.deleting \/ ~seen.exists
    /\ obj.exists => obj.given = seen.given
    /\ obj.exists /\ pc # "idle" => obj.given = base.given

\* There is at most one NodeBalancer: the API refuses a label that is taken.
OneLive == \A i, j \in NodeBalancers : nb[i].state = "live" /\ nb[j].state = "live" => i = j

\* A reconcile that knew of the deletion has run.
Dismantled == (seen.deleting \/ ~seen.exists) /\ (pc # "idle" => base.deleting)

\* Only such a reconcile takes the id of the NodeBalancer out of the spec, and,
\* but for deletions out of band, deletes a NodeBalancer.
Cleared ==
    /\ obj.host /\ ~obj.given /\ obj.nbID = None => Dismantled
    /\ (\E n \in NodeBalancers : nb[n].state = "deleted") /\ "outOfBand" \notin faults => Dismantled
    /\ obj.exists /\ obj.nbID = None /\ (seen.nbID # None \/ base.nbID # None) => Dismantled

\* The reconcile that makes the configurations knows the NodeBalancer that is there.
Attempt ==
    /\ pc = "configs" \/ (pc # "idle" /\ scope.host /\ ~base.host) =>
          \A n \in NodeBalancers : nb[n].state = "live" => n = scope.nbID
    /\ pc = "configs" /\ nb[scope.nbID].state = "live" => made \subseteq nb[scope.nbID].configs

\* Unless a copy is outdated, the endpoint is stored as the reconcile read it.
Current ==
    "stale" \notin faults /\ pc # "idle" /\ obj.exists => Alike(obj, base)

EndpointInv == AllSound /\ Ordered /\ OneLive /\ Cleared /\ Attempt /\ Current

\* The NodeBalancers x go on to y: an id is used once, and configurations of a
\* NodeBalancer that is there are not taken away.
Onward(x, y) ==
    \A n \in NodeBalancers :
        /\ x[n].state # "unused" => y[n].state # "unused"
        /\ y[n].state = "live" /\ x[n].state # "unused" =>
              x[n].state = "live" /\ x[n].configs \subseteq y[n].configs

\* Every effect is such a step.
LEMMA NodeBalancersGoOn ==
  ASSUME TypeOK, Effect
  PROVE  Onward(nb, nb')
<1>t. nb \in [NodeBalancers -> NodeBalancer]
  BY DEF TypeOK
<1>1. \A n \in NodeBalancers : Appears(n) \/ Disappears(n) => Onward(nb, nb')
  BY <1>t DEF Appears, Disappears, Onward, NodeBalancer
<1>2. UNCHANGED nb => Onward(nb, nb')
  BY DEF Onward
<1>3. Quiet => Onward(nb, nb')
  BY DEF Quiet, Onward
<1> QED
  BY Zenon, <1>1, <1>2, <1>3 DEF Effect, InnerEffect, Begins, TakesFinalizer, Names, Misses,
       Balances,
     Readies, Dismantles, Releases, Closes, Dies, Informs, Terminates, Vanishes, Rests

\* What is true of a copy stays true of it.
LEMMA SoundStays ==
  ASSUME TypeOK, TypeOK', Grows, Onward(nb, nb'), NEW o \in LinodeClusterObject, Sound(o, nb, faults)
  PROVE  Sound(o, nb', faults')
<1>1. o.nbID # None => o.nbID \in NodeBalancers
  BY DEF LinodeClusterObject
<1>2. \A n \in NodeBalancers : nb'[n].configs \subseteq Ports
  BY DEF TypeOK, NodeBalancer
<1>3. {"stale", "outOfBand"} \subseteq faults => {"stale", "outOfBand"} \subseteq faults'
  BY DEF Grows
<1>4. ASSUME o.nbID # None, nb'[o.nbID].state = "live" PROVE nb[o.nbID].state = "live" /\ nb[o.nbID].configs \subseteq nb'[o.nbID].configs
  BY <1>1, <1>4 DEF Onward, Sound
<1>5. ASSUME o.nbID # None, nb'[o.nbID].state = "live", nb[o.nbID].configs = Ports
      PROVE  nb'[o.nbID].configs = Ports
  BY <1>1, <1>2, <1>4, <1>5
<1>6. o.nbID # None => nb'[o.nbID].state # "unused"
  BY <1>1 DEF Onward, Sound
<1> QED
  BY Zenon, <1>3, <1>4, <1>5, <1>6 DEF Sound

\* It depends on the endpoint and on whether the cluster is being deleted.
LEMMA SoundLike ==
  ASSUME NEW o, NEW p, NEW x, NEW f, Sound(o, x, f),
         p.given = o.given /\ p.deleting = o.deleting /\ p.external = o.external /\ Alike(p, o)
  PROVE  Sound(p, x, f)
BY Zenon DEF Sound, Alike

\* So does what a deletion finds.
LEMMA SoundDeleted ==
  ASSUME NEW o, NEW p, NEW x, NEW f, Sound(o, x, f),
         p.given = o.given /\ p.deleting /\ p.external = o.external /\ Alike(p, o)
  PROVE  Sound(p, x, f)
BY Zenon DEF Sound, Alike

\* Of an object that is gone everything is true.
LEMMA SoundGone == \A x, f : Sound(Gone, x, f)
BY Constructors DEF Sound

\* What the deferred patch makes of the endpoint that is stored: nothing, what
\* handleNBCreate found, on top of what another reconcile stored meanwhile, or
\* what reconcileDelete left.
Outcome(o, u, b, s) ==
    \/ Alike(u, o)
    \/ /\ ~b.deleting /\ ~b.host /\ s.nbID # None
       /\ b.nbID = None \/ b.nbID = s.nbID
       /\ u.nbID = IF b.nbID = None THEN s.nbID ELSE o.nbID
       /\ IF s.host THEN u.host /\ u.configIDs ELSE u.host = o.host /\ u.configIDs = o.configIDs
    \/ /\ b.deleting /\ b.nbID # None /\ u.nbID = None
       /\ u.host = o.host /\ (u.configIDs => o.configIDs)

\* The deferred patch.
LEMMA CloseFields ==
  ASSUME TypeOK, Course, AllSound, Closes, obj.exists
  PROVE  /\ obj.finalizer /\ ~obj'.finalizer => base.finalizer /\ ~scope.finalizer
         /\ \/ obj' = Gone /\ obj.deleting
            \/ /\ obj' \in LinodeClusterObject
               /\ obj'.exists /\ obj'.deleting = obj.deleting /\ obj'.given = obj.given
               /\ obj'.external => obj.external \/ scope.external
               /\ Outcome(obj, obj', base, scope)
               /\ "lostPatch" \notin faults' /\ obj.nbID = base.nbID => obj'.nbID = scope.nbID
<1>t. obj \in LinodeClusterObject /\ base \in LinodeClusterObject /\ scope \in LinodeClusterObject
  BY Zenon DEF TypeOK
<1>1. PICK parts : /\ obj' = Stored(Patched(obj, base, scope, parts))
                   /\ "object" \in parts \/ "lostPatch" \in faults'
  BY Zenon DEF Closes
<1> DEFINE u == Patched(obj, base, scope, parts)
           sent == "object" \in parts
<1>2. Like(u, obj, Merged(sent, base.finalizer, scope.finalizer, obj.finalizer),
           Merged(sent, base.nbID, scope.nbID, obj.nbID), Merged(sent, base.host, scope.host, obj.host),
           Merged(sent, base.configIDs, scope.configIDs, obj.configIDs),
           Merged(sent, base.external, scope.external, obj.external))
  BY Zenon, <1>t, PatchedFields
<1>b. /\ base.configIDs => base.host
      /\ obj.configIDs => obj.host
  BY Zenon DEF AllSound, Sound
<1>e. Endpoint(scope, base)
  BY Zenon DEF Course
<1>bool. /\ obj.host \in BOOLEAN /\ obj.configIDs \in BOOLEAN /\ obj.finalizer \in BOOLEAN /\ obj.external \in BOOLEAN
         /\ base.host \in BOOLEAN /\ base.configIDs \in BOOLEAN /\ base.finalizer \in BOOLEAN
         /\ scope.host \in BOOLEAN /\ scope.configIDs \in BOOLEAN /\ scope.finalizer \in BOOLEAN
  BY Zenon, <1>t DEF LinodeClusterObject
<1> HIDE DEF u, sent
<1>3. CASE ~sent
  <2>1. Alike(u, obj) /\ u.finalizer = obj.finalizer /\ u.external = obj.external
    BY ONLY Zenon, <1>2, <1>3 DEF Like, Merged, Alike
  <2>2. "lostPatch" \in faults'
    BY <1>1, <1>3 DEF sent
  <2> QED
    BY Zenon, <1>1, <1>2, <2>1, <2>2, <1>t, StoredObject DEF Like, u, Outcome
<1>4. CASE sent
  <2>1. obj.finalizer /\ ~u.finalizer => base.finalizer /\ ~scope.finalizer
    BY ONLY Zenon, <1>2, <1>4, <1>bool DEF Like, Merged
  <2>2. u.external => obj.external \/ scope.external
    BY ONLY Zenon, <1>2, <1>4 DEF Like, Merged
  <2>3. obj.nbID = base.nbID => u.nbID = scope.nbID
    BY ONLY Zenon, <1>2, <1>4 DEF Like, Merged
  <2>4. Outcome(obj, u, base, scope)
    <3>1. CASE Alike(scope, base)
      BY ONLY Zenon, <1>2, <1>4, <3>1 DEF Like, Merged, Alike, Outcome
    <3>2. CASE /\ ~base.deleting /\ ~base.host /\ scope.nbID # None
               /\ base.nbID = None \/ base.nbID = scope.nbID
               /\ IF scope.host THEN scope.configIDs ELSE scope.configIDs = base.configIDs
      <4>1. u.nbID = IF base.nbID = None THEN scope.nbID ELSE obj.nbID
        BY ONLY Zenon, <1>2, <1>4, <3>2 DEF Like, Merged
      <4>2. IF scope.host THEN u.host /\ u.configIDs ELSE u.host = obj.host /\ u.configIDs = obj.configIDs
        BY ONLY <1>2, <1>4, <3>2, <1>b, <1>bool DEF Like, Merged
      <4> QED
        BY Zenon, <4>1, <4>2, <3>2 DEF Outcome
    <3>3. CASE /\ base.deleting /\ base.nbID # None /\ scope.nbID = None
               /\ ~scope.configIDs /\ scope.host = base.host
      <4>1. u.nbID = None /\ u.host = obj.host /\ (u.configIDs => obj.configIDs)
        BY ONLY <1>2, <1>4, <3>3, <1>bool DEF Like, Merged
      <4> QED
        BY Zenon, <4>1, <3>3 DEF Outcome
    <3> QED
      BY Zenon, <1>e, <3>1, <3>2, <3>3 DEF Endpoint
  <2>5. u \in LinodeClusterObject /\ u.exists = obj.exists /\ u.deleting = obj.deleting /\ u.given = obj.given
    BY ONLY Zenon, <1>2 DEF Like
  <2>6. obj' = Stored(u)
    BY <1>1 DEF u
  <2>7. CASE u.deleting /\ ~u.finalizer
    <3>1. obj' = Gone
      BY Zenon, <2>5, <2>6, <2>7, StoredObject
    <3> QED
      BY Zenon, <3>1, <2>1, <2>5, <2>7
  <2>8. CASE ~(u.deleting /\ ~u.finalizer)
    <3>1. obj' = u
      BY Zenon, <2>5, <2>6, <2>8, StoredObject
    <3> QED
      BY Zenon, <3>1, <2>1, <2>2, <2>3, <2>4, <2>5
  <2> QED
    BY <2>7, <2>8
<1> QED
  BY <1>3, <1>4

\* The steps inside a reconcile keep what its copy says about the endpoint true.
LEMMA InnerSound ==
  ASSUME TypeOK, TypeOK', Course, EndpointInv, Grows, Onward(nb, nb'), InnerEffect
  PROVE  AllSound'
<1>t. /\ obj \in LinodeClusterObject /\ seen \in LinodeClusterObject
      /\ base \in LinodeClusterObject /\ scope \in LinodeClusterObject
  BY Zenon DEF TypeOK
<1>i. Sound(obj, nb, faults) /\ Sound(seen, nb, faults) /\ Sound(base, nb, faults) /\ Sound(scope, nb, faults)
  BY Zenon DEF EndpointInv, AllSound
<1>s. /\ Sound(obj, nb', faults') /\ Sound(seen, nb', faults')
      /\ Sound(base, nb', faults') /\ Sound(scope, nb', faults')
  BY Zenon, <1>t, <1>i, SoundStays
<1>f. UNCHANGED <<seen, base>>
  BY Zenon DEF InnerEffect, TakesFinalizer, Quiet, Balances, Readies, Dismantles, Releases,
       Names, Misses
<1>o. Sound(obj', nb', faults')
  <2>1. CASE TakesFinalizer
    BY Zenon, <2>1, <1>s, SoundLike DEF TakesFinalizer, Like, Alike
  <2>2. CASE UNCHANGED obj
    BY Zenon, <2>2, <1>s
  <2> QED
    BY Zenon, <2>1, <2>2 DEF InnerEffect, Quiet, Balances, Readies, Dismantles, Releases,
         Names, Misses
<1>c. Sound(scope', nb', faults')
  <2>1. CASE TakesFinalizer \/ Quiet \/ Releases
    <3>1. scope'.given = scope.given /\ scope'.deleting = scope.deleting
          /\ scope'.external = scope.external /\ Alike(scope', scope)
      BY Zenon, <2>1 DEF TakesFinalizer, Quiet, Releases, Like, Alike
    <3> QED
      BY Zenon, <3>1, <1>s, SoundLike
  <2>2. CASE UNCHANGED scope
    BY Zenon, <2>2, <1>s
  <2>3. ASSUME NEW n \in NodeBalancers, Names(n) PROVE Sound(scope', nb', faults')
    <3>1. ~scope.host
      BY Zenon, <2>3 DEF Names, Course, Endpointless
    <3>2. nb'[n].state # "unused" /\ ~scope.given /\ ~scope.configIDs /\ ~scope.external
      BY Zenon, <2>3, <3>1, <1>i DEF Names, Appears, Sound
    <3> QED
      BY Zenon, <2>3, <3>1, <3>2 DEF Names, Like, Sound
  <2>4. CASE Balances
    <3>1. ~scope.host /\ ~scope.deleting /\ scope.nbID # None
      BY Zenon, <2>4 DEF Balances, Course, Endpointless, Working
    <3>2. ~scope.given /\ ~scope.external
      BY Zenon, <3>1, <1>i DEF Sound
    <3>3. nb[scope.nbID].state = "live" => nb[scope.nbID].configs = Ports
      <4>1. scope.nbID \in NodeBalancers
        BY <3>1, <1>t DEF LinodeClusterObject
      <4>2. nb[scope.nbID].configs \subseteq Ports
        BY <4>1 DEF TypeOK, NodeBalancer
      <4> QED
        BY <4>2, <2>4 DEF Balances, EndpointInv, Attempt
    <3>4. nb' = nb /\ nb[scope.nbID].state # "unused"
      BY Zenon, <2>4, <3>1, <1>i DEF Balances, Sound
    <3> QED
      BY Zenon, <2>4, <3>1, <3>2, <3>3, <3>4 DEF Balances, Like, Sound
  <2>5. CASE Readies
    <3>1. scope.host /\ ~scope.deleting
      BY Zenon, <2>5 DEF Readies, Course, Balancing, Working
    <3>2. scope'.external => scope.given
      BY Zenon, <2>5, <3>1, <1>i DEF Readies, Sound
    <3> QED
      BY Zenon, <2>5, <3>1, <3>2, <1>s DEF Readies, Like, Sound
  <2>6. CASE Dismantles
    <3>1. scope.deleting /\ scope.nbID # None
      BY Zenon, <2>6 DEF Dismantles, Course, Unwinding
    <3>2. ~scope.given /\ ~scope.external
      BY Zenon, <3>1, <1>i DEF Sound
    <3> QED
      BY Zenon, <2>6, <2>2, <3>1, <3>2 DEF Dismantles, Like, Sound
  <2> QED
    BY Zenon, <2>1, <2>2, <2>3, <2>4, <2>5, <2>6 DEF InnerEffect, Misses
<1> QED
  BY Zenon, <1>s, <1>f, <1>o, <1>c DEF AllSound

\* The deferred patch keeps it true of the stored object, also where it meets
\* what another reconcile stored.
LEMMA CloseSound ==
  ASSUME TypeOK, TypeOK', Course, EndpointInv, Grows, Closes
  PROVE  Sound(obj', nb', faults')
<1>t. /\ obj \in LinodeClusterObject /\ base \in LinodeClusterObject /\ scope \in LinodeClusterObject
      /\ nb \in [NodeBalancers -> NodeBalancer]
  BY Zenon DEF TypeOK
<1>n. nb' = nb /\ Onward(nb, nb')
  BY DEF Closes, Onward
<1>i. Sound(obj, nb, faults) /\ Sound(base, nb, faults) /\ Sound(scope, nb, faults)
  BY Zenon DEF EndpointInv, AllSound
<1>s. Sound(obj, nb, faults') /\ Sound(base, nb, faults') /\ Sound(scope, nb, faults')
  BY Zenon, <1>t, <1>i, <1>n, SoundStays
<1>1. CASE ~obj.exists
  BY Zenon, <1>1, <1>n, <1>s DEF Closes
<1>2. CASE obj.exists /\ obj' = Gone
  BY Zenon, <1>2, SoundGone
<1>3. CASE /\ obj.exists
           /\ obj'.deleting = obj.deleting /\ obj'.given = obj.given
           /\ obj'.external => obj.external \/ scope.external
           /\ Outcome(obj, obj', base, scope)
  <2>g. scope.given = base.given /\ scope.deleting = base.deleting /\ obj.given = base.given
    BY Zenon, <1>3 DEF Course, Closes, EndpointInv, Ordered
  <2>e. obj'.external => obj'.given
    BY Zenon, <1>3, <1>i, <2>g DEF Sound
  <2>1. CASE Alike(obj', obj)
    BY Zenon, <2>1, <2>e, <1>3, <1>n, <1>s DEF Sound, Alike
  <2>2. CASE /\ ~base.deleting /\ ~base.host /\ scope.nbID # None
             /\ base.nbID = None \/ base.nbID = scope.nbID
             /\ obj'.nbID = IF base.nbID = None THEN scope.nbID ELSE obj.nbID
             /\ IF scope.host THEN obj'.host /\ obj'.configIDs
                ELSE obj'.host = obj.host /\ obj'.configIDs = obj.configIDs
    <3>1. ~obj.given /\ ~scope.given
      BY Zenon, <2>2, <2>g, <1>i DEF Sound
    <3>2. ~Dismantled
      BY Zenon, <2>2 DEF Dismantled, Closes
    <3>3. obj.nbID # None \/ ~obj.host
      BY Zenon, <3>1, <3>2 DEF EndpointInv, Cleared
    <3>4. base.nbID # None => obj.nbID # None
      BY Zenon, <3>2, <1>3 DEF EndpointInv, Cleared
    <3>5. obj'.nbID # None /\ nb[obj'.nbID].state # "unused"
      BY Zenon, <2>2, <3>4, <1>i DEF Sound
    <3>6. scope.nbID \in NodeBalancers /\ (obj.nbID # None => obj.nbID \in NodeBalancers)
      BY <2>2, <1>t DEF LinodeClusterObject
    <3>7. CASE scope.host
      <4>1. \A n \in NodeBalancers : nb[n].state = "live" => n = scope.nbID
        BY Zenon, <2>2, <3>7 DEF EndpointInv, Attempt, Closes
      <4>2. nb[scope.nbID].state = "live" => nb[scope.nbID].configs = Ports \/ {"stale", "outOfBand"} \subseteq faults'
        BY Zenon, <3>7, <3>1, <2>2, <1>s DEF Sound
      <4>3. nb[obj'.nbID].state = "live" => nb[obj'.nbID].configs = Ports \/ {"stale", "outOfBand"} \subseteq faults'
        BY Zenon, <4>1, <4>2, <3>4, <3>6, <2>2
      <4> QED
        BY Zenon, <4>3, <3>1, <3>5, <3>7, <2>e, <2>2, <1>3, <1>n DEF Sound
    <3>8. CASE ~scope.host /\ obj.host
      <4>1. obj.nbID # None /\ obj.configIDs
        BY Zenon, <3>1, <3>3, <3>8, <1>i DEF Sound
      <4>2. nb[obj.nbID].state = "live" => nb[obj.nbID].configs = Ports \/ {"stale", "outOfBand"} \subseteq faults'
        BY Zenon, <4>1, <3>1, <3>8, <1>s DEF Sound
      <4>3. ASSUME base.nbID = None, obj.nbID # scope.nbID, nb[scope.nbID].state = "live"
            PROVE  {"stale", "outOfBand"} \subseteq faults'
        <5>1. nb[obj.nbID].state # "live" /\ nb[obj.nbID].state # "unused"
          BY Zenon, <4>1, <4>3, <3>6, <1>i DEF EndpointInv, OneLive, Sound
        <5>2. nb[obj.nbID].state = "deleted"
          BY <5>1, <4>1, <3>6, <1>t DEF NodeBalancer
        <5>3. "outOfBand" \in faults
          BY Zenon, <5>2, <4>1, <3>6, <3>2 DEF EndpointInv, Cleared
        <5>4. "stale" \in faults
          BY Zenon, <4>1, <4>3, <1>3 DEF EndpointInv, Current, Alike, Closes
        <5> QED
          BY <5>3, <5>4 DEF Grows
      <4>4. nb[obj'.nbID].state = "live" => nb[obj'.nbID].configs = Ports \/ {"stale", "outOfBand"} \subseteq faults'
        BY Zenon, <4>2, <4>3, <2>2
      <4> QED
        BY Zenon, <4>1, <4>4, <3>1, <3>5, <3>8, <2>e, <2>2, <1>3, <1>n DEF Sound
    <3>9. CASE ~scope.host /\ ~obj.host
      <4>1. ~obj.configIDs
        BY Zenon, <3>9, <1>i DEF Sound
      <4> QED
        BY Zenon, <4>1, <3>1, <3>5, <3>9, <2>e, <2>2, <1>3, <1>n DEF Sound
    <3> QED
      BY Zenon, <3>7, <3>8, <3>9
  <2>3. CASE /\ base.deleting /\ base.nbID # None /\ obj'.nbID = None
             /\ obj'.host = obj.host /\ (obj'.configIDs => obj.configIDs)
    <3>1. obj.deleting
      BY Zenon, <2>3, <1>3 DEF EndpointInv, Ordered
    <3>2. ~base.given
      BY Zenon, <2>3, <1>i DEF Sound
    <3>3. obj.configIDs => obj.host
      BY Zenon, <1>i DEF Sound
    <3> QED
      BY Zenon, <3>1, <3>2, <3>3, <2>e, <2>g, <2>3, <1>3, <1>n DEF Sound
  <2> QED
    BY Zenon, <1>3, <2>1, <2>2, <2>3 DEF Outcome
<1> QED
  BY Zenon, <1>1, <1>2, <1>3, CloseFields DEF EndpointInv

\* AllSound is kept.
LEMMA SoundKept ==
  ASSUME TypeOK, TypeOK', Course, EndpointInv, Grows, Effect
  PROVE  AllSound'
<1>t. /\ obj \in LinodeClusterObject /\ seen \in LinodeClusterObject
      /\ base \in LinodeClusterObject /\ scope \in LinodeClusterObject
  BY Zenon DEF TypeOK
<1>n. Onward(nb, nb')
  BY Zenon, NodeBalancersGoOn
<1>s. /\ Sound(obj, nb', faults') /\ Sound(seen, nb', faults')
      /\ Sound(base, nb', faults') /\ Sound(scope, nb', faults')
  BY Zenon, <1>t, <1>n, SoundStays DEF EndpointInv, AllSound
<1>g. Sound(Gone, nb', faults')
  BY Zenon, SoundGone
<1>1. CASE InnerEffect
  BY Zenon, <1>1, <1>n, InnerSound
<1>2. CASE Begins
  <2>1. Sound(scope', nb', faults')
    BY Zenon, <1>2, <1>s, SoundLike DEF Begins, SameAs, Like, Alike
  <2> QED
    BY Zenon, <2>1, <1>2, <1>s DEF Begins, AllSound
<1>3. CASE Closes
  BY Zenon, <1>3, <1>s, <1>g, CloseSound DEF Closes, AllSound
<1>4. CASE Terminates
  <2>1. Sound(obj', nb', faults')
    <3> DEFINE d == [obj EXCEPT !.deleting = TRUE]
    <3>1. Sound(d, nb', faults') /\ d \in LinodeClusterObject
      BY Zenon, <1>t, <1>s, DeletionRequest, SoundDeleted DEF Alike
    <3>2. obj' = Gone \/ obj' = d
      BY Zenon, <1>4, <3>1, StoredObject DEF Terminates
    <3> QED
      BY Zenon, <3>1, <3>2, <1>g
  <2> QED
    BY Zenon, <2>1, <1>4, <1>s DEF Terminates, AllSound
<1> QED
  BY Zenon, <1>1, <1>2, <1>3, <1>4, <1>s, <1>g
     DEF Effect, AllSound, Dies, Informs, Rests, Vanishes

\* Copies are taken from the cache, and the cache from the stored object.
LEMMA OrderKept ==
  ASSUME TypeOK, TypeOK', Course, EndpointInv, Effect
  PROVE  Ordered'
<1>t. obj \in LinodeClusterObject
  BY Zenon DEF TypeOK
<1>i. Ordered /\ AllSound
  BY Zenon DEF EndpointInv
<1>1. CASE InnerEffect
  <2>1. /\ UNCHANGED <<seen, base>> /\ pc # "idle"
        /\ \/ UNCHANGED obj
           \/ obj'.exists /\ obj'.exists = obj.exists /\ obj'.deleting = obj.deleting /\ obj'.given = obj.given
    BY Zenon, <1>1 DEF InnerEffect, TakesFinalizer, Quiet, Balances, Readies, Dismantles,
         Releases, Names,
       Misses, Like
  <2> QED
    BY Zenon, <2>1, <1>i DEF Ordered
<1>2. CASE Begins
  BY Zenon, <1>2, <1>i DEF Ordered, Begins
<1>3. CASE Closes
  <2>1. UNCHANGED seen /\ pc' = "idle" /\ ~base'.deleting
    BY Zenon, <1>3, Constructors DEF Closes
  <2>2. \/ obj' = Gone /\ ~obj'.exists
        \/ UNCHANGED obj
        \/ obj.exists /\ obj'.exists /\ obj'.deleting = obj.deleting /\ obj'.given = obj.given
    BY Zenon, <1>3, <1>i, CloseFields, Constructors DEF Closes
  <2> QED
    BY Zenon, <2>1, <2>2, <1>i DEF Ordered
<1>4. CASE Terminates
  <2>1. \/ obj' = Gone /\ ~obj'.exists
        \/ obj'.exists /\ obj'.deleting /\ obj'.given = obj.given
    BY Zenon, <1>4, <1>t, DeletionRequest, StoredObject, Constructors DEF Terminates
  <2> QED
    BY Zenon, <2>1, <1>4, <1>i DEF Ordered, Terminates
<1>5. CASE Informs
  BY Zenon, <1>5, <1>i DEF Ordered, Informs
<1>6. CASE Dies
  BY Zenon, <1>6, <1>i, Constructors DEF Ordered, Dies
<1> QED
  BY Zenon, <1>1, <1>2, <1>3, <1>4, <1>5, <1>6, <1>i DEF Effect, Ordered, Rests, Vanishes

\* A NodeBalancer is created where there is none.
LEMMA OneLiveKept ==
  ASSUME TypeOK, OneLive, Effect
  PROVE  OneLive'
<1>1. \A n \in NodeBalancers : Appears(n) => OneLive'
  BY DEF Appears, OneLive
<1>2. \A n \in NodeBalancers : Disappears(n) => OneLive'
  BY DEF Disappears, OneLive
<1>3. Quiet \/ UNCHANGED nb => OneLive'
  BY DEF Quiet, OneLive
<1> QED
  BY Zenon, <1>1, <1>2, <1>3 DEF Effect, InnerEffect, Begins, TakesFinalizer, Names, Misses,
       Balances,
     Readies, Dismantles, Releases, Closes, Dies, Informs, Terminates, Vanishes, Rests

\* Once a reconcile that knew of the deletion has run, all others do.
LEMMA DismantledStays ==
  ASSUME TypeOK, Course, Ordered, Effect, Dismantled
  PROVE  Dismantled'
<1>1. CASE InnerEffect
  BY Zenon, <1>1 DEF Dismantled, InnerEffect, TakesFinalizer, Quiet, Balances, Readies,
       Dismantles,
     Releases, Names, Misses
<1>2. CASE Begins
  BY Zenon, <1>2 DEF Dismantled, Begins
<1>3. CASE Informs \/ Dies
  BY Zenon, <1>3 DEF Dismantled, Ordered, Informs, Dies
<1> QED
  BY Zenon, <1>1, <1>2, <1>3 DEF Effect, Dismantled, Closes, Terminates, Rests, Vanishes

\* The id of the NodeBalancer leaves the spec at the end of such a reconcile.
LEMMA ClearedKept ==
  ASSUME TypeOK, TypeOK', Course, EndpointInv, Grows, Effect
  PROVE  Cleared'
<1>t. /\ obj \in LinodeClusterObject
      /\ nb \in [NodeBalancers -> NodeBalancer]
  BY Zenon DEF TypeOK
<1>i. AllSound /\ Ordered /\ Cleared
  BY Zenon DEF EndpointInv
<1>d. Dismantled => Dismantled'
  BY Zenon, <1>i, DismantledStays
<1>o. "outOfBand" \notin faults' => "outOfBand" \notin faults
  BY DEF Grows
<1>1. (\E n \in NodeBalancers : nb'[n].state = "deleted") /\ "outOfBand" \notin faults' => Dismantled'
  <2>1. CASE \A n \in NodeBalancers : nb'[n].state = "deleted" => nb[n].state = "deleted"
    BY Zenon, <2>1, <1>d, <1>o, <1>i DEF Cleared
  <2>2. CASE Dismantles
    <3>1. base.deleting
      BY Zenon, <2>2 DEF Dismantles, Course, Unwinding
    <3>2. Dismantled
      BY Zenon, <3>1, <1>i DEF Dismantled, Ordered
    <3> QED
      BY <3>2, <1>d
  <2>3. CASE \E n \in NodeBalancers : Vanishes(n)
    BY Zenon, <2>3 DEF Vanishes
  <2>4. ASSUME NEW n \in NodeBalancers, Appears(n)
        PROVE  \A k \in NodeBalancers : nb'[k].state = "deleted" => nb[k].state = "deleted"
    BY <2>4 DEF Appears
  <2>5. Quiet => \A k \in NodeBalancers : nb'[k].state = "deleted" => nb[k].state = "deleted"
    BY Zenon DEF Quiet
  <2> QED
    BY Zenon, <2>1, <2>2, <2>3, <2>4, <2>5
       DEF Effect, InnerEffect, Begins, TakesFinalizer, Names, Misses,
       Balances, Readies, Releases, Closes, Dies, Informs, Terminates, Rests
<1>2. /\ obj'.host /\ ~obj'.given /\ obj'.nbID = None => Dismantled'
      /\ obj'.exists /\ obj'.nbID = None /\ (seen'.nbID # None \/ base'.nbID # None) => Dismantled'
  <2>1. CASE UNCHANGED <<seen, base>> /\ Alike(obj', obj) /\ obj'.given = obj.given /\ obj'.exists = obj.exists
    BY Zenon, <2>1, <1>d, <1>i DEF Cleared, Alike
  <2>2. CASE obj' = Gone
    BY Zenon, <2>2, Constructors
  <2>3. CASE InnerEffect
    <3>1. UNCHANGED <<seen, base>> /\ Alike(obj', obj) /\ obj'.given = obj.given /\ obj'.exists = obj.exists
      BY Zenon, <2>3 DEF InnerEffect, TakesFinalizer, Quiet, Balances, Readies, Dismantles,
         Releases, Names, Misses, Like, Alike
    <3> QED
      BY <3>1, <2>1
  <2>4. CASE Begins
    BY Zenon, <2>4, <1>d, <1>i DEF Begins, Cleared
  <2>5. CASE Closes
    <3>1. UNCHANGED seen /\ base'.nbID = None
      BY Zenon, <2>5, Constructors DEF Closes
    <3>2. CASE UNCHANGED obj
      BY Zenon, <3>1, <3>2, <1>d, <1>i DEF Cleared
    <3>3. CASE obj.exists /\ obj'.given = obj.given /\ Outcome(obj, obj', base, scope)
      <4>1. CASE Alike(obj', obj)
        BY Zenon, <3>1, <3>3, <4>1, <1>d, <1>i DEF Cleared, Alike
      <4>2. CASE ~base.deleting /\ scope.nbID # None /\ obj'.nbID = IF base.nbID = None THEN scope.nbID ELSE obj.nbID
        BY Zenon, <3>1, <3>3, <4>2, <1>d, <1>i DEF Cleared
      <4>3. CASE base.deleting
        <5>1. Dismantled
          BY Zenon, <4>3, <1>i DEF Dismantled, Ordered
        <5> QED
          BY Zenon, <5>1, <1>d
      <4> QED
        BY Zenon, <3>3, <4>1, <4>2, <4>3 DEF Outcome
    <3> QED
      BY Zenon, <2>2, <2>5, <3>2, <3>3, <1>i, CloseFields DEF Closes
  <2>6. CASE Terminates
    <3>1. \/ obj' = Gone
          \/ UNCHANGED <<seen, base>> /\ Alike(obj', obj) /\ obj'.given = obj.given /\ obj'.exists = obj.exists
      BY Zenon, <2>6, <1>t, DeletionRequest, StoredObject DEF Terminates, Alike
    <3> QED
      BY <3>1, <2>1, <2>2
  <2>7. CASE Informs
    BY Zenon, <2>7, <1>d, <1>i DEF Informs, Cleared
  <2>8. CASE Dies
    BY Zenon, <2>8, <1>d, <1>i, Constructors DEF Dies, Cleared
  <2>9. CASE UNCHANGED <<obj, seen, base>>
    BY Zenon, <2>9, <1>d, <1>i DEF Cleared
  <2> QED
    BY Zenon, <2>3, <2>4, <2>5, <2>6, <2>7, <2>8, <2>9 DEF Effect, Vanishes, Rests
<1> QED
  BY Zenon, <1>1, <1>2 DEF Cleared

\* The NodeBalancer of a reconcile that makes configurations is the only one,
\* from EnsureNodeBalancer to the deferred patch.
LEMMA AttemptKept ==
  ASSUME TypeOK, TypeOK', Course, EndpointInv, Effect
  PROVE  Attempt'
<1>t. nb \in [NodeBalancers -> NodeBalancer] /\ scope \in LinodeClusterObject
  BY Zenon DEF TypeOK
<1>i. Attempt /\ OneLive
  BY Zenon DEF EndpointInv
<1>m. pc = "configs" => scope.nbID \in NodeBalancers
  BY <1>t DEF Course, LinodeClusterObject
<1>1. CASE Quiet
  <2>1. scope'.host = scope.host /\ scope'.nbID = scope.nbID /\ UNCHANGED base
    BY Zenon, <1>1 DEF Quiet, Like
  <2>2. pc' = "configs" => pc = "configs"
    BY Zenon, <1>1 DEF Quiet
  <2>3. \A n \in NodeBalancers : nb'[n].state = nb[n].state /\ nb[n].configs \subseteq nb'[n].configs
    BY Zenon, <1>1 DEF Quiet
  <2>4. ASSUME pc' = "configs", nb'[scope'.nbID].state = "live" PROVE made' \subseteq nb'[scope'.nbID].configs
    <3>1. scope.nbID \in NodeBalancers /\ nb[scope.nbID].state = "live"
      BY Zenon, <2>1, <2>2, <2>3, <2>4, <1>m
    <3>2. made' \subseteq made \cup nb'[scope.nbID].configs
      BY Zenon, <3>1, <2>4, <1>1, ClusterAssumptions DEF Quiet, Live
    <3>3. made \subseteq nb[scope.nbID].configs
      BY Zenon, <3>1, <2>2, <2>4, <1>i DEF Attempt
    <3> QED
      BY <3>1, <3>2, <3>3, <2>1, <2>3
  <2> QED
    BY Zenon, <1>1, <1>i, <2>1, <2>2, <2>3, <2>4 DEF Attempt, Quiet
<1>2. ASSUME NEW n \in NodeBalancers, Names(n) PROVE Attempt'
  <2>1. scope'.nbID = n /\ made' = {} /\ \A k \in NodeBalancers : nb'[k].state = "live" => k = n
    BY Zenon, <1>2, <1>i DEF Names, Like, Appears, OneLive
  <2> QED
    BY <2>1 DEF Attempt
<1>3. CASE Balances \/ Readies \/ Releases \/ TakesFinalizer
  <2>1. /\ UNCHANGED <<base, nb>> /\ scope'.nbID = scope.nbID /\ pc' # "configs"
        /\ pc = "configs" \/ (pc # "idle" /\ scope'.host = scope.host)
    BY Zenon, <1>3 DEF Balances, Readies, Releases, TakesFinalizer, Like
  <2> QED
    BY Zenon, <2>1, <1>i DEF Attempt
<1>4. CASE Dismantles
  <2>1. scope.host = base.host /\ scope'.host = scope.host /\ UNCHANGED base /\ pc' # "configs"
    BY Zenon, <1>4 DEF Dismantles, Course, Reading, Alike, Like
  <2> QED
    BY Zenon, <2>1 DEF Attempt
<1>5. ASSUME NEW n \in NodeBalancers, Misses(n) PROVE Attempt'
  <2>1. ~scope'.host /\ pc' # "configs"
    BY Zenon, <1>5 DEF Misses, Course, Endpointless
  <2> QED
    BY Zenon, <2>1 DEF Attempt
<1>6. CASE Begins
  BY Zenon, <1>6 DEF Begins, SameAs, Like, Attempt
<1>7. CASE Closes \/ Dies
  BY Zenon, <1>7 DEF Closes, Dies, Attempt
<1>8. ASSUME NEW n \in NodeBalancers, Vanishes(n) PROVE Attempt'
  <2>1. UNCHANGED <<base, scope, pc, made>> /\ Disappears(n)
    BY Zenon, <1>8 DEF Vanishes
  <2> QED
    BY <2>1, <1>i, <1>m DEF Attempt, Disappears
<1>9. CASE UNCHANGED <<base, scope, pc, nb, made>>
  BY Zenon, <1>9, <1>i DEF Attempt
<1> QED
  BY Zenon, <1>1, <1>2, <1>3, <1>4, <1>5, <1>6, <1>7, <1>8, <1>9
     DEF Effect, InnerEffect, Informs, Terminates, Rests

\* The stored endpoint changes at the end of a reconcile only.
LEMMA CurrentKept ==
  ASSUME TypeOK, Course, EndpointInv, Grows, Effect
  PROVE  Current'
<1>t. obj \in LinodeClusterObject
  BY Zenon DEF TypeOK
<1>i. Current
  BY Zenon DEF EndpointInv
<1>s. "stale" \notin faults' => "stale" \notin faults
  BY DEF Grows
<1>1. CASE InnerEffect
  <2>1. /\ UNCHANGED base /\ Alike(obj', obj) /\ obj'.exists = obj.exists
        /\ pc # "idle"
    BY Zenon, <1>1 DEF InnerEffect, TakesFinalizer, Quiet, Balances, Readies, Dismantles,
       Releases, Names, Misses, Like, Alike
  <2> QED
    BY Zenon, <2>1, <1>i, <1>s DEF Current, Alike
<1>2. CASE Begins
  BY Zenon, <1>2 DEF Begins, Current, Alike
<1>3. CASE Terminates
  <2>1. \/ obj' = Gone /\ ~obj'.exists
        \/ Alike(obj', obj) /\ obj'.exists = obj.exists
    BY Zenon, <1>3, <1>t, DeletionRequest, StoredObject, Constructors DEF Terminates, Alike
  <2> QED
    BY Zenon, <2>1, <1>3, <1>i, <1>s DEF Current, Alike, Terminates
<1>4. CASE Closes \/ Dies
  BY Zenon, <1>4 DEF Closes, Dies, Current
<1> QED
  BY Zenon, <1>1, <1>2, <1>3, <1>4, <1>i, <1>s DEF Effect, Informs, Rests, Vanishes, Current

\* The invariant behind EndpointSound.
THEOREM EndpointInvariant == Spec => []EndpointInv
<1>1. Init => EndpointInv
  <2> SUFFICES ASSUME Init PROVE EndpointInv
    OBVIOUS
  <2>1. PICK g \in BOOLEAN : obj = New(g)
    BY Zenon DEF Init
  <2>2. /\ obj.exists /\ ~obj.deleting /\ obj.given = g /\ obj.host = g /\ obj.nbID = None
        /\ obj.configIDs = FALSE /\ obj.external = FALSE
    BY <2>1 DEF New
  <2>3. Sound(obj, nb, faults) /\ Sound(Gone, nb, faults)
    BY Zenon, <2>2, SoundGone DEF Sound
  <2>4. AllSound
    BY Zenon, <2>3 DEF AllSound, Init
  <2>5. Ordered
    BY Zenon, <2>2, Constructors DEF Ordered, Init
  <2>6. OneLive /\ \A n \in NodeBalancers : nb[n].state # "deleted"
    BY DEF OneLive, Init, Unused
  <2>7. Cleared
    BY Zenon, <2>2, <2>6, Constructors DEF Cleared, Init
  <2>8. Attempt /\ Current
    BY Zenon DEF Attempt, Current, Init
  <2> QED
    BY <2>4, <2>5, <2>6, <2>7, <2>8 DEF EndpointInv
<1>2. TypeOK /\ TypeOK' /\ Course /\ EndpointInv /\ [Next]_vars => EndpointInv'
  <2> SUFFICES ASSUME TypeOK, TypeOK', Course, EndpointInv, [Next]_vars PROVE EndpointInv'
    OBVIOUS
  <2>1. CASE Next
    <3>1. Effect /\ Grows
      BY Zenon, <2>1, StepEffect
    <3>2. OneLive
      BY Zenon DEF EndpointInv
    <3> QED
      BY Zenon, <3>1, <3>2, SoundKept, OrderKept, OneLiveKept, ClearedKept, AttemptKept,
           CurrentKept
         DEF EndpointInv
  <2>2. CASE UNCHANGED vars
    BY Zenon, <2>2 DEF vars, k8sVars, localVars, histVars, EndpointInv, AllSound, Ordered,
         OneLive, Cleared,
       Dismantled, Attempt, Current
  <2> QED
    BY <2>1, <2>2
<1> QED
  BY <1>1, <1>2, TypeCorrect, CourseOfReconcile, PTL DEF Spec

\* What the cluster says about its endpoint is true in every copy of it and
\* whatever part of a patch got lost: handleNBCreate writes it to the spec after
\* the configurations, and the deferred patch merges it only with what is true
\* of the same NodeBalancer, or of one that is gone.
THEOREM EndpointIsSound == Spec => []EndpointSound
<1>1. TypeOK /\ EndpointInv => EndpointSound
  BY Zenon DEF EndpointInv, AllSound, Sound, EndpointSound, EndpointComplete,
       NeverExternalised, Live
<1> QED
  BY <1>1, TypeCorrect, EndpointInvariant, PTL

-----------------------------------------------------------------------------
(***************************************************************************)
(* The NodeBalancer and the deletion of the cluster.                       *)
(***************************************************************************)
Forgotten(f) == f \cap {"lostReply", "lostPatch", "crash", "stale"} # {}

\* Unless one of these faults happened, the NodeBalancer that is there is the one
\* of the spec, or of the reconcile's copy, and the finalizer holds the cluster.
Tracked ==
    ~Forgotten(faults) =>
        /\ \A n \in NodeBalancers : nb[n].state = "live" =>
              /\ obj.exists /\ obj.finalizer
              /\ n = IF pc = "idle" THEN obj.nbID ELSE scope.nbID
        /\ pc \in Working => obj.exists /\ obj.finalizer
        /\ pc \in {"credentials", "addFinalizer"} /\ scope.finalizer => obj.exists /\ obj.finalizer

\* Each step keeps track of the NodeBalancer.
LEMMA TrackedKept ==
  ASSUME TypeOK, TypeOK', Course, EndpointInv, Grows, Effect, Tracked
  PROVE  Tracked'
<1>t. obj \in LinodeClusterObject /\ nb \in [NodeBalancers -> NodeBalancer]
  BY Zenon DEF TypeOK
<1>i. OneLive /\ AllSound /\ Ordered /\ Current
  BY Zenon DEF EndpointInv
<1>f. /\ Forgotten(faults) => Forgotten(faults')
      /\ "lostReply" \in faults' \/ "lostPatch" \in faults' \/ "crash" \in faults' \/ "stale" \in faults'
            => Forgotten(faults')
  BY DEF Forgotten, Grows
<1> SUFFICES ASSUME ~Forgotten(faults')
             PROVE  /\ \A n \in NodeBalancers : nb'[n].state = "live" =>
                          /\ obj'.exists /\ obj'.finalizer
                          /\ n = IF pc' = "idle" THEN obj'.nbID ELSE scope'.nbID
                    /\ pc' \in Working => obj'.exists /\ obj'.finalizer
                    /\ pc' \in {"credentials", "addFinalizer"} /\ scope'.finalizer => obj'.exists /\ obj'.finalizer
  BY Zenon DEF Tracked
<1>k. /\ \A n \in NodeBalancers : nb[n].state = "live" =>
            /\ obj.exists /\ obj.finalizer
            /\ n = IF pc = "idle" THEN obj.nbID ELSE scope.nbID
      /\ pc \in Working => obj.exists /\ obj.finalizer
      /\ pc \in {"credentials", "addFinalizer"} /\ scope.finalizer => obj.exists /\ obj.finalizer
  BY Zenon, <1>f DEF Tracked
<1>1. CASE Begins
  BY Zenon, <1>1, <1>k, <1>f DEF Begins, SameAs, Like, Working
<1>2. CASE TakesFinalizer
  BY Zenon, <1>2, <1>k DEF TakesFinalizer, Like
<1>3. CASE Quiet
  BY Zenon, <1>3, <1>k DEF Quiet, Like
<1>4. ASSUME NEW n \in NodeBalancers, Names(n)
      PROVE  /\ \A j \in NodeBalancers : nb'[j].state = "live" => obj'.exists /\ obj'.finalizer /\ j = scope'.nbID
             /\ pc' = "configs" /\ obj'.exists /\ obj'.finalizer
  BY Zenon, <1>4, <1>k, <1>i DEF Names, Appears, Like, OneLive, Working
<1>5. CASE Balances \/ Readies \/ Releases
  BY Zenon, <1>5, <1>k DEF Balances, Readies, Releases, Like, Working
<1>6. CASE Dismantles
  <2>1. pc' = "wait" \/ pc' = "requeue"
    BY Zenon, <1>6 DEF Dismantles
  <2>2. \A j \in NodeBalancers : nb'[j].state # "live"
    BY <1>6, <1>k DEF Dismantles, Disappears
  <2> QED
    BY Zenon, <2>1, <2>2 DEF Working
<1>7. CASE Closes
  <2>1. ASSUME NEW n \in NodeBalancers, nb'[n].state = "live"
        PROVE  obj'.exists /\ obj'.finalizer /\ n = obj'.nbID
    <3>1. obj.exists /\ obj.finalizer /\ n = scope.nbID
      BY Zenon, <2>1, <1>7, <1>k DEF Closes
    <3>2. n # None
      BY Zenon, ClusterAssumptions
    <3>3. ~Releasable
      BY Zenon, <3>1, <3>2, <1>i DEF Releasable, AllSound, Sound
    <3>4. obj'.finalizer
      BY Zenon, <3>1, <3>3, <1>7, <1>i, CloseFields DEF Course
    <3>5. obj.nbID = base.nbID
      BY Zenon, <3>1, <1>7, <1>f, <1>i DEF Current, Alike, Closes, Grows
    <3> QED
      BY Zenon, <3>1, <3>4, <3>5, <1>7, <1>i, <1>f, CloseFields, Constructors
  <2> QED
    BY Zenon, <2>1, <1>7 DEF Closes, Working
<1>8. CASE Terminates
  <2>1. obj.finalizer => obj'.exists /\ obj'.finalizer /\ obj'.nbID = obj.nbID
    BY Zenon, <1>8, <1>t, DeletionRequest, StoredObject DEF Terminates
  <2> QED
    BY Zenon, <2>1, <1>8, <1>k DEF Terminates
<1>9. ASSUME NEW n \in NodeBalancers, Vanishes(n)
      PROVE  \A j \in NodeBalancers : nb'[j].state = "live" => nb[j].state = "live"
  BY <1>9 DEF Vanishes, Disappears
<1>10. ASSUME NEW n \in NodeBalancers, Vanishes(n) PROVE UNCHANGED <<obj, scope, pc>>
  BY Zenon, <1>10 DEF Vanishes
<1> QED
  BY Zenon, <1>1, <1>2, <1>3, <1>4, <1>5, <1>6, <1>7, <1>8, <1>9, <1>10, <1>k, <1>f
     DEF Effect, InnerEffect, Misses, Dies, Informs, Rests, Working

\* When reconcileDelete has let the cluster go, its NodeBalancer is gone: unless
\* an answer or a patch got lost, the controller died or a copy was outdated, the
\* id of the NodeBalancer is where reconcileDelete looks for it.
THEOREM NodeBalancerNotOrphaned == Spec => []NoOrphanNodeBalancer
<1>1. Init => Tracked
  <2> SUFFICES ASSUME Init PROVE Tracked
    OBVIOUS
  <2>1. \A n \in NodeBalancers : nb[n].state # "live"
    BY DEF Init, Unused
  <2> QED
    BY Zenon, <2>1 DEF Init, Tracked, Working
<1>2. TypeOK /\ TypeOK' /\ Course /\ EndpointInv /\ Tracked /\ [Next]_vars => Tracked'
  <2> SUFFICES ASSUME TypeOK, TypeOK', Course, EndpointInv, Tracked, [Next]_vars PROVE Tracked'
    OBVIOUS
  <2>1. CASE Next
    BY Zenon, <2>1, StepEffect, TrackedKept
  <2>2. CASE UNCHANGED vars
    BY Zenon, <2>2 DEF vars, k8sVars, histVars, Tracked
  <2> QED
    BY <2>1, <2>2
<1>3. Tracked => NoOrphanNodeBalancer
  BY Zenon DEF Tracked, NoOrphanNodeBalancer, Undisturbed, Forgotten, Live
<1> QED
  BY <1>1, <1>2, <1>3, TypeCorrect, CourseOfReconcile, EndpointInvariant, PTL DEF Spec

-----------------------------------------------------------------------------
(***************************************************************************)
(* The machines of the control plane.                                      *)
(***************************************************************************)
Reached == {"up", "gone"}

\* The lists are past states of the machines, which come up and go once: a
\* machine that has a node was up in the list of the reconcile that added it, so
\* it is up or gone in every later list.
MachineKnown(m) ==
    /\ mseen[m] = "gone" => mach[m] = "gone"
    /\ mseen[m] = "up" => mach[m] \in Reached
    /\ list[m] = "gone" => mach[m] = "gone"
    /\ list[m] = "up" => mseen[m] \in Reached
    /\ \A n \in NodeBalancers : m \in nb[n].nodes["api"] =>
          mseen[m] \in Reached /\ (pc # "idle" => list[m] \in Reached)
    /\ m \in nodes => list[m] \in Reached
    /\ \A p \in Ports : <<m, p>> \in todo => list[m] = "up"
    /\ pc \in {"listNodes", "addNodes", "prune"} => list[m] # "new"
    /\ "stale" \notin faults /\ base.deleting /\ list[m] = "absent" => mach[m] = "absent"

MachinesKnown == \A m \in Machines : MachineKnown(m)

\* Nodes of the API server's configuration are added by AddNodesToNB and, from
\* a NodeBalancer that stays, taken away by DeleteNodeBalancerNode.
Gains(n, m) ==
    m \in nb'[n].nodes["api"] =>
        m \in nb[n].nodes["api"] \/ \E p \in Ports : <<m, p>> \in todo

Keeps(n, m) ==
    m \in nb[n].nodes["api"] /\ nb'[n].state = "live" =>
        m \in nb'[n].nodes["api"] \/ (m \in nodes /\ list[m] # "up")

\* What the calls for one NodeBalancer do to the nodes.
LEMMA NodesOfOne ==
  ASSUME nb \in [NodeBalancers -> NodeBalancer], NEW k \in NodeBalancers,
         NEW n \in NodeBalancers, NEW m \in Machines
  PROVE  /\ nb' = [nb EXCEPT ![k].state = "live"] => nb'[n].nodes = nb[n].nodes
         /\ \A p \in Ports : nb' = [nb EXCEPT ![k].configs = @ \cup {p}] => nb'[n].nodes = nb[n].nodes
         /\ nb' = [nb EXCEPT ![k] = [Unused EXCEPT !.state = "deleted"]] =>
               /\ m \in nb'[n].nodes["api"] => m \in nb[n].nodes["api"]
               /\ nb'[n].state = "live" => nb'[n].nodes = nb[n].nodes
         /\ \A q \in Machines, p \in Ports : nb' = [nb EXCEPT ![k].nodes[p] = @ \cup {q}] =>
               /\ m \in nb'[n].nodes["api"] => m \in nb[n].nodes["api"] \/ m = q
               /\ m \in nb[n].nodes["api"] => m \in nb'[n].nodes["api"]
         /\ \A q \in Machines : nb' = [nb EXCEPT ![k].nodes["api"] = @ \ {q}] =>
               /\ m \in nb'[n].nodes["api"] => m \in nb[n].nodes["api"]
               /\ m \in nb[n].nodes["api"] => m \in nb'[n].nodes["api"] \/ m = q
<1>a. "api" \in Ports
  BY DEF Ports
<1>1. nb' = [nb EXCEPT ![k].state = "live"] => nb'[n].nodes = nb[n].nodes
  BY DEF NodeBalancer
<1>2. \A p \in Ports : nb' = [nb EXCEPT ![k].configs = @ \cup {p}] => nb'[n].nodes = nb[n].nodes
  BY DEF NodeBalancer
<1>3. nb' = [nb EXCEPT ![k] = [Unused EXCEPT !.state = "deleted"]] =>
               /\ m \in nb'[n].nodes["api"] => m \in nb[n].nodes["api"]
               /\ nb'[n].state = "live" => nb'[n].nodes = nb[n].nodes
  BY <1>a DEF NodeBalancer, Unused
<1>4. \A q \in Machines, p \in Ports : nb' = [nb EXCEPT ![k].nodes[p] = @ \cup {q}] =>
               /\ m \in nb'[n].nodes["api"] => m \in nb[n].nodes["api"] \/ m = q
               /\ m \in nb[n].nodes["api"] => m \in nb'[n].nodes["api"]
  BY <1>a DEF NodeBalancer
<1>5. \A q \in Machines : nb' = [nb EXCEPT ![k].nodes["api"] = @ \ {q}] =>
               /\ m \in nb'[n].nodes["api"] => m \in nb[n].nodes["api"]
               /\ m \in nb[n].nodes["api"] => m \in nb'[n].nodes["api"] \/ m = q
  BY <1>a DEF NodeBalancer
<1> QED
  BY Zenon, <1>1, <1>2, <1>3, <1>4, <1>5

\* Every step gains and keeps nodes this way.
LEMMA NodesEffect ==
  ASSUME TypeOK, Course, Next, NEW n \in NodeBalancers, NEW m \in Machines
  PROVE  Gains(n, m) /\ Keeps(n, m)
<1> DEFINE Goal == Gains(n, m) /\ Keeps(n, m)
<1>t. /\ nb \in [NodeBalancers -> NodeBalancer] /\ todo \subseteq Machines \X Ports /\ nodes \subseteq Machines
      /\ scope.nbID \in NodeBalancers \cup {None}
  BY DEF TypeOK, LinodeClusterObject
<1>l. Live(scope.nbID) => scope.nbID \in NodeBalancers
  BY <1>t DEF Live
<1>s. ASSUME nb'[n].nodes = nb[n].nodes PROVE Goal
  BY Zenon, <1>s DEF Gains, Keeps
<1>d. ASSUME NEW k \in NodeBalancers, nb' = [nb EXCEPT ![k] = [Unused EXCEPT !.state = "deleted"]]
      PROVE  Goal
  <2>1. /\ m \in nb'[n].nodes["api"] => m \in nb[n].nodes["api"]
        /\ nb'[n].state = "live" => nb'[n].nodes = nb[n].nodes
    BY Zenon, <1>d, <1>t, NodesOfOne
  <2> QED
    BY Zenon, <2>1 DEF Gains, Keeps
<1>1. CASE EnsureNodeBalancer
  <2>1. UNCHANGED nb \/ \E k \in NodeBalancers : nb' = [nb EXCEPT ![k].state = "live"]
    BY Zenon, <1>1 DEF EnsureNodeBalancer
  <2> QED
    BY Zenon, <2>1, <1>t, <1>s, NodesOfOne
<1>2. CASE EnsureNodeBalancerConfigs
  <2>1. UNCHANGED nb \/ \E p \in Ports : Live(scope.nbID) /\ nb' = [nb EXCEPT ![scope.nbID].configs = @ \cup {p}]
    BY Zenon, <1>2 DEF EnsureNodeBalancerConfigs
  <2> QED
    BY Zenon, <2>1, <1>l, <1>t, <1>s, NodesOfOne
<1>3. CASE AddNodesToNB
  <2>1. UNCHANGED nb \/ \E mp \in todo : Live(scope.nbID) /\ nb' = [nb EXCEPT ![scope.nbID].nodes[mp[2]] = @ \cup {mp[1]}]
    BY Zenon, <1>3 DEF AddNodesToNB, AddNode
  <2>2. ASSUME NEW mp \in todo, Live(scope.nbID), nb' = [nb EXCEPT ![scope.nbID].nodes[mp[2]] = @ \cup {mp[1]}]
        PROVE  Goal
    <3>1. mp[1] \in Machines /\ mp[2] \in Ports /\ <<mp[1], mp[2]>> \in todo
      BY <1>t
    <3>2. /\ m \in nb'[n].nodes["api"] => m \in nb[n].nodes["api"] \/ m = mp[1]
          /\ m \in nb[n].nodes["api"] => m \in nb'[n].nodes["api"]
      BY Zenon, <2>2, <3>1, <1>l, <1>t, NodesOfOne
    <3> QED
      BY Zenon, <3>1, <3>2 DEF Gains, Keeps
  <2> QED
    BY Zenon, <2>1, <2>2, <1>s
<1>4. CASE DeleteNodeBalancerNode
  <2>1. UNCHANGED nb \/ \E q \in nodes \ getIPPortCombo : Live(scope.nbID) /\ nb' = [nb EXCEPT ![scope.nbID].nodes["api"] = @ \ {q}]
    BY Zenon, <1>4 DEF DeleteNodeBalancerNode
  <2>2. ASSUME NEW q \in nodes \ getIPPortCombo, Live(scope.nbID), nb' = [nb EXCEPT ![scope.nbID].nodes["api"] = @ \ {q}]
        PROVE  Goal
    <3>1. q \in Machines /\ q \in nodes /\ list[q] # "up"
      BY <1>t DEF getIPPortCombo, Listed
    <3>2. /\ m \in nb'[n].nodes["api"] => m \in nb[n].nodes["api"]
          /\ m \in nb[n].nodes["api"] => m \in nb'[n].nodes["api"] \/ m = q
      BY Zenon, <2>2, <3>1, <1>l, <1>t, NodesOfOne
    <3> QED
      BY Zenon, <3>1, <3>2 DEF Gains, Keeps
  <2> QED
    BY Zenon, <2>1, <2>2, <1>s
<1>5. CASE DeleteNodeBalancer
  <2>1. UNCHANGED nb \/ nb' = [nb EXCEPT ![scope.nbID] = [Unused EXCEPT !.state = "deleted"]]
    BY Zenon, <1>5 DEF DeleteNodeBalancer
  <2>2. scope.nbID \in NodeBalancers
    BY <1>5, <1>t DEF DeleteNodeBalancer, Course
  <2> QED
    BY Zenon, <2>1, <2>2, <1>s, <1>d
<1>6. CASE \E k \in NodeBalancers : OutOfBand(k)
  BY Zenon, <1>6, <1>d DEF OutOfBand
<1>7. CASE UNCHANGED nb
  BY Zenon, <1>7, <1>s
<1> QED
  BY Zenon, <1>1, <1>2, <1>3, <1>4, <1>5, <1>6, <1>7, Steps, OuterFrame
     DEF InnerStep, SetCredentialRefTokenForLinodeClients, AddFinalizer,
       reconcilePreflightLinodeVPCCheck, reconcilePreflightLinodeFirewallCheck, CheckDependency,
       AddCredentialsRefFinalizer, getNBFromLabel, handleNBCreate, SetReady, ListNodeBalancerNodes,
       DeleteNodesFromNB, reconcileDelete, RemoveCredentialsRefFinalizer,
       Reconcile, Close, Crash, CacheSync, UserDelete

\* What the reconcile learns of a machine m inside a step: the nodes it lists are
\* those of its NodeBalancer, and only listed machines get nodes, once all of
\* them are up.
LEMMA ListsEffect ==
  ASSUME TypeOK, Course, InnerStep, NEW m \in Machines
  PROVE  /\ m \in nodes' => m \in nodes \/ \E n \in NodeBalancers : m \in nb[n].nodes["api"]
         /\ \A p \in Ports : <<m, p>> \in todo' => <<m, p>> \in todo \/ (pc = "listNodes" /\ m \in Listed)
         /\ pc' \in {"listNodes", "addNodes", "prune"} =>
               pc \in {"listNodes", "addNodes", "prune"} \/ list[m] # "new"
<1>l. Live(scope.nbID) => scope.nbID \in NodeBalancers
  BY DEF Live, TypeOK, LinodeClusterObject
<1>1. CASE SetReady
  <2>1. UNCHANGED <<nodes, todo>>
    BY Zenon, <1>1 DEF SetReady, localVars
  <2>2. pc' \in {"return", "listNodes"}
    BY Zenon, <1>1 DEF SetReady
  <2>3. pc' = "listNodes" => list[m] # "new"
    BY <1>1, ReadyExternal DEF Listed
  <2> QED
    BY <2>1, <2>2, <2>3
<1>2. CASE ListNodeBalancerNodes
  <2>1. pc = "listNodes"
    BY Zenon, <1>2 DEF ListNodeBalancerNodes
  <2>2. \/ UNCHANGED <<nodes, todo>>
        \/ /\ Live(scope.nbID) /\ nodes' = nb[scope.nbID].nodes["api"]
           /\ todo' = {mp \in Listed \X Ports : mp[2] = "api" => mp[1] \notin nodes'}
    BY Zenon, <1>2 DEF ListNodeBalancerNodes
  <2> QED
    BY <2>1, <2>2, <1>l
<1>3. CASE AddNodesToNB
  <2>1. pc = "addNodes" /\ UNCHANGED nodes /\ (todo' = todo \/ \E mp \in todo : todo' = todo \ {mp})
    BY Zenon, <1>3 DEF AddNodesToNB
  <2> QED
    BY <2>1
<1>4. CASE DeleteNodeBalancerNode
  <2>1. pc = "prune" /\ UNCHANGED todo /\ (nodes' = nodes \/ \E q \in nodes : nodes' = nodes \ {q})
    BY Zenon, <1>4 DEF DeleteNodeBalancerNode
  <2> QED
    BY <2>1
<1>5. ASSUME ~SetReady, ~ListNodeBalancerNodes, ~AddNodesToNB, ~DeleteNodeBalancerNode
      PROVE  UNCHANGED <<nodes, todo>> /\ pc' \notin {"listNodes", "addNodes", "prune"}
  BY Zenon, <1>5
     DEF InnerStep, SetCredentialRefTokenForLinodeClients, AddFinalizer,
       reconcilePreflightLinodeVPCCheck, reconcilePreflightLinodeFirewallCheck, CheckDependency,
       DependencyMissing, WithNodeBalancer, Error, WaitForMachines, localVars,
       AddCredentialsRefFinalizer, EnsureNodeBalancer, getNBFromLabel, EnsureNodeBalancerConfigs,
       handleNBCreate, DeleteNodesFromNB, DeleteNodeBalancer, reconcileDelete, RemoveCredentialsRefFinalizer
<1> QED
  BY Zenon, <1>1, <1>2, <1>3, <1>4, <1>5

\* It stays known.
LEMMA MachineKnownKept ==
  ASSUME TypeOK, TypeOK', Course, EndpointInv, Next, NEW m \in Machines, MachineKnown(m)
  PROVE  MachineKnown(m)'
<1>t. /\ mach \in [Machines -> MachineState] /\ mseen \in [Machines -> MachineState]
      /\ list \in [Machines -> MachineState]
  BY DEF TypeOK
<1>n. \A n \in NodeBalancers : Gains(n, m)
  BY Zenon, NodesEffect
<1>g. "stale" \notin faults' => "stale" \notin faults
  BY History DEF Grows
<1>k. \A n \in NodeBalancers : m \in nb'[n].nodes["api"] => mseen[m] \in Reached /\ (pc # "idle" => list[m] \in Reached)
  <2>1. ASSUME NEW p \in Ports, <<m, p>> \in todo PROVE list[m] \in Reached /\ mseen[m] \in Reached /\ pc # "idle"
    BY <2>1 DEF MachineKnown, Reached, Course
  <2> QED
    BY Zenon, <1>n, <2>1 DEF Gains, MachineKnown
<1>1. CASE InnerStep
  <2>1. UNCHANGED <<mach, mseen, base, list>>
    BY Zenon, <1>1, InnerFrame
  <2>2. pc # "idle"
    BY Zenon, <1>1, ControlEffect, CreateEffect
       DEF InnerStep, InnerEffect, TakesFinalizer, Quiet, Balances,
       Readies, Dismantles, Releases, Names, Misses
  <2>3. m \in nodes' => list[m] \in Reached
    BY Zenon, <1>1, <2>2, ListsEffect DEF MachineKnown
  <2>4. \A p \in Ports : <<m, p>> \in todo' => list[m] = "up"
    <3>1. m \in Listed => list[m] \in {"new", "up"}
      BY DEF Listed
    <3>2. pc = "listNodes" => list[m] # "new"
      BY Zenon DEF MachineKnown
    <3> QED
      BY <1>1, <3>1, <3>2, ListsEffect DEF MachineKnown
  <2>5. pc' \in {"listNodes", "addNodes", "prune"} => list[m] # "new"
    BY Zenon, <1>1, ListsEffect DEF MachineKnown
  <2> QED
    BY Zenon, <1>k, <1>g, <2>1, <2>2, <2>3, <2>4, <2>5 DEF MachineKnown
<1>2. CASE Reconcile
  <2>1. pc = "idle" /\ nodes = {} /\ todo = {} /\ UNCHANGED <<mach, mseen, nodes, todo>>
    BY Zenon, <1>2 DEF Reconcile, Course
  <2>2. CASE UNCHANGED <<pc, base, list>>
    BY <2>1, <2>2, <1>k, <1>g DEF MachineKnown
  <2>3. CASE list' = mseen /\ pc' = "credentials" /\ ("stale" \notin faults' => mseen = mach)
    BY <2>1, <2>3, <1>k, <1>g DEF MachineKnown, Reached
  <2> QED
    BY Zenon, <1>2, <2>2, <2>3, FaultRecorded DEF Reconcile
<1>3. CASE Close \/ Crash
  <2>1. /\ pc' = "idle" /\ base' = Gone /\ nodes' = {} /\ todo' = {} /\ UNCHANGED mach
        /\ list' = [q \in Machines |-> "absent"] /\ (UNCHANGED mseen \/ mseen' = mach)
    BY Zenon, <1>3 DEF Close, Crash
  <2>2. ~base'.deleting /\ list'[m] = "absent"
    BY <2>1, Constructors
  <2> QED
    BY <2>1, <2>2, <1>k DEF MachineKnown, Reached
<1>4. CASE OuterStep
  <2>1. UNCHANGED <<pc, base, list, nodes, todo>>
    BY Zenon, <1>4, OuterFrame
  <2>2. CASE UNCHANGED <<mach, mseen>>
    BY <2>1, <2>2, <1>k, <1>g DEF MachineKnown
  <2>3. ASSUME NEW q \in Machines, linodeMachineToLinodeCluster(q) PROVE MachineKnown(m)'
    <3>1. UNCHANGED mach /\ mseen'[m] \in {mseen[m], mach[m]}
      BY <2>3, <1>t DEF linodeMachineToLinodeCluster
    <3> QED
      BY <2>1, <3>1, <1>k, <1>g DEF MachineKnown, Reached
  <2>4. ASSUME NEW q \in Machines, MachineCreated(q) PROVE MachineKnown(m)'
    <3>1. /\ UNCHANGED mseen /\ (mach'[m] = mach[m] \/ (mach[m] = "absent" /\ mach'[m] = "new"))
      BY <2>4, <1>t DEF MachineCreated
    <3>2. ~base.deleting
      BY Zenon, <2>4 DEF MachineCreated, EndpointInv, Ordered
    <3> QED
      BY <2>1, <3>1, <3>2, <1>k, <1>g DEF MachineKnown, Reached
  <2>5. ASSUME NEW q \in Machines, MachineUp(q) \/ MachineDeleted(q) PROVE MachineKnown(m)'
    <3>1. /\ UNCHANGED mseen
          /\ \/ mach'[m] = mach[m]
             \/ mach[m] = "new" /\ mach'[m] = "up"
             \/ mach[m] \in {"new", "up"} /\ mach'[m] = "gone"
      BY <2>5, <1>t DEF MachineUp, MachineDeleted
    <3> QED
      BY <2>1, <3>1, <1>k, <1>g DEF MachineKnown, Reached
  <2> QED
    BY Zenon, <1>4, <2>2, <2>3, <2>4, <2>5
       DEF OuterStep, Wakeup, UserDeletesSecret, DependencyReady, k8sVars
<1>5. CASE UNCHANGED <<pc, base, mach, mseen, list, nodes, todo>>
  BY <1>5, <1>k, <1>g DEF MachineKnown
<1> QED
  BY Zenon, <1>1, <1>2, <1>3, <1>4, <1>5, Steps
     DEF CacheSync, UserDelete, OutOfBand, ctrlVars, localVars, k8sVars

\* The machines stay known.
THEOREM MachinesAreKnown == Spec => []MachinesKnown
<1>1. Init => MachinesKnown
  BY DEF Init, MachinesKnown, MachineKnown, Reached, Unused, Ports
<1>2. TypeOK /\ TypeOK' /\ Course /\ EndpointInv /\ MachinesKnown /\ [Next]_vars => MachinesKnown'
  <2> SUFFICES ASSUME TypeOK, TypeOK', Course, EndpointInv, MachinesKnown, [Next]_vars PROVE MachinesKnown'
    OBVIOUS
  <2>1. CASE Next
    BY Zenon, <2>1, MachineKnownKept DEF MachinesKnown
  <2>2. CASE UNCHANGED vars
    BY Zenon, <2>2 DEF vars, k8sVars, localVars, histVars, MachinesKnown, MachineKnown
  <2> QED
    BY <2>1, <2>2
<1> QED
  BY <1>1, <1>2, TypeCorrect, CourseOfReconcile, EndpointInvariant, PTL DEF Spec

\* addMachineToLB never takes a machine out of the NodeBalancer that is up,
\* however old its list of the machines and the cache are.
THEOREM NodesAreKept == Spec => NodeKept
<1>1. TypeOK /\ Course /\ MachinesKnown /\ [Next]_vars =>
         [\A n \in NodeBalancers, m \in Machines :
             m \in nb[n].nodes["api"] /\ Live(n)' /\ m \notin nb'[n].nodes["api"] =>
                 mach[m] = "gone"]_vars
  <2> SUFFICES ASSUME TypeOK, Course, MachinesKnown, Next,
                      NEW n \in NodeBalancers, NEW m \in Machines,
                      m \in nb[n].nodes["api"], Live(n)', m \notin nb'[n].nodes["api"]
               PROVE  mach[m] = "gone"
    BY Zenon
  <2>1. m \in nodes /\ list[m] # "up"
    BY Zenon, NodesEffect DEF Keeps, Live
  <2> QED
    BY <2>1 DEF MachinesKnown, MachineKnown, Reached
<1> QED
  BY <1>1, TypeCorrect, CourseOfReconcile, MachinesAreKnown, PTL DEF Spec, NodeKept

\* reconcileDelete lets the cluster go only after the machines of its control
\* plane, unless its list of them is outdated: none is created any more once the
\* deletion is known.
THEOREM MachinesGoFirst == Spec => NoMachineLeft
<1>1. TypeOK /\ Course /\ EndpointInv /\ MachinesKnown /\ [Next]_vars =>
         [obj.finalizer /\ ~obj'.exists /\ Undisturbed({"stale"}) =>
             \A m \in Machines : mach[m] \in {"absent", "gone"}]_vars
  <2> SUFFICES ASSUME TypeOK, Course, EndpointInv, MachinesKnown, Next,
                      obj.finalizer, ~obj'.exists, Undisturbed({"stale"}), NEW m \in Machines
               PROVE  mach[m] \in {"absent", "gone"}
    BY Zenon
  <2>1. Effect
    BY Zenon, StepEffect
  <2>2. obj.exists
    BY Zenon, Constructors DEF EndpointInv, Ordered
  <2>3. obj \in LinodeClusterObject /\ list \in [Machines -> MachineState]
    BY Zenon DEF TypeOK
  <2>4. Closes
    <3>1. ~UNCHANGED obj
      BY Zenon, <2>2
    <3>2. ~Terminates
      BY Zenon, <2>2, <2>3, DeletionRequest, Constructors DEF Terminates, Stored
    <3> QED
      BY Zenon, <2>1, <3>1, <3>2, <2>2
         DEF Effect, InnerEffect, Begins, TakesFinalizer, Quiet, Names, Misses,
         Balances, Readies, Dismantles, Releases, Dies, Informs, Rests, Vanishes, Like
  <2>5. ~obj'.finalizer
    BY Zenon, <2>2, <2>4, CloseFields, Constructors DEF EndpointInv
  <2>6. Releasable
    BY Zenon, <2>2, <2>4, <2>5, CloseFields DEF EndpointInv, Course
  <2>7. list[m] \in {"absent", "gone"}
    BY <2>3, <2>6 DEF Releasable, Listed, MachineState
  <2> QED
    BY <2>6, <2>7 DEF MachinesKnown, MachineKnown, Releasable, Undisturbed
<1> QED
  BY <1>1, TypeCorrect, CourseOfReconcile, EndpointInvariant, MachinesAreKnown, PTL
     DEF Spec, NoMachineLeft

=============================================================================
