--------------------------- MODULE LinodeVPCProofs ---------------------------
(***************************************************************************)
(* Proofs about the LinodeVPC controller alone, for any sets of VPCs and   *)
(* subnets and any number of errors and faults: it implements              *)
(* ManagedResource, keeps the subnets that the user lists, deletes nothing *)
(* that is to be retained, and holds the credentials Secret for as long as *)
(* it needs it.                                                            *)
(***************************************************************************)
EXTENDS LinodeVPC, TLAPS

VPCNext ==
    \/ VPCStep
    \/ VPCEnvironment
    \/ Environment /\ UNCHANGED vpcVars

controllerVars == <<reconcilerVars, vpcVars>>

\* The controller alone, with one new object; MCResources has these behaviours too.
VPCSpec ==
    VPCInit /\ ReconcilerInit({"vpc"}, MaxFaults) /\ [][VPCNext]_controllerVars

-----------------------------------------------------------------------------
\* Spec.Subnets, as NewVPC has it.
SubnetMap == UNION {[D -> BOOLEAN] : D \in SUBSET Subnets}

VPCObject ==
    [exists: BOOLEAN, deleting: BOOLEAN, finalizers: SUBSET {"vpc"}, ready: BOOLEAN,
     id: VPCs \cup {None}, retain: BOOLEAN, subnets: SubnetMap]

Network ==
    [state: {"unused", "live", "deleted"}, named: BOOLEAN, own: BOOLEAN,
     subnets: SUBSET Subnets, nodes: SUBSET Subnets]

Found == [subnets: SUBSET Subnets, nodes: SUBSET Subnets, done: SUBSET Subnets]

Creating == {"addFinalizer", "addCredentials", "list", "create", "subnets"}
Deleting == {"get", "delete", "deleteSubnets", "release"}
Places == {"idle", "credentials", "return", "requeue"} \cup Creating \cup Deleting

Running == pc["vpc"] # "idle"

Held(o) == "vpc" \in o.finalizers

Owned(i) == vpc[i].state = "live" /\ vpc[i].own

Types ==
    /\ obj \in [{"vpc"} -> VPCObject]
    /\ seen \in [{"vpc"} -> VPCObject]
    /\ pc \in [{"vpc"} -> Places]
    /\ scope \in [{"vpc"} -> VPCObject \cup {None}]
    /\ base \in [{"vpc"} -> VPCObject \cup {None}]
    /\ Running => scope["vpc"] \in VPCObject /\ base["vpc"] \in VPCObject
    /\ faults \in [{"vpc"} -> SUBSET Faults]
    /\ vpc \in [VPCs -> Network]
    /\ found \in Found
    /\ wanted \in SUBSET Subnets

\* An object with its finalizer exists; one that is gone was deleted.
Kept ==
    /\ Held(obj["vpc"]) => obj["vpc"].exists
    /\ ~obj["vpc"].exists => obj["vpc"].deleting

\* A deletion that the cache or a reconcile knows of has been asked for.  The
\* finalizer is only given up by a reconcile that knows of it, so where the
\* deletion is not known, a finalizer that was read is still there.  Whether the VPC
\* is to be retained never changes.
Known ==
    /\ seen["vpc"].deleting => obj["vpc"].deleting
    /\ seen["vpc"].retain = obj["vpc"].retain
    /\ ~seen["vpc"].deleting /\ Held(seen["vpc"]) => Held(obj["vpc"])
    /\ Running =>
        /\ scope["vpc"].exists = base["vpc"].exists
        /\ scope["vpc"].deleting = base["vpc"].deleting
        /\ scope["vpc"].retain = obj["vpc"].retain
        /\ base["vpc"].retain = obj["vpc"].retain
        /\ base["vpc"].deleting => seen["vpc"].deleting
        /\ pc["vpc"] \in Creating => ~base["vpc"].deleting
        /\ pc["vpc"] \in Deleting => base["vpc"].deleting
        /\ pc["vpc"] \in {"credentials", "addFinalizer"} =>
              /\ scope["vpc"].finalizers = base["vpc"].finalizers
              /\ scope["vpc"].id = base["vpc"].id
              /\ scope["vpc"].subnets = base["vpc"].subnets
        /\ pc["vpc"] = "delete" => ~scope["vpc"].retain
        /\ pc["vpc"] = "deleteSubnets" => scope["vpc"].retain
        /\ pc["vpc"] = "release" /\ ~scope["vpc"].retain => scope["vpc"].id = None
        /\ ~base["vpc"].deleting =>
              /\ Held(base["vpc"]) => Held(scope["vpc"]) /\ Held(obj["vpc"])
              /\ pc["vpc"] \in Creating \ {"addFinalizer"} =>
                    Held(scope["vpc"]) /\ Held(obj["vpc"])

\* What the API shows of a VPC that the controller creates, and ids that name a VPC
\* that exists: until a reconcile knows of the deletion, only others delete a VPC.
NoneOrLive(o) == o.id # None => vpc[o.id].state = "live"

OutOfBand == ~Undisturbed("vpc", {"outOfBand"})

Existing ==
    /\ \A i \in VPCs : vpc[i].own => vpc[i].named
    /\ ~OutOfBand =>
        /\ ~seen["vpc"].deleting => NoneOrLive(seen["vpc"]) /\ NoneOrLive(obj["vpc"])
        /\ Running /\ ~base["vpc"].deleting => NoneOrLive(obj["vpc"]) /\ NoneOrLive(scope["vpc"])
        /\ pc["vpc"] = "create" => scope["vpc"].id = None /\ \A i \in VPCs : ~Owned(i)

Forgotten ==
    \/ obj["vpc"].retain
    \/ ~Undisturbed("vpc", {"lostReply", "lostPatch", "crash", "stale", "outOfBand"})

\* Without one of the five faults, the stored object is as the reconcile read it,
\* and the only VPC that was created is the one that the object, or the copy of the
\* reconcile, names; it is held by the finalizer.
Recorded ==
    ~Forgotten =>
        /\ Running => obj["vpc"].id = base["vpc"].id
        /\ \A i \in VPCs : Owned(i) =>
              /\ Held(obj["vpc"])
              /\ ~Running => obj["vpc"].id = i
              /\ Running => scope["vpc"].id = i /\ Held(scope["vpc"])

IInv == Types /\ Kept /\ Known /\ Existing /\ Recorded

\* The subnets of the spec are the user's; none is lost unless the user adds one
\* while a reconcile runs, or a reconcile starts from an outdated copy.
SubnetInv ==
    /\ DOMAIN obj["vpc"].subnets \subseteq wanted
    /\ DOMAIN seen["vpc"].subnets \subseteq wanted
    /\ Running => DOMAIN scope["vpc"].subnets \subseteq wanted
    /\ Undisturbed("vpc", {"overlap", "stale"}) =>
        /\ wanted \subseteq DOMAIN obj["vpc"].subnets
        /\ Running => wanted \subseteq DOMAIN scope["vpc"].subnets

UpToDate == Undisturbed("vpc", {"stale", "outOfBand"})

-----------------------------------------------------------------------------
(***************************************************************************)
(* What the API server makes of a patch.                                   *)
(***************************************************************************)
\* The lists of subnets are the functions from labels to whether there is an id.
LEMMA SubnetMaps ==
  ASSUME NEW f
  PROVE  /\ f \in SubnetMap => f \in [DOMAIN f -> BOOLEAN] /\ DOMAIN f \subseteq Subnets
         /\ \A D \in SUBSET Subnets : f \in [D -> BOOLEAN] => f \in SubnetMap
BY DEF SubnetMap

\* The object p is o with the finalizers, the id and the subnets of s, if they are
\* sent and differ from those of b.
IsPatch(p, o, b, s, parts) ==
    /\ p \in VPCObject
    /\ p.exists = o.exists /\ p.deleting = o.deleting /\ p.retain = o.retain
    /\ p.finalizers = IF "object" \in parts /\ b.finalizers # s.finalizers
                      THEN s.finalizers ELSE o.finalizers
    /\ p.id = IF "object" \in parts /\ b.id # s.id THEN s.id ELSE o.id
    /\ p.subnets = IF "object" \in parts /\ b.subnets # s.subnets THEN s.subnets ELSE o.subnets

\* A patch that the controller sends changes neither the existence nor the deletion
\* of the object, and its finalizers, its id and its subnets only if they differ from
\* those that the reconcile read.
LEMMA PatchedVPC ==
  ASSUME NEW o \in VPCObject, NEW b \in VPCObject, NEW s \in VPCObject, NEW parts,
         b.exists = s.exists, b.deleting = s.deleting, b.retain = s.retain
  PROVE  IsPatch(Patched(o, b, s, parts), o, b, s, parts)
<1> DEFINE p == Patched(o, b, s, parts)
<1>1. DOMAIN o = {"exists", "deleting", "finalizers", "ready", "id", "retain", "subnets"}
  BY DEF VPCObject
<1>2. /\ p.exists = o.exists /\ p.deleting = o.deleting /\ p.retain = o.retain
      /\ p.finalizers = IF "object" \in parts /\ b.finalizers # s.finalizers
                        THEN s.finalizers ELSE o.finalizers
      /\ p.id = IF "object" \in parts /\ b.id # s.id THEN s.id ELSE o.id
      /\ p.subnets = IF "object" \in parts /\ b.subnets # s.subnets THEN s.subnets ELSE o.subnets
      /\ p.ready \in {s.ready, o.ready}
  BY <1>1 DEF Patched, PartOf, StatusFields
<1>3. p = [exists |-> p.exists, deleting |-> p.deleting, finalizers |-> p.finalizers,
           ready |-> p.ready, id |-> p.id, retain |-> p.retain, subnets |-> p.subnets]
  BY <1>1 DEF Patched
<1>4. /\ p.exists \in BOOLEAN /\ p.deleting \in BOOLEAN /\ p.finalizers \in SUBSET {"vpc"}
      /\ p.ready \in BOOLEAN /\ p.id \in VPCs \cup {None} /\ p.retain \in BOOLEAN
      /\ p.subnets \in SubnetMap
  BY <1>2 DEF VPCObject
<1> HIDE DEF p
<1>5. p \in VPCObject
  BY Zenon, <1>3, <1>4 DEF VPCObject
<1> QED
  BY <1>2, <1>5 DEF p, IsPatch

\* An object is stored as it is, or goes with its last finalizer.
LEMMA StoredVPC ==
  ASSUME NEW o \in VPCObject
  PROVE  /\ Stored(o) \in VPCObject
         /\ Stored(o).deleting = o.deleting /\ Stored(o).retain = o.retain
         /\ Stored(o).finalizers = o.finalizers
         /\ Stored(o).id = o.id /\ Stored(o).subnets = o.subnets
         /\ Stored(o).exists = (o.exists /\ ~(o.deleting /\ o.finalizers = {}))
BY Zenon DEF Stored, VPCObject

\* The object t is s but for its finalizers, its id, the ids of its subnets and
\* whether it is ready.
Like(t, s, fs, i) ==
    /\ t \in VPCObject
    /\ t.exists = s.exists /\ t.deleting = s.deleting /\ t.retain = s.retain
    /\ t.finalizers = fs
    /\ t.id = i
    /\ DOMAIN t.subnets = DOMAIN s.subnets

\* The updates that a reconcile makes to the subnets of its copy.
LEMMA SubnetUpdates ==
  ASSUME NEW f \in SubnetMap
  PROVE  /\ \A ls : /\ Adopted(f, ls) \in SubnetMap
                    /\ DOMAIN Adopted(f, ls) = DOMAIN f
         /\ \A sn \in DOMAIN f : /\ [f EXCEPT ![sn] = TRUE] \in SubnetMap
                                 /\ DOMAIN [f EXCEPT ![sn] = TRUE] = DOMAIN f
<1>1. f \in [DOMAIN f -> BOOLEAN] /\ DOMAIN f \in SUBSET Subnets
  BY SubnetMaps
<1>2. ASSUME NEW ls PROVE Adopted(f, ls) \in [DOMAIN f -> BOOLEAN]
  BY <1>1 DEF Adopted
<1>3. ASSUME NEW sn \in DOMAIN f PROVE [f EXCEPT ![sn] = TRUE] \in [DOMAIN f -> BOOLEAN]
  BY <1>1
<1> QED
  BY Zenon, <1>1, <1>2, <1>3, SubnetMaps

\* The updates that a reconcile makes to its copy.
LEMMA UpdatesVPC ==
  ASSUME NEW s \in VPCObject
  PROVE  /\ Like([s EXCEPT !.ready = TRUE], s, s.finalizers, s.id)
         /\ \A r : /\ Like([s EXCEPT !.ready = @ /\ ~r], s, s.finalizers, s.id)
                   /\ [s EXCEPT !.ready = @ /\ ~r].subnets = s.subnets
         /\ \A i \in VPCs \cup {None} : Like([s EXCEPT !.id = i], s, s.finalizers, i)
         /\ \A i \in VPCs : \A ls :
               Like([[s EXCEPT !.id = i] EXCEPT !.subnets = Adopted(@, ls)], s, s.finalizers, i)
         /\ \A i \in VPCs :
               Like([s EXCEPT !.id = i, !.ready = TRUE, !.subnets = Adopted(@, DOMAIN @)],
                    s, s.finalizers, i)
         /\ \A sn \in DOMAIN s.subnets :
               Like([s EXCEPT !.subnets[sn] = TRUE], s, s.finalizers, s.id)
         /\ Like([s EXCEPT !.finalizers = @ \cup {"vpc"}], s, {"vpc"}, s.id)
         /\ [s EXCEPT !.finalizers = @ \cup {"vpc"}].subnets = s.subnets
         /\ Like([s EXCEPT !.finalizers = @ \ {"vpc"}], s, {}, s.id)
<1>0. s.subnets \in SubnetMap
  BY DEF VPCObject
<1>1. Like([s EXCEPT !.ready = TRUE], s, s.finalizers, s.id)
  BY Zenon DEF Like, VPCObject
<1>2. \A r : /\ Like([s EXCEPT !.ready = @ /\ ~r], s, s.finalizers, s.id)
             /\ [s EXCEPT !.ready = @ /\ ~r].subnets = s.subnets
  BY Zenon DEF Like, VPCObject
<1>3. \A i \in VPCs \cup {None} : Like([s EXCEPT !.id = i], s, s.finalizers, i)
  BY DEF Like, VPCObject
<1>4. ASSUME NEW i \in VPCs, NEW ls
      PROVE  Like([[s EXCEPT !.id = i] EXCEPT !.subnets = Adopted(@, ls)], s, s.finalizers, i)
  <2>1. Adopted(s.subnets, ls) \in SubnetMap /\ DOMAIN Adopted(s.subnets, ls) = DOMAIN s.subnets
    BY <1>0, SubnetUpdates
  <2> HIDE DEF Adopted
  <2> QED
    BY Zenon, <2>1 DEF Like, VPCObject
<1>5. ASSUME NEW i \in VPCs
      PROVE  Like([s EXCEPT !.id = i, !.ready = TRUE, !.subnets = Adopted(@, DOMAIN @)],
                  s, s.finalizers, i)
  <2> DEFINE a == Adopted(s.subnets, DOMAIN s.subnets)
  <2>1. a \in SubnetMap /\ DOMAIN a = DOMAIN s.subnets
    BY <1>0, SubnetUpdates
  <2>2. [s EXCEPT !.id = i, !.ready = TRUE, !.subnets = Adopted(@, DOMAIN @)]
        = [s EXCEPT !.id = i, !.ready = TRUE, !.subnets = a]
    BY DEF VPCObject
  <2> HIDE DEF a
  <2>3. Like([s EXCEPT !.id = i, !.ready = TRUE, !.subnets = a], s, s.finalizers, i)
    BY Zenon, <2>1 DEF Like, VPCObject
  <2> QED
    BY Zenon, <2>2, <2>3
<1>6. ASSUME NEW sn \in DOMAIN s.subnets
      PROVE  Like([s EXCEPT !.subnets[sn] = TRUE], s, s.finalizers, s.id)
  <2> DEFINE a == [s.subnets EXCEPT ![sn] = TRUE]
  <2>1. a \in SubnetMap /\ DOMAIN a = DOMAIN s.subnets
    BY <1>0, SubnetUpdates
  <2>2. [s EXCEPT !.subnets[sn] = TRUE] = [s EXCEPT !.subnets = a]
    BY DEF VPCObject
  <2> HIDE DEF a
  <2>3. Like([s EXCEPT !.subnets = a], s, s.finalizers, s.id)
    BY <2>1 DEF Like, VPCObject
  <2> QED
    BY Zenon, <2>2, <2>3
<1>7. /\ Like([s EXCEPT !.finalizers = @ \cup {"vpc"}], s, {"vpc"}, s.id)
      /\ [s EXCEPT !.finalizers = @ \cup {"vpc"}].subnets = s.subnets
  BY DEF Like, VPCObject
<1>8. Like([s EXCEPT !.finalizers = @ \ {"vpc"}], s, {}, s.id)
  BY DEF Like, VPCObject
<1> QED
  BY Zenon, <1>1, <1>2, <1>3, <1>4, <1>5, <1>6, <1>7, <1>8

\* The updates of the user: a deletion, and a new subnet.
LEMMA UserUpdates ==
  ASSUME NEW s \in VPCObject
  PROVE  /\ [s EXCEPT !.deleting = TRUE] \in VPCObject
         /\ [s EXCEPT !.deleting = TRUE].exists = s.exists
         /\ [s EXCEPT !.deleting = TRUE].deleting = TRUE
         /\ [s EXCEPT !.deleting = TRUE].finalizers = s.finalizers
         /\ [s EXCEPT !.deleting = TRUE].id = s.id
         /\ [s EXCEPT !.deleting = TRUE].retain = s.retain
         /\ [s EXCEPT !.deleting = TRUE].subnets = s.subnets
         /\ \A sn \in Subnets :
               LET f == [x \in DOMAIN s.subnets \cup {sn} |->
                            IF x = sn THEN FALSE ELSE s.subnets[x]]
                   t == [s EXCEPT !.subnets = f]
               IN
               /\ t \in VPCObject
               /\ t.exists = s.exists /\ t.deleting = s.deleting /\ t.retain = s.retain
               /\ t.finalizers = s.finalizers /\ t.id = s.id
               /\ DOMAIN t.subnets = DOMAIN s.subnets \cup {sn}
<1>1. /\ [s EXCEPT !.deleting = TRUE] \in VPCObject
      /\ [s EXCEPT !.deleting = TRUE].exists = s.exists
      /\ [s EXCEPT !.deleting = TRUE].deleting = TRUE
      /\ [s EXCEPT !.deleting = TRUE].finalizers = s.finalizers
      /\ [s EXCEPT !.deleting = TRUE].id = s.id
      /\ [s EXCEPT !.deleting = TRUE].retain = s.retain
      /\ [s EXCEPT !.deleting = TRUE].subnets = s.subnets
  BY Zenon DEF VPCObject
<1>2. ASSUME NEW sn \in Subnets,
             NEW f, f = [x \in DOMAIN s.subnets \cup {sn} |-> IF x = sn THEN FALSE ELSE s.subnets[x]],
             NEW t, t = [s EXCEPT !.subnets = f]
      PROVE  /\ t \in VPCObject
             /\ t.exists = s.exists /\ t.deleting = s.deleting /\ t.retain = s.retain
             /\ t.finalizers = s.finalizers /\ t.id = s.id
             /\ DOMAIN t.subnets = DOMAIN s.subnets \cup {sn}
  <2>1. s.subnets \in [DOMAIN s.subnets -> BOOLEAN] /\ DOMAIN s.subnets \subseteq Subnets
    BY SubnetMaps DEF VPCObject
  <2>2. f \in [DOMAIN s.subnets \cup {sn} -> BOOLEAN] /\ DOMAIN f = DOMAIN s.subnets \cup {sn}
    BY Zenon, <1>2, <2>1
  <2>3. f \in SubnetMap
    BY <2>1, <2>2, SubnetMaps
  <2> QED
    BY ONLY s \in VPCObject, t = [s EXCEPT !.subnets = f], <2>2, <2>3 DEF VPCObject
<1> QED
  BY Zenon, <1>1, <1>2

-----------------------------------------------------------------------------
(***************************************************************************)
(* What the requests of the controller, and others, make of the VPCs.      *)
(***************************************************************************)
\* No VPC is created or deleted.
SameVPCs ==
    /\ vpc' \in [VPCs -> Network]
    /\ \A i \in VPCs : /\ vpc'[i].state = vpc[i].state
                       /\ vpc'[i].own = vpc[i].own /\ vpc'[i].named = vpc[i].named

\* One VPC is deleted.
OneDeleted(i) ==
    /\ vpc' \in [VPCs -> Network]
    /\ \A j \in VPCs : /\ vpc'[j].state = IF j = i THEN "deleted" ELSE vpc[j].state
                       /\ vpc'[j].own = vpc[j].own /\ vpc'[j].named = vpc[j].named

\* One VPC is created, with the object's name.
OneCreated(i) ==
    /\ vpc' \in [VPCs -> Network]
    /\ vpc'[i].state = "live" /\ vpc'[i].own /\ vpc'[i].named
    /\ \A j \in VPCs \ {i} : vpc'[j] = vpc[j]

\* Changes of the subnets and the instances of a VPC neither create nor delete one.
LEMMA SubnetChanges ==
  ASSUME vpc \in [VPCs -> Network]
  PROVE  /\ UNCHANGED vpc => SameVPCs
         /\ \A i : \A sn \in Subnets : vpc' = [vpc EXCEPT ![i].subnets = @ \cup {sn}] => SameVPCs
         /\ \A i, sn : vpc' = [vpc EXCEPT ![i].subnets = @ \ {sn}, ![i].nodes = @ \ {sn}]
                          => SameVPCs
         /\ \A i : \A sn \in Subnets : vpc' = [vpc EXCEPT ![i].nodes = @ \cup {sn}] => SameVPCs
         /\ \A i, sn : vpc' = [vpc EXCEPT ![i].nodes = @ \ {sn}] => SameVPCs
<1>3. UNCHANGED vpc => SameVPCs
  BY DEF SameVPCs
<1>4. ASSUME NEW i, NEW sn \in Subnets, vpc' = [vpc EXCEPT ![i].subnets = @ \cup {sn}]
      PROVE  SameVPCs
  <2>1. \A j \in VPCs : /\ vpc'[j] \in Network
                        /\ vpc'[j].state = vpc[j].state
                        /\ vpc'[j].own = vpc[j].own /\ vpc'[j].named = vpc[j].named
    BY <1>4 DEF Network
  <2> QED
    BY Zenon, <1>4, <2>1 DEF SameVPCs
<1>5. ASSUME NEW i, NEW sn, vpc' = [vpc EXCEPT ![i].subnets = @ \ {sn}, ![i].nodes = @ \ {sn}]
      PROVE  SameVPCs
  <2>1. \A j \in VPCs : /\ vpc'[j] \in Network
                        /\ vpc'[j].state = vpc[j].state
                        /\ vpc'[j].own = vpc[j].own /\ vpc'[j].named = vpc[j].named
    BY <1>5 DEF Network
  <2> QED
    BY Zenon, <1>5, <2>1 DEF SameVPCs
<1>6. ASSUME NEW i, NEW sn \in Subnets, vpc' = [vpc EXCEPT ![i].nodes = @ \cup {sn}]
      PROVE  SameVPCs
  <2>1. \A j \in VPCs : /\ vpc'[j] \in Network
                        /\ vpc'[j].state = vpc[j].state
                        /\ vpc'[j].own = vpc[j].own /\ vpc'[j].named = vpc[j].named
    BY <1>6 DEF Network
  <2> QED
    BY Zenon, <1>6, <2>1 DEF SameVPCs
<1>7. ASSUME NEW i, NEW sn, vpc' = [vpc EXCEPT ![i].nodes = @ \ {sn}]
      PROVE  SameVPCs
  <2>1. \A j \in VPCs : /\ vpc'[j] \in Network
                        /\ vpc'[j].state = vpc[j].state
                        /\ vpc'[j].own = vpc[j].own /\ vpc'[j].named = vpc[j].named
    BY <1>7 DEF Network
  <2> QED
    BY Zenon, <1>7, <2>1 DEF SameVPCs
<1> QED
  BY Zenon, <1>3, <1>4, <1>5, <1>6, <1>7

\* What CreateVPC and DeleteVPC make of the VPCs.
LEMMA VPCChanges ==
  ASSUME vpc \in [VPCs -> Network], NEW i \in VPCs
  PROVE  /\ vpc' = Deleted(i) => OneDeleted(i)
         /\ \A S \in SUBSET Subnets :
               vpc' = [vpc EXCEPT ![i] = [UnusedVPC EXCEPT
                          !.state = "live", !.named = TRUE, !.own = TRUE, !.subnets = S]]
                  => OneCreated(i)
<1>1. ASSUME vpc' = Deleted(i) PROVE OneDeleted(i)
  <2>1. \A j \in VPCs : /\ vpc'[j] \in Network
                        /\ vpc'[j].state = IF j = i THEN "deleted" ELSE vpc[j].state
                        /\ vpc'[j].own = vpc[j].own /\ vpc'[j].named = vpc[j].named
    BY Zenon, <1>1 DEF Deleted, Network
  <2> QED
    BY <1>1, <2>1 DEF OneDeleted, Deleted
<1>2. ASSUME NEW S \in SUBSET Subnets, NEW n,
             n = [UnusedVPC EXCEPT !.state = "live", !.named = TRUE, !.own = TRUE, !.subnets = S],
             vpc' = [vpc EXCEPT ![i] = n]
      PROVE  OneCreated(i)
  <2>1. n = [state |-> "live", named |-> TRUE, own |-> TRUE, subnets |-> S, nodes |-> {}]
    BY Zenon, <1>2 DEF UnusedVPC
  <2>2. n \in Network /\ n.state = "live" /\ n.own = TRUE /\ n.named = TRUE
    BY <2>1 DEF Network
  <2> QED
    BY <1>2, <2>2 DEF OneCreated
<1> QED
  BY Zenon, <1>1, <1>2

-----------------------------------------------------------------------------
(***************************************************************************)
(* The invariant.                                                          *)
(***************************************************************************)
\* There is no reconcile at the start, and no VPC but one that was made by hand.
LEMMA InitHolds == VPCInit /\ ReconcilerInit({"vpc"}, MaxFaults) => IInv /\ SubnetInv
<1> SUFFICES ASSUME VPCInit, ReconcilerInit({"vpc"}, MaxFaults) PROVE IInv /\ SubnetInv
  OBVIOUS
<1> DEFINE i == CHOOSE x \in VPCs : TRUE
<1>1. PICK retain \in BOOLEAN, by \in {"none", "id", "label"} :
        /\ obj = [k \in {"vpc"} |-> NewVPC(IF by = "id" THEN i ELSE None, retain)]
        /\ vpc = [x \in VPCs |->
                     IF x = i /\ by # "none"
                     THEN [UnusedVPC EXCEPT !.state = "live", !.named = by = "label"]
                     ELSE UnusedVPC]
        /\ found = NothingFound
        /\ wanted = FirstSubnets
  BY Zenon DEF VPCInit
<1>2. i \in VPCs
  BY VPCAssumptions
<1> DEFINE o == NewVPC(IF by = "id" THEN i ELSE None, retain)
<1> HIDE DEF i
<1>3. /\ o \in VPCObject /\ o.exists = TRUE /\ o.deleting = FALSE /\ o.finalizers = {}
      /\ o.id = (IF by = "id" THEN i ELSE None) /\ DOMAIN o.subnets = FirstSubnets
  <2>1. [sn \in FirstSubnets |-> FALSE] \in [FirstSubnets -> BOOLEAN]
    OBVIOUS
  <2>2. [sn \in FirstSubnets |-> FALSE] \in SubnetMap
    BY Zenon, <2>1, SubnetMaps, VPCAssumptions
  <2> QED
    BY <1>2, <2>2 DEF NewVPC, VPCObject
<1>4. \A x \in VPCs : /\ vpc[x] \in Network
                      /\ vpc[x].own = FALSE
                      /\ x = i /\ by # "none" => vpc[x].state = "live"
  BY Zenon, <1>1 DEF UnusedVPC, Network
<1>5. vpc \in [VPCs -> Network]
  BY <1>1, <1>4
<1>6. obj = [k \in {"vpc"} |-> o]
  BY Zenon, <1>1
<1> HIDE DEF o
<1>7. /\ obj \in [{"vpc"} -> VPCObject] /\ obj["vpc"] = o /\ seen = obj
      /\ pc = [k \in {"vpc"} |-> "idle"] /\ faults = [k \in {"vpc"} |-> {}]
      /\ base = [k \in {"vpc"} |-> None] /\ scope = [k \in {"vpc"} |-> None]
  BY <1>3, <1>6 DEF ReconcilerInit, Kinds
<1>8. Types
  BY <1>1, <1>5, <1>7, VPCAssumptions DEF Types, Running, Places, NothingFound, Found
<1>9. Kept /\ Known
  BY <1>3, <1>7 DEF Kept, Known, Running, Held
<1>10. Existing /\ Recorded
  BY <1>2, <1>3, <1>4, <1>7, VPCAssumptions DEF Existing, NoneOrLive, Recorded, Owned, Running
<1>11. SubnetInv
  BY <1>1, <1>3, <1>7 DEF SubnetInv, Running
<1> QED
  BY <1>8, <1>9, <1>10, <1>11 DEF IInv

\* The history of the faults only grows.
Grows == faults' \in [{"vpc"} -> SUBSET Faults] /\ faults["vpc"] \subseteq faults'["vpc"]

\* A fault is added to it.
LEMMA FaultsGrow ==
  ASSUME Types, NEW f \in FaultKinds, Fault("vpc", f)
  PROVE  Grows /\ f \in faults'["vpc"]
BY ReconcilerAssumptions DEF Fault, Types, Grows

\* A call that fails before it was served is none.
LEMMA FaultsStay == Types /\ (CallFails \/ UNCHANGED histVars \/ UNCHANGED faults) => Grows
BY DEF CallFails, histVars, Types, Grows

\* What happened once has happened.
LEMMA HistoryStays ==
  ASSUME Grows
  PROVE  /\ OutOfBand => OutOfBand'
         /\ obj'["vpc"].retain = obj["vpc"].retain => (Forgotten => Forgotten')
         /\ Undisturbed("vpc", {"overlap", "stale"})' => Undisturbed("vpc", {"overlap", "stale"})
         /\ UpToDate' => UpToDate
BY DEF Grows, OutOfBand, Forgotten, Undisturbed, UpToDate

\* The copy of the reconcile is replaced.
LEMMA CopySet ==
  ASSUME scope \in [{"vpc"} -> VPCObject], NEW t, Set("vpc", t),
         NEW s, NEW fs, NEW i, Like(t, s, fs, i)
  PROVE  Like(scope'["vpc"], s, fs, i) /\ scope' \in [{"vpc"} -> VPCObject]
BY DEF Set, Like

\* A step of a reconcile that stores nothing in the Kubernetes API.
Continues ==
    LET s == scope["vpc"]
        t == scope'["vpc"]
        l == pc'["vpc"]
    IN
    /\ UNCHANGED <<obj, seen, base, wanted>> /\ Grows
    /\ pc' \in [{"vpc"} -> Places \ {"idle", "credentials"}]
    /\ scope' \in [{"vpc"} -> VPCObject]
    /\ vpc' \in [VPCs -> Network]
    /\ found' \in Found
    /\ t.exists = s.exists /\ t.deleting = s.deleting /\ t.retain = s.retain
    /\ DOMAIN t.subnets = DOMAIN s.subnets
    /\ l \in Creating => ~s.deleting
    /\ l \in Deleting => s.deleting
    /\ l = "addFinalizer" => UNCHANGED scope /\ pc["vpc"] = "credentials"
    /\ l \in Creating \ {"addFinalizer"} => Held(t) /\ Held(obj["vpc"])
    /\ l = "delete" => ~s.retain
    /\ l = "deleteSubnets" => s.retain
    /\ l = "release" /\ ~s.retain => t.id = None
    /\ ~s.deleting /\ Held(s) => Held(t)
    /\ \A i \in VPCs : vpc'[i].own => vpc'[i].named
    /\ ~OutOfBand' =>
          /\ ~s.deleting => /\ t.id # None => vpc'[t.id].state = "live"
                            /\ \A i \in VPCs : vpc[i].state = "live" => vpc'[i].state = "live"
          /\ l = "create" => t.id = None /\ \A i \in VPCs : ~(vpc'[i].state = "live" /\ vpc'[i].own)
    /\ ~Forgotten' => \A i \in VPCs : vpc'[i].state = "live" /\ vpc'[i].own =>
                         t.id = i /\ Held(t) /\ Held(obj["vpc"])

\* Such a step keeps the invariant.
LEMMA ContinuesKeeps == IInv /\ SubnetInv /\ Running /\ Continues => IInv' /\ SubnetInv'
<1> SUFFICES ASSUME IInv, SubnetInv, Running, Continues PROVE IInv' /\ SubnetInv'
  OBVIOUS
<1> USE VPCAssumptions DEF IInv, Running
<1>1. Types'
  BY DEF Continues, Types, Grows
<1>2. Kept'
  BY DEF Continues, Kept, Held
<1>3. Known'
  BY DEF Continues, Known, Types, Held
<1>g. Grows /\ UNCHANGED <<obj, seen, base, wanted>>
  BY DEF Continues
<1>h. (OutOfBand => OutOfBand') /\ (Forgotten => Forgotten')
      /\ (Undisturbed("vpc", {"overlap", "stale"})' => Undisturbed("vpc", {"overlap", "stale"}))
  BY <1>g, HistoryStays
<1>4. Existing'
  <2>0. /\ obj["vpc"].id \in VPCs \cup {None} /\ seen["vpc"].id \in VPCs \cup {None}
        /\ scope["vpc"].deleting = base["vpc"].deleting
        /\ base["vpc"].deleting => seen["vpc"].deleting
    BY DEF Types, Known, VPCObject
  <2>1. ~OutOfBand' /\ ~scope["vpc"].deleting =>
           \A i \in VPCs : vpc[i].state = "live" => vpc'[i].state = "live"
    BY DEF Continues
  <2>2. ~OutOfBand' /\ ~seen["vpc"].deleting =>
           NoneOrLive(seen["vpc"])' /\ NoneOrLive(obj["vpc"])'
    BY <1>g, <1>h, <2>0, <2>1 DEF Existing, NoneOrLive
  <2>3. ~OutOfBand' /\ ~base["vpc"].deleting =>
           NoneOrLive(obj["vpc"])' /\ NoneOrLive(scope["vpc"])'
    BY <1>g, <1>h, <2>0, <2>1 DEF Existing, NoneOrLive, Continues
  <2>4. \A i \in VPCs : vpc'[i].own => vpc'[i].named
    BY DEF Continues
  <2>5. ~OutOfBand' /\ pc'["vpc"] = "create" =>
           scope'["vpc"].id = None /\ \A i \in VPCs : ~Owned(i)'
    BY DEF Continues, Owned
  <2> QED
    BY <1>g, <2>2, <2>3, <2>4, <2>5 DEF Existing
<1>6. Recorded'
  BY <1>h, <1>g DEF Continues, Recorded, Owned, Held
<1>7. SubnetInv'
  BY <1>h, <1>g DEF Continues, SubnetInv
<1> QED
  BY <1>1, <1>2, <1>3, <1>4, <1>6, <1>7

\* What holds at a place inside a reconcile.
LEMMA InsideVPC ==
  ASSUME IInv, NEW l, AtVPC(l), l \in Places \ {"idle"}
  PROVE  LET s == scope["vpc"] IN
         /\ Running /\ pc["vpc"] = l
         /\ s \in VPCObject /\ scope \in [{"vpc"} -> VPCObject]
         /\ s.deleting = base["vpc"].deleting /\ s.retain = obj["vpc"].retain
         /\ l \in Creating => ~s.deleting
         /\ l \in Deleting => s.deleting
         /\ l \in Creating \ {"addFinalizer"} => Held(s) /\ Held(obj["vpc"])
         /\ l = "delete" => ~s.retain
         /\ l = "deleteSubnets" => s.retain
         /\ l = "release" /\ ~s.retain => s.id = None
         /\ vpc \in [VPCs -> Network] /\ found \in Found
         /\ \A i \in VPCs : vpc[i].own => vpc[i].named
         /\ ~OutOfBand =>
               /\ ~s.deleting => (s.id # None => vpc[s.id].state = "live")
               /\ l = "create" => s.id = None /\ \A i \in VPCs : ~Owned(i)
         /\ ~Forgotten => \A i \in VPCs : Owned(i) => s.id = i /\ Held(s) /\ Held(obj["vpc"])
BY DEF IInv, AtVPC, Running, Types, Known, Existing, NoneOrLive, Recorded

\* A step that changes neither the object's fields that matter nor the VPCs, but for
\* the ids of subnets.
LEMMA Moves ==
  ASSUME IInv, NEW l, AtVPC(l), l \in Places \ {"idle"},
         UNCHANGED <<obj, seen, base, wanted>>, Grows, SameVPCs, found' \in Found,
         \/ UNCHANGED scope
         \/ /\ Like(scope'["vpc"], scope["vpc"], scope["vpc"].finalizers, scope["vpc"].id)
            /\ scope' \in [{"vpc"} -> VPCObject],
         NEW m \in Places \ {"idle", "credentials"}, pc' \in [{"vpc"} -> {m}],
         m \in Creating => ~scope["vpc"].deleting,
         m \in Deleting => scope["vpc"].deleting,
         m = "addFinalizer" => UNCHANGED scope /\ l = "credentials",
         m \in Creating \ {"addFinalizer"} => Held(scope["vpc"]) /\ Held(obj["vpc"]),
         m = "delete" => ~scope["vpc"].retain,
         m = "deleteSubnets" => scope["vpc"].retain,
         m = "release" /\ ~scope["vpc"].retain => scope["vpc"].id = None,
         m = "create" /\ ~OutOfBand => scope["vpc"].id = None /\ \A i \in VPCs : ~Owned(i)
  PROVE  Running /\ Continues
<1> DEFINE s == scope["vpc"]
           t == scope'["vpc"]
<1>1. /\ Running /\ pc["vpc"] = l
      /\ s \in VPCObject /\ scope \in [{"vpc"} -> VPCObject]
      /\ \A i \in VPCs : vpc[i].own => vpc[i].named
      /\ ~OutOfBand /\ ~s.deleting => (s.id # None => vpc[s.id].state = "live")
      /\ ~Forgotten => \A i \in VPCs : Owned(i) => s.id = i /\ Held(s) /\ Held(obj["vpc"])
  BY InsideVPC
<1>2. Like(t, s, s.finalizers, s.id) /\ scope' \in [{"vpc"} -> VPCObject]
  BY <1>1 DEF Like
<1>3. pc'["vpc"] = m /\ pc' \in [{"vpc"} -> Places \ {"idle", "credentials"}]
  OBVIOUS
<1>4. (OutOfBand => OutOfBand') /\ (Forgotten => Forgotten')
  BY HistoryStays
<1>5. ~OutOfBand' =>
        /\ ~s.deleting => /\ t.id # None => vpc'[t.id].state = "live"
                          /\ \A i \in VPCs : vpc[i].state = "live" => vpc'[i].state = "live"
        /\ m = "create" => t.id = None /\ \A i \in VPCs : ~(vpc'[i].state = "live" /\ vpc'[i].own)
  BY <1>1, <1>2, <1>4 DEF SameVPCs, Like, Owned, VPCObject
<1>6. ~Forgotten' => \A i \in VPCs : vpc'[i].state = "live" /\ vpc'[i].own =>
                        t.id = i /\ Held(t) /\ Held(obj["vpc"])
  BY <1>1, <1>2, <1>4 DEF SameVPCs, Like, Owned, Held
<1>7. vpc' \in [VPCs -> Network] /\ \A i \in VPCs : vpc'[i].own => vpc'[i].named
  BY <1>1 DEF SameVPCs
<1> QED
  BY <1>1, <1>2, <1>3, <1>5, <1>6, <1>7 DEF Continues, Like, Held

\* The steps of reconcile and reconcileCreate inside the reconcile.
LEMMA CreateSteps ==
  ASSUME IInv,
         SetCredentialRefTokenVPC \/ AddCredentialsRefFinalizerVPC \/ reconcileVPC
         \/ CreateVPC \/ CreateVPCSubnet
  PROVE  Running /\ Continues
<1> DEFINE s == scope["vpc"]
<1>t. Types
  BY DEF IInv
<1>v. (UNCHANGED vpc => SameVPCs) /\ (UNCHANGED found => found' \in Found)
  BY SubnetChanges DEF IInv, Types
<1>p. \A l : Goto("vpc", l) => pc' \in [{"vpc"} -> {l}]
  BY DEF Goto, IInv, Types
<1>1. CASE SetCredentialRefTokenVPC
  <2>1. AtVPC("credentials") /\ UNCHANGED <<obj, seen, base, scope, vpc, found, wanted>> /\ Grows
    BY <1>1, <1>t, FaultsStay DEF SetCredentialRefTokenVPC, VPCUntouched, k8sVars, vpcVars
  <2>2. \/ Goto("vpc", "requeue")
        \/ s.deleting /\ Goto("vpc", "get")
        \/ ~s.deleting /\ Goto("vpc", "addFinalizer")
    BY <1>1 DEF SetCredentialRefTokenVPC
  <2> QED
    BY <2>1, <2>2, <1>v, <1>p, Moves DEF Places, Creating, Deleting
<1>2. CASE AddCredentialsRefFinalizerVPC
  <2>1. /\ AtVPC("addCredentials")
        /\ UNCHANGED <<obj, seen, base, scope, vpc, found, wanted>> /\ Grows
    BY <1>2, <1>t, FaultsStay DEF AddCredentialsRefFinalizerVPC, TakeSecret, k8sVars, vpcVars
  <2>2. Goto("vpc", "requeue") \/ Goto("vpc", "list")
    BY <1>2 DEF AddCredentialsRefFinalizerVPC, TakeSecret
  <2>3. ~s.deleting /\ Held(s) /\ Held(obj["vpc"])
    BY <2>1, InsideVPC DEF Places, Creating
  <2> QED
    BY <2>1, <2>2, <2>3, <1>v, <1>p, Moves DEF Places, Creating, Deleting
<1>3. CASE reconcileVPC
  <2>1. AtVPC("list") /\ UNCHANGED <<obj, seen, base, vpc, wanted>> /\ Grows
    BY Zenon, <1>3, <1>t, FaultsStay DEF reconcileVPC, VPCUntouched, k8sVars
  <2>2. /\ ~s.deleting /\ Held(s) /\ Held(obj["vpc"]) /\ s \in VPCObject
        /\ scope \in [{"vpc"} -> VPCObject] /\ vpc \in [VPCs -> Network] /\ found \in Found
        /\ \A i \in VPCs : vpc[i].own => vpc[i].named
        /\ Running
        /\ ~OutOfBand => (s.id # None => vpc[s.id].state = "live")
        /\ ~Forgotten => \A i \in VPCs : Owned(i) => s.id = i
    BY <2>1, InsideVPC DEF Places, Creating
  <2>3. ASSUME UNCHANGED <<scope, found>>, Goto("vpc", "requeue")
        PROVE  Running /\ Continues
    BY <2>1, <2>3, <1>v, <1>p, Moves DEF Places, Creating, Deleting
  <2>4. ASSUME UNCHANGED <<scope, found>>, Goto("vpc", "create"), Matching = {}
        PROVE  Running /\ Continues
    <3>1. ~OutOfBand => s.id = None
      <4> SUFFICES ASSUME ~OutOfBand, s.id # None PROVE s.id \in Matching
        BY <2>4
      <4> QED
        BY <2>2 DEF Matching, LiveVPC, VPCObject
    <3>2. s.id = None => \A i \in VPCs : ~Owned(i)
      BY <2>2, <2>4, VPCAssumptions DEF Matching, LiveVPC, Owned
    <3> QED
      BY <2>1, <2>2, <2>4, <3>1, <3>2, <1>v, <1>p, Moves DEF Places, Creating, Deleting
  <2>5. ASSUME NEW i \in Matching, NEW t, Set("vpc", t), Like(t, s, s.finalizers, i),
               found' \in Found, NEW m \in {"subnets", "requeue"}, Goto("vpc", m)
        PROVE  Continues
    <3>1. i \in VPCs /\ vpc[i].state = "live" /\ (s.id # None => s.id = i)
      BY <2>5 DEF Matching, LiveVPC
    <3>2. Like(scope'["vpc"], s, s.finalizers, i) /\ scope' \in [{"vpc"} -> VPCObject]
      BY <2>2, <2>5, CopySet
    <3>3. (OutOfBand => OutOfBand') /\ (Forgotten => Forgotten')
      BY <2>1, HistoryStays
    <3>4. ~Forgotten' => \A j \in VPCs : vpc'[j].state = "live" /\ vpc'[j].own => j = i
      BY <2>1, <2>2, <3>1, <3>3, VPCAssumptions DEF Owned
    <3>5. pc' \in [{"vpc"} -> {m}]
      BY <2>5, <1>p
    <3> QED
      BY ONLY <2>1, <2>2, <3>1, <3>2, <3>3, <3>4, <3>5, found' \in Found, m \in {"subnets",
           "requeue"}
      DEF Continues, Like, Held, Places, Creating, Deleting
  <2>6. ASSUME NEW i \in Matching PROVE
          /\ Like([s EXCEPT !.id = i], s, s.finalizers, i)
          /\ Like([[s EXCEPT !.id = i] EXCEPT !.subnets = Adopted(@, vpc[i].subnets)],
                  s, s.finalizers, i)
          /\ [found EXCEPT !.subnets = vpc[i].subnets] \in Found
    <3>1. i \in VPCs /\ vpc[i].subnets \in SUBSET Subnets
      BY <2>2, <2>6 DEF Matching, Network
    <3>2. [found EXCEPT !.subnets = vpc[i].subnets] \in Found
      BY <2>2, <3>1 DEF Found
    <3> QED
      BY Zenon, <2>2, <3>1, <3>2, UpdatesVPC
  <2>7. ASSUME NEW i \in Matching,
               Set("vpc", [[s EXCEPT !.id = i] EXCEPT !.subnets = Adopted(@, vpc[i].subnets)]),
               found' = [found EXCEPT !.subnets = vpc[i].subnets],
               Goto("vpc", "subnets")
        PROVE  Continues
    BY Zenon, <2>5, <2>6, <2>7
  <2>8. ASSUME NEW i \in Matching, Set("vpc", [s EXCEPT !.id = i]), UNCHANGED found,
               Goto("vpc", "requeue")
        PROVE  Continues
    BY Zenon, <2>2, <2>5, <2>6, <2>8
  <2> QED
    BY Zenon, <1>3, <2>2, <2>3, <2>4, <2>7, <2>8 DEF reconcileVPC
<1>4. CASE CreateVPC
  <2>1. AtVPC("create") /\ UNCHANGED <<obj, seen, base, found, wanted>>
    BY Zenon, <1>4 DEF CreateVPC, VPCUntouched, k8sVars
  <2>2. /\ ~s.deleting /\ Held(s) /\ Held(obj["vpc"]) /\ s \in VPCObject
        /\ scope \in [{"vpc"} -> VPCObject] /\ vpc \in [VPCs -> Network] /\ found \in Found
        /\ \A i \in VPCs : vpc[i].own => vpc[i].named
        /\ Running
        /\ ~OutOfBand => s.id = None /\ \A i \in VPCs : ~Owned(i)
    BY <2>1, InsideVPC DEF Places, Creating
  <2>3. ASSUME NEW i \in VPCs, vpc[i].state = "unused",
               vpc' = [vpc EXCEPT ![i] = [UnusedVPC EXCEPT
                           !.state = "live", !.named = TRUE, !.own = TRUE,
                           !.subnets = DOMAIN s.subnets]]
        PROVE  OneCreated(i)
    <3>1. DOMAIN s.subnets \in SUBSET Subnets
      BY <2>2, SubnetMaps DEF VPCObject
    <3> QED
      BY Zenon, <2>2, <2>3, <3>1, VPCChanges
  <2>4. ASSUME NEW i \in VPCs, vpc[i].state = "unused", OneCreated(i), UNCHANGED histVars,
               Set("vpc", [s EXCEPT !.id = i, !.ready = TRUE, !.subnets = Adopted(@, DOMAIN @)]),
               Goto("vpc", "return")
        PROVE  Continues
    <3>1. pc' \in [{"vpc"} -> {"return"}] /\ Grows
      BY <2>4, <1>t, <1>p, FaultsStay
    <3>2. Like([s EXCEPT !.id = i, !.ready = TRUE, !.subnets = Adopted(@, DOMAIN @)],
               s, s.finalizers, i)
      BY Zenon, <2>2, <2>4, UpdatesVPC
    <3>3. Like(scope'["vpc"], s, s.finalizers, i) /\ scope' \in [{"vpc"} -> VPCObject]
      BY <2>2, <2>4, <3>2, CopySet
    <3>4. (OutOfBand => OutOfBand') /\ (~Forgotten' => ~OutOfBand)
      BY <2>1, <3>1, HistoryStays DEF Forgotten, OutOfBand, Undisturbed, Grows
    <3>5. /\ vpc' \in [VPCs -> Network]
          /\ \A j \in VPCs : /\ vpc'[j].own => vpc'[j].named
                             /\ vpc[j].state = "live" => vpc'[j].state = "live"
          /\ vpc'[i].state = "live"
          /\ ~OutOfBand => \A j \in VPCs : vpc'[j].state = "live" /\ vpc'[j].own => j = i
      BY <2>2, <2>4 DEF OneCreated, Owned
    <3> QED
      BY ONLY <2>1, <2>2, <3>1, <3>3, <3>4, <3>5
      DEF Continues, Like, Held, Places, Creating, Deleting
  <2>5. ASSUME NEW i \in VPCs, vpc[i].state = "unused", OneCreated(i), Fault("vpc", "lostReply"),
               UNCHANGED scope, Goto("vpc", "requeue")
        PROVE  Continues
    <3>1. Grows /\ Forgotten'
      BY Zenon, <2>5, <1>t, FaultsGrow DEF Fault, Forgotten, Undisturbed
    <3>2. pc' \in [{"vpc"} -> {"requeue"}]
      BY <2>5, <1>p
    <3>3. OutOfBand => OutOfBand'
      BY <3>1, HistoryStays
    <3>4. /\ vpc' \in [VPCs -> Network]
          /\ \A j \in VPCs : /\ vpc'[j].own => vpc'[j].named
                             /\ vpc[j].state = "live" => vpc'[j].state = "live"
      BY <2>2, <2>5 DEF OneCreated
    <3> QED
      BY ONLY <2>1, <2>2, <2>5, <3>1, <3>2, <3>3, <3>4 DEF Continues, Places, Creating, Deleting
  <2>6. ASSUME CallFails, UNCHANGED <<vpc, scope>>, Goto("vpc", "requeue")
        PROVE  Continues
    <3>1. Grows
      BY <2>6, <1>t, FaultsStay
    <3> QED
      BY <2>1, <2>6, <3>1, <1>v, <1>p, Moves DEF Places, Creating, Deleting
  <2> QED
    BY Zenon, <1>4, <2>2, <2>3, <2>4, <2>5, <2>6 DEF CreateVPC
<1>5. CASE CreateVPCSubnet
  <2>1. AtVPC("subnets") /\ UNCHANGED <<obj, seen, base, found, wanted>>
    BY Zenon, <1>5 DEF CreateVPCSubnet, VPCUntouched, k8sVars
  <2>2. /\ ~s.deleting /\ Held(s) /\ Held(obj["vpc"]) /\ s \in VPCObject
        /\ scope \in [{"vpc"} -> VPCObject] /\ vpc \in [VPCs -> Network]
        /\ Running /\ pc["vpc"] = "subnets"
    BY <2>1, InsideVPC DEF Places, Creating
  <2>3. ASSUME NEW t, Set("vpc", t), Like(t, s, s.finalizers, s.id), SameVPCs, UNCHANGED histVars,
               NEW m \in {"subnets", "return"}, pc' \in [{"vpc"} -> {m}]
        PROVE  Continues
    <3>1. Grows
      BY <2>3, <1>t, FaultsStay
    <3>2. Like(scope'["vpc"], s, s.finalizers, s.id) /\ scope' \in [{"vpc"} -> VPCObject]
      BY <2>2, <2>3, CopySet
    <3> QED
      BY <2>1, <2>2, <2>3, <3>1, <3>2, <1>v, Moves DEF Places, Creating, Deleting
  <2>4. ASSUME UNCHANGED scope, SameVPCs, Grows, Goto("vpc", "requeue")
        PROVE  Continues
    BY <2>1, <2>4, <1>v, <1>p, Moves DEF Places, Creating, Deleting
  <2>5. CASE /\ Set("vpc", [s EXCEPT !.ready = TRUE]) /\ Goto("vpc", "return")
             /\ UNCHANGED <<vpc, histVars>>
    <3>1. Like([s EXCEPT !.ready = TRUE], s, s.finalizers, s.id)
      BY Zenon, <2>2, UpdatesVPC
    <3> QED
      BY <2>2, <2>3, <2>5, <3>1, <1>v, <1>p
  <2>6. ASSUME NEW sn \in Missing, vpc' = [vpc EXCEPT ![s.id].subnets = @ \cup {sn}],
               \/ /\ Set("vpc", [s EXCEPT !.subnets[sn] = TRUE])
                  /\ UNCHANGED <<pc, histVars>>
               \/ /\ Fault("vpc", "lostReply")
                  /\ Goto("vpc", "requeue")
                  /\ UNCHANGED scope
        PROVE  Continues
    <3>1. sn \in DOMAIN s.subnets /\ sn \in Subnets
      BY <2>2, <2>6, SubnetMaps DEF Missing, VPCObject
    <3>2. SameVPCs
      <4>1. \A i : vpc' = [vpc EXCEPT ![i].subnets = @ \cup {sn}] => SameVPCs
        BY Zenon, <2>2, <3>1, SubnetChanges
      <4> QED
        BY Zenon, <2>6, <4>1
    <3>3. Like([s EXCEPT !.subnets[sn] = TRUE], s, s.finalizers, s.id)
      BY Zenon, <2>2, <3>1, UpdatesVPC
    <3>4. CASE Set("vpc", [s EXCEPT !.subnets[sn] = TRUE]) /\ UNCHANGED <<pc, histVars>>
      <4>1. pc' \in [{"vpc"} -> {"subnets"}]
        BY <2>2, <3>4, <1>t DEF Types
      <4> QED
        BY <2>3, <3>2, <3>3, <3>4, <4>1
    <3>5. CASE Fault("vpc", "lostReply") /\ Goto("vpc", "requeue") /\ UNCHANGED scope
      <4>1. Grows
        BY Zenon, <3>5, <1>t, FaultsGrow DEF Fault
      <4> QED
        BY <2>4, <3>2, <3>5, <4>1
    <3> QED
      BY <2>6, <3>4, <3>5
  <2>7. CASE (CallFails \/ UNCHANGED histVars) /\ Goto("vpc", "requeue") /\ UNCHANGED <<vpc, scope>>
    <3>1. Grows
      BY <2>7, <1>t, FaultsStay
    <3>2. SameVPCs /\ UNCHANGED scope
      BY <2>7, <1>v
    <3> QED
      BY Zenon, <2>2, <2>4, <2>7, <3>1, <3>2
  <2> QED
    BY Zenon, <1>5, <2>2, <2>5, <2>6, <2>7 DEF CreateVPCSubnet
<1> QED
  BY <1>1, <1>2, <1>3, <1>4, <1>5

\* The steps of reconcileDelete.
LEMMA DeleteSteps ==
  ASSUME IInv,
         getVPC \/ deleteVPCResources \/ handleRetainedSubnets \/ RemoveCredentialsRefFinalizerVPC
  PROVE  Running /\ Continues
<1> DEFINE s == scope["vpc"]
<1>t. Types
  BY DEF IInv
<1>v. (UNCHANGED vpc => SameVPCs) /\ (UNCHANGED found => found' \in Found)
  BY SubnetChanges DEF IInv, Types
<1>p. \A l : Goto("vpc", l) => pc' \in [{"vpc"} -> {l}]
  BY DEF Goto, IInv, Types
<1>f. ASSUME NEW f \in FaultKinds, Fault("vpc", f) PROVE Grows
  BY <1>t, <1>f, FaultsGrow
<1>n. ASSUME s \in VPCObject, scope \in [{"vpc"} -> VPCObject], Set("vpc", [s EXCEPT !.id = None])
      PROVE  Like(scope'["vpc"], s, s.finalizers, None) /\ scope' \in [{"vpc"} -> VPCObject]
  <2>1. Like([s EXCEPT !.id = None], s, s.finalizers, None)
    BY Zenon, <1>n, UpdatesVPC
  <2> QED
    BY <1>n, <2>1, CopySet
<1>1. CASE getVPC
  <2>1. AtVPC("get") /\ UNCHANGED <<obj, seen, base, vpc, wanted>> /\ Grows
    BY <1>1, <1>t, FaultsStay DEF getVPC, VPCUntouched, k8sVars
  <2>2. /\ Running /\ s.deleting /\ s \in VPCObject /\ scope \in [{"vpc"} -> VPCObject]
        /\ vpc \in [VPCs -> Network] /\ found \in Found /\ s.retain = obj["vpc"].retain
        /\ \A i \in VPCs : vpc[i].own => vpc[i].named
        /\ ~Forgotten => \A i \in VPCs : Owned(i) => s.id = i /\ Held(s) /\ Held(obj["vpc"])
    BY <2>1, InsideVPC DEF Places, Deleting
  <2>3. CASE /\ LiveVPC(s.id)
             /\ found' = [subnets |-> vpc[s.id].subnets, nodes |-> vpc[s.id].nodes, done |-> {}]
             /\ Goto("vpc", IF s.retain THEN "deleteSubnets" ELSE "delete")
             /\ UNCHANGED scope
    <3>1. s.id \in VPCs
      BY <2>2, <2>3 DEF LiveVPC, VPCObject
    <3>2. found' \in Found
      BY <2>2, <2>3, <3>1 DEF Found, Network
    <3>3. \/ s.retain /\ pc' \in [{"vpc"} -> {"deleteSubnets"}]
          \/ ~s.retain /\ pc' \in [{"vpc"} -> {"delete"}]
      BY <2>3, <1>p
    <3> QED
      BY Zenon, <2>1, <2>2, <2>3, <3>2, <3>3, <1>v, Moves DEF Places, Creating, Deleting
  <2>4. CASE /\ ~LiveVPC(s.id)
             /\ Set("vpc", IF s.retain THEN s ELSE [s EXCEPT !.id = None])
             /\ Goto("vpc", "release")
             /\ UNCHANGED found
    <3>0. pc' \in [{"vpc"} -> {"release"}] /\ found' \in Found
      BY <2>4, <1>p, <1>v
    <3>1. CASE s.retain
      <4>1. UNCHANGED scope
        BY <2>2, <2>4, <3>1 DEF Set
      <4> QED
        BY <2>1, <2>2, <3>0, <3>1, <4>1, <1>v, Moves DEF Places, Creating, Deleting
    <3>2. CASE ~s.retain
      <4>1. Like(scope'["vpc"], s, s.finalizers, None) /\ scope' \in [{"vpc"} -> VPCObject]
        BY <2>2, <2>4, <3>2, <1>n
      <4>2. Forgotten => Forgotten'
        BY <2>1, HistoryStays
      <4>3. ~Forgotten' => \A i \in VPCs : ~(vpc'[i].state = "live" /\ vpc'[i].own)
        BY <2>1, <2>2, <2>4, <4>2, VPCAssumptions DEF LiveVPC, Owned
      <4>4. OutOfBand => OutOfBand'
        BY <2>1, HistoryStays
      <4> QED
        BY ONLY <2>1, <2>2, <3>0, <4>1, <4>3, <4>4
        DEF Continues, Like, Held, Places, Creating, Deleting
    <3> QED
      BY <3>1, <3>2
  <2>5. CASE Goto("vpc", "requeue") /\ UNCHANGED <<scope, found>>
    BY <2>1, <2>2, <2>5, <1>p, <1>v, Moves DEF Places, Creating, Deleting
  <2> QED
    BY Zenon, <1>1, <2>3, <2>4, <2>5 DEF getVPC
<1>2. CASE deleteVPCResources
  <2>1. AtVPC("delete") /\ UNCHANGED <<obj, seen, base, found, wanted>>
    BY Zenon, <1>2 DEF deleteVPCResources, VPCUntouched, k8sVars
  <2>2. /\ Running /\ s.deleting /\ s \in VPCObject /\ scope \in [{"vpc"} -> VPCObject]
        /\ vpc \in [VPCs -> Network] /\ found \in Found /\ s.retain = obj["vpc"].retain
        /\ \A i \in VPCs : vpc[i].own => vpc[i].named
        /\ ~Forgotten => \A i \in VPCs : Owned(i) => s.id = i /\ Held(s) /\ Held(obj["vpc"])
    BY <2>1, InsideVPC DEF Places, Deleting
  <2>3. CASE Goto("vpc", "requeue") /\ UNCHANGED <<vpc, scope>> /\ (CallFails \/ UNCHANGED histVars)
    <3>1. Grows
      BY <2>3, <1>t, FaultsStay
    <3> QED
      BY <2>1, <2>2, <2>3, <3>1, <1>p, <1>v, Moves DEF Places, Creating, Deleting
  <2>4. ASSUME Grows, Set("vpc", [s EXCEPT !.id = None]), Goto("vpc", "release"),
               \/ ~LiveVPC(s.id) /\ UNCHANGED vpc
               \/ LiveVPC(s.id) /\ OneDeleted(s.id)
        PROVE  Running /\ Continues
    <3>1. Like(scope'["vpc"], s, s.finalizers, None) /\ scope' \in [{"vpc"} -> VPCObject]
      BY <2>2, <2>4, <1>n
    <3>2. pc' \in [{"vpc"} -> {"release"}]
      BY <2>4, <1>p
    <3>3. Forgotten => Forgotten'
      BY <2>1, <2>4, HistoryStays
    <3>4. ~Forgotten' => \A i \in VPCs : ~(vpc'[i].state = "live" /\ vpc'[i].own)
      BY <2>1, <2>2, <2>4, <3>3, VPCAssumptions DEF LiveVPC, Owned, OneDeleted
    <3>5. vpc' \in [VPCs -> Network] /\ \A i \in VPCs : vpc'[i].own => vpc'[i].named
      BY <2>2, <2>4 DEF OneDeleted
    <3> QED
      BY ONLY <2>1, <2>2, <2>4, <3>1, <3>2, <3>4, <3>5
      DEF Continues, Like, Held, Places, Creating, Deleting
  <2>5. CASE /\ LiveVPC(s.id) /\ vpc' = Deleted(s.id)
             /\ Fault("vpc", "lostReply") /\ Goto("vpc", "requeue") /\ UNCHANGED scope
    <3>1. OneDeleted(s.id)
      BY Zenon, <2>2, <2>5, VPCChanges DEF LiveVPC, VPCObject
    <3>2. Grows /\ Forgotten'
      BY Zenon, <2>5, <1>t, FaultsGrow DEF Fault, Forgotten, Undisturbed
    <3>3. pc' \in [{"vpc"} -> {"requeue"}]
      BY <2>5, <1>p
    <3>4. vpc' \in [VPCs -> Network] /\ \A i \in VPCs : vpc'[i].own => vpc'[i].named
      BY <2>2, <3>1 DEF OneDeleted
    <3> QED
      BY ONLY Zenon, <2>1, <2>2, <2>5, <3>2, <3>3, <3>4 DEF Continues, Places, Creating, Deleting
  <2>6. CASE /\ LiveVPC(s.id) /\ vpc' = Deleted(s.id) /\ UNCHANGED histVars
             /\ Set("vpc", [s EXCEPT !.id = None]) /\ Goto("vpc", "release")
    <3>1. OneDeleted(s.id)
      BY Zenon, <2>2, <2>6, VPCChanges DEF LiveVPC, VPCObject
    <3>2. Grows
      BY <2>6, <1>t, FaultsStay
    <3> QED
      BY Zenon, <2>4, <2>6, <3>1, <3>2
  <2>7. CASE /\ ~LiveVPC(s.id) /\ UNCHANGED <<vpc, histVars>>
             /\ Set("vpc", [s EXCEPT !.id = None]) /\ Goto("vpc", "release")
    <3>1. Grows /\ UNCHANGED vpc
      BY <2>7, <1>t, FaultsStay
    <3> QED
      BY Zenon, <2>4, <2>7, <3>1
  <2> QED
    BY Zenon, <1>2, <2>3, <2>5, <2>6, <2>7 DEF deleteVPCResources
<1>3. CASE handleRetainedSubnets
  <2>1. AtVPC("deleteSubnets") /\ UNCHANGED <<obj, seen, base, scope, wanted>>
    BY Zenon, <1>3 DEF handleRetainedSubnets, VPCUntouched, k8sVars
  <2>2. /\ Running /\ s.deleting /\ s \in VPCObject /\ pc["vpc"] = "deleteSubnets"
        /\ vpc \in [VPCs -> Network] /\ found \in Found
    BY <2>1, InsideVPC DEF Places, Deleting
  <2>3. SameVPCs
    <3>1. \/ UNCHANGED vpc
          \/ \E sn : vpc' = [vpc EXCEPT ![s.id].subnets = @ \ {sn}, ![s.id].nodes = @ \ {sn}]
      BY Zenon, <1>3 DEF handleRetainedSubnets
    <3>2. \A i, sn : vpc' = [vpc EXCEPT ![i].subnets = @ \ {sn}, ![i].nodes = @ \ {sn}] => SameVPCs
      BY Zenon, <2>2, SubnetChanges
    <3> QED
      BY Zenon, <3>1, <3>2, <1>v
  <2>4. Grows
    <3>1. CallFails \/ UNCHANGED histVars \/ Fault("vpc", "lostReply")
      BY Zenon, <1>3 DEF handleRetainedSubnets
    <3>2. Fault("vpc", "lostReply") => Grows
      BY Zenon, <1>f DEF Fault
    <3> QED
      BY <3>1, <3>2, <1>t, FaultsStay
  <2>5. found' \in Found
    <3>1. ASSUME NEW sn \in ToDelete, found' = [found EXCEPT !.done = @ \cup {sn}]
          PROVE  found' \in Found
      <4>1. sn \in Subnets
        BY <2>2, SubnetMaps DEF ToDelete, VPCObject
      <4> QED
        BY <2>2, <3>1, <4>1 DEF Found
    <3> QED
      BY Zenon, <1>3, <1>v, <3>1 DEF handleRetainedSubnets
  <2>6. \/ pc' \in [{"vpc"} -> {"requeue"}]
        \/ pc' \in [{"vpc"} -> {"deleteSubnets"}]
        \/ pc' \in [{"vpc"} -> {"release"}]
    <3>1. Goto("vpc", "requeue") \/ UNCHANGED pc \/ Goto("vpc", "release")
      BY Zenon, <1>3 DEF handleRetainedSubnets
    <3>2. UNCHANGED pc => pc' \in [{"vpc"} -> {"deleteSubnets"}]
      BY <2>2, <1>t DEF Types
    <3> QED
      BY <3>1, <3>2, <1>p
  <2>7. s.retain
    BY <2>1 DEF IInv, Known, AtVPC, Running
  <2> QED
    BY <2>1, <2>2, <2>3, <2>4, <2>5, <2>6, <2>7, Moves DEF Places, Creating, Deleting
<1>4. CASE RemoveCredentialsRefFinalizerVPC
  <2>1. AtVPC("release") /\ UNCHANGED <<obj, seen, base, vpc, found, wanted>> /\ Grows
    BY <1>4, <1>t, FaultsStay
       DEF RemoveCredentialsRefFinalizerVPC, ReleaseSecret, k8sVars, vpcVars
  <2>2. /\ Running /\ s.deleting /\ s \in VPCObject /\ scope \in [{"vpc"} -> VPCObject]
        /\ vpc \in [VPCs -> Network] /\ found \in Found /\ s.retain = obj["vpc"].retain
        /\ \A i \in VPCs : vpc[i].own => vpc[i].named
        /\ ~s.retain => s.id = None
        /\ ~Forgotten => \A i \in VPCs : Owned(i) => s.id = i /\ Held(s) /\ Held(obj["vpc"])
    BY <2>1, InsideVPC DEF Places, Deleting
  <2>3. CASE Goto("vpc", "requeue") /\ UNCHANGED scope
    BY <2>1, <2>2, <2>3, <1>p, <1>v, Moves DEF Places, Creating, Deleting
  <2>4. CASE Goto("vpc", "return") /\ Set("vpc", [s EXCEPT !.finalizers = @ \ {"vpc"}])
    <3>1. pc' \in [{"vpc"} -> {"return"}]
      BY <2>4, <1>p
    <3>2. Like([s EXCEPT !.finalizers = @ \ {"vpc"}], s, {}, s.id)
      BY Zenon, <2>2, UpdatesVPC
    <3>3. Like(scope'["vpc"], s, {}, s.id) /\ scope' \in [{"vpc"} -> VPCObject]
      BY <2>2, <2>4, <3>2, CopySet
    <3>4. Forgotten => Forgotten'
      BY <2>1, HistoryStays
    <3>5. ~Forgotten' => \A i \in VPCs : ~(vpc'[i].state = "live" /\ vpc'[i].own)
      BY <2>1, <2>2, <3>4, VPCAssumptions DEF Owned, Forgotten
    <3> QED
      BY ONLY <2>1, <2>2, <3>1, <3>3, <3>5 DEF Continues, Like, Held, Places, Creating, Deleting
  <2> QED
    BY <1>4, <2>3, <2>4 DEF RemoveCredentialsRefFinalizerVPC, ReleaseSecret
<1> QED
  BY <1>1, <1>2, <1>3, <1>4

\* A reconcile starts from the cached copy.
LEMMA BeginKeeps == IInv /\ SubnetInv /\ ReconcileVPC => IInv' /\ SubnetInv'
<1> SUFFICES ASSUME IInv, SubnetInv, ReconcileVPC PROVE IInv' /\ SubnetInv'
  OBVIOUS
<1> DEFINE c == seen["vpc"]
<1>1. /\ pc["vpc"] = "idle" /\ UNCHANGED <<obj, seen, vpc, wanted>> /\ Types /\ c \in VPCObject
      /\ found' \in Found
  BY DEF ReconcileVPC, Begin, IInv, Types, Found, NothingFound
<1>2. CASE ~c.exists
  <2>1. UNCHANGED <<obj, seen, pc, scope, base, faults, vpc, wanted>>
    BY <1>1, <1>2 DEF ReconcileVPC, Begin, ctrlVars, histVars
  <2> QED
    BY <1>1, <2>1
    DEF IInv, Types, Kept, Known, Existing, NoneOrLive, OutOfBand, Recorded, Running, Owned,
        Forgotten, Undisturbed, SubnetInv
<1>3. CASE c.exists
  <2>1. /\ Goto("vpc", "credentials")
        /\ base' = [base EXCEPT !["vpc"] = c]
        /\ Set("vpc", [c EXCEPT !.ready = @ /\ ~TRUE])
        /\ IF c = obj["vpc"] THEN UNCHANGED histVars ELSE Fault("vpc", "stale")
    BY <1>3 DEF ReconcileVPC, Begin
  <2>2. /\ pc' \in [{"vpc"} -> {"credentials"}]
        /\ base' \in [{"vpc"} -> VPCObject] /\ base'["vpc"] = c
    BY <1>1, <2>1 DEF Goto, Types
  <2>3. /\ Like([c EXCEPT !.ready = @ /\ ~TRUE], c, c.finalizers, c.id)
        /\ [c EXCEPT !.ready = @ /\ ~TRUE].subnets = c.subnets
    BY Zenon, <1>1, UpdatesVPC
  <2>4. /\ Like(scope'["vpc"], c, c.finalizers, c.id) /\ scope' \in [{"vpc"} -> VPCObject]
        /\ scope'["vpc"].subnets = c.subnets
    BY <1>1, <2>1, <2>3 DEF Set, Like, Types
  <2>5. /\ Grows
        /\ c = obj["vpc"] \/ (Forgotten' /\ ~Undisturbed("vpc", {"overlap", "stale"})')
    BY <1>1, <2>1, FaultsStay, FaultsGrow DEF Fault, Forgotten, Undisturbed
  <2>6. /\ Forgotten => Forgotten'
        /\ OutOfBand => OutOfBand'
        /\ Undisturbed("vpc", {"overlap", "stale"})' => Undisturbed("vpc", {"overlap", "stale"})
    BY <1>1, <2>5, HistoryStays
  <2>7. Types'
    BY <1>1, <2>2, <2>4, <2>5 DEF Types, Running, Places, Grows
  <2>8. Kept'
    BY <1>1 DEF IInv, Kept, Held
  <2>9. Known'
    BY <1>1, <2>2, <2>4 DEF IInv, Known, Like, Held, Running, Creating, Deleting
  <2>10. Existing'
    BY <1>1, <2>2, <2>4, <2>6 DEF IInv, Existing, NoneOrLive, Like, Running
  <2>11. Recorded'
    BY <1>1, <2>2, <2>4, <2>5, <2>6 DEF IInv, Recorded, Like, Held, Running, Owned
  <2>12. SubnetInv'
    BY <1>1, <2>2, <2>4, <2>5, <2>6 DEF SubnetInv
  <2> QED
    BY <2>7, <2>8, <2>9, <2>10, <2>11, <2>12 DEF IInv
<1> QED
  BY <1>2, <1>3

\* AddFinalizer stores the finalizer, and nothing else that the reconcile has not read.
LEMMA AddFinalizerKeeps == IInv /\ SubnetInv /\ AddFinalizerVPC => IInv' /\ SubnetInv'
<1> SUFFICES ASSUME IInv, SubnetInv, AddFinalizerVPC PROVE IInv' /\ SubnetInv'
  OBVIOUS
<1> DEFINE s == scope["vpc"]
           b == base["vpc"]
           t == [s EXCEPT !.finalizers = @ \cup {"vpc"}]
           p == Patched(obj["vpc"], b, t, PatchParts)
           next == IF s.id # None THEN "list" ELSE "addCredentials"
<1>1. /\ Running /\ Types /\ pc["vpc"] = "addFinalizer" /\ AtVPC("addFinalizer")
      /\ s \in VPCObject /\ b \in VPCObject /\ obj["vpc"] \in VPCObject
      /\ scope \in [{"vpc"} -> VPCObject]
      /\ ~s.deleting /\ ~b.deleting /\ s.deleting = b.deleting /\ s.exists = b.exists
      /\ s.retain = b.retain
      /\ s.finalizers = b.finalizers /\ s.id = b.id /\ s.subnets = b.subnets
      /\ UNCHANGED <<seen, base, vpc, found, wanted>>
  BY DEF AddFinalizerVPC, PatchFinalizer, AtVPC, IInv, Types, Known, Running, Creating, vpcVars
<1>2. Like(t, s, {"vpc"}, s.id) /\ t.subnets = s.subnets
  BY Zenon, <1>1, UpdatesVPC
<1> HIDE DEF t
<1>3. /\ Like(scope'["vpc"], s, {"vpc"}, s.id) /\ scope' \in [{"vpc"} -> VPCObject]
      /\ scope'["vpc"].subnets = s.subnets
  <2>1. Set("vpc", t)
    BY DEF AddFinalizerVPC, PatchFinalizer, t
  <2>2. scope'["vpc"] = t
    BY <1>1, <2>1 DEF Set
  <2> QED
    BY <1>1, <1>2, <2>1, <2>2, CopySet
<1>4. Grows
  BY <1>1, FaultsStay DEF AddFinalizerVPC, PatchFinalizer
<1>v. SameVPCs /\ found' \in Found
  BY <1>1, SubnetChanges DEF Types
<1>6. CASE Held(s) /\ Goto("vpc", next) /\ UNCHANGED obj
  <2>1. \E m \in {"list", "addCredentials"} : pc' \in [{"vpc"} -> {m}]
    BY <1>1, <1>6 DEF Goto, Types
  <2>2. Held(obj["vpc"]) /\ s.finalizers = {"vpc"}
    BY <1>1, <1>6 DEF IInv, Known, Held, VPCObject
  <2>3. Continues
    BY <1>1, <1>3, <1>4, <1>6, <1>v, <2>1, <2>2, Moves DEF Places, Creating, Deleting
  <2> QED
    BY <1>1, <2>3, ContinuesKeeps
<1>7. CASE ~Held(s) /\ Goto("vpc", "requeue") /\ UNCHANGED obj
  <2>1. pc' \in [{"vpc"} -> {"requeue"}]
    BY <1>1, <1>7 DEF Goto, Types
  <2>2. (OutOfBand => OutOfBand') /\ (Forgotten => Forgotten')
    BY <1>4, <1>7, HistoryStays
  <2>3. /\ \A i \in VPCs : vpc'[i].own => vpc'[i].named
        /\ ~OutOfBand' => (s.id # None => vpc'[s.id].state = "live")
        /\ ~Forgotten' => \A i \in VPCs : vpc'[i].state = "live" /\ vpc'[i].own =>
                             s.id = i /\ Held(s) /\ Held(obj["vpc"])
    BY <1>1, <2>2 DEF IInv, Existing, NoneOrLive, Recorded, Owned, Running
  <2>4. vpc' \in [VPCs -> Network]
    BY <1>v DEF SameVPCs
  <2>5. Continues
    BY ONLY <1>1, <1>3, <1>4, <1>7, <1>v, <2>1, <2>3, <2>4
    DEF Continues, Like, Held, Places, Creating, Deleting
  <2> QED
    BY <1>1, <2>5, ContinuesKeeps
<1>8. CASE /\ ~Held(s) /\ obj["vpc"].exists
           /\ obj' = [obj EXCEPT !["vpc"] = p]
           /\ Goto("vpc", next)
  <2>1. pc' \in [{"vpc"} -> {"list", "addCredentials"}]
    BY <1>1, <1>8 DEF Goto, Types
  <2>2. Like(p, obj["vpc"], {"vpc"}, obj["vpc"].id) /\ p.subnets = obj["vpc"].subnets
    <3>1. b.finalizers # {"vpc"} /\ t.finalizers = {"vpc"} /\ t \in VPCObject /\ b.id = t.id
          /\ b.exists = t.exists /\ b.deleting = t.deleting /\ b.retain = t.retain
          /\ b.subnets = t.subnets
      BY <1>1, <1>2, <1>8 DEF Like, Held
    <3>2. IsPatch(p, obj["vpc"], b, t, PatchParts)
      BY ONLY <1>1, <3>1, PatchedVPC
    <3> HIDE DEF p
    <3> QED
      BY ONLY <3>1, <3>2 DEF Like, PatchParts, IsPatch
  <2>3. /\ Like(obj'["vpc"], obj["vpc"], {"vpc"}, obj["vpc"].id) /\ obj' \in [{"vpc"} -> VPCObject]
        /\ obj'["vpc"].subnets = obj["vpc"].subnets
    BY Zenon, <1>1, <1>8, <2>2 DEF Like, Types
  <2>h. /\ OutOfBand => OutOfBand'
        /\ Forgotten => Forgotten'
        /\ Undisturbed("vpc", {"overlap", "stale"})' => Undisturbed("vpc", {"overlap", "stale"})
    BY <1>4, <2>3, HistoryStays DEF Like
  <2>4. Types'
    BY <1>1, <1>3, <1>4, <1>v, <2>1, <2>3 DEF Types, Grows, Running, Places, Creating, SameVPCs
  <2>5. Kept'
    BY Zenon, <1>8, <2>3 DEF Kept, Held, Like, IInv
  <2>6. Known'
    BY <1>1, <1>3, <2>1, <2>3 DEF IInv, Known, Like, Held, Running, Creating, Deleting
  <2>7. Existing'
    BY <1>1, <1>3, <2>1, <2>3, <2>h DEF IInv, Existing, NoneOrLive, Like, Running
  <2>8. Recorded'
    BY <1>1, <1>3, <2>1, <2>3, <2>h DEF IInv, Recorded, Like, Held, Running, Owned
  <2>9. SubnetInv'
    BY <1>1, <1>3, <2>1, <2>3, <2>h DEF SubnetInv
  <2> QED
    BY <2>4, <2>5, <2>6, <2>7, <2>8, <2>9 DEF IInv
<1> QED
  BY <1>6, <1>7, <1>8 DEF AddFinalizerVPC, PatchFinalizer, Held, t

\* What Close stores: the object as it is, or the patched one.
LEMMA CloseStores ==
  ASSUME IInv, CloseVPC
  PROVE  /\ Running /\ UNCHANGED <<seen, vpc, wanted>> /\ Grows /\ found' \in Found
         /\ pc' \in [{"vpc"} -> {"idle"}]
         /\ scope' \in [{"vpc"} -> {None}] /\ base' \in [{"vpc"} -> {None}]
         /\ \/ UNCHANGED obj /\ ~obj["vpc"].exists
            \/ \E parts, p :
                 /\ IsPatch(p, obj["vpc"], base["vpc"], scope["vpc"], parts)
                 /\ obj["vpc"].exists
                 /\ obj' = [obj EXCEPT !["vpc"] = Stored(p)]
                 /\ \/ "object" \in parts
                    \/ ~Undisturbed("vpc", {"lostPatch"})'
                    \/ /\ obj["vpc"].deleting /\ ~Held(obj["vpc"])
                       /\ UNCHANGED faults
<1> DEFINE s == scope["vpc"]
           b == base["vpc"]
           o == obj["vpc"]
           p(parts) == Patched(o, b, s, parts)
           Finish(parts) == obj' = [obj EXCEPT !["vpc"] = Stored(p(parts))]
<1>1. /\ Running /\ Types /\ s \in VPCObject /\ b \in VPCObject /\ o \in VPCObject
      /\ b.exists = s.exists /\ b.deleting = s.deleting /\ b.retain = s.retain
  BY Zenon DEF IInv, Types, Known, Running, CloseVPC, ClosePatch
<1>2. \A parts : IsPatch(p(parts), o, b, s, parts)
  BY ONLY <1>1, PatchedVPC
<1>3. UNCHANGED <<seen, vpc, wanted>> /\ pc' \in [{"vpc"} -> {"idle"}]
      /\ scope' \in [{"vpc"} -> {None}] /\ base' \in [{"vpc"} -> {None}] /\ found' \in Found
  BY Zenon, <1>1 DEF CloseVPC, ClosePatch, Goto, Types, Found, NothingFound
<1>4. \/ ~o.exists /\ UNCHANGED <<obj, histVars>>
      \/ o.exists /\ Accepted(o, p(PatchParts)) /\ Finish(PatchParts) /\ UNCHANGED histVars
      \/ o.exists /\ ~Accepted(o, p(PatchParts)) /\ Finish({"status"}) /\ UNCHANGED histVars
      \/ \E parts : o.exists /\ Finish(parts) /\ Fault("vpc", "lostPatch")
  BY DEF CloseVPC, ClosePatch
<1> HIDE DEF p
<1>5. CASE ~o.exists /\ UNCHANGED <<obj, histVars>>
  BY <1>1, <1>3, <1>5, FaultsStay
<1>6. CASE o.exists /\ Accepted(o, p(PatchParts)) /\ Finish(PatchParts) /\ UNCHANGED histVars
  <2>1. IsPatch(p(PatchParts), o, b, s, PatchParts) /\ "object" \in PatchParts
    BY <1>2 DEF PatchParts
  <2> QED
    BY Zenon, <1>1, <1>3, <1>6, <2>1, FaultsStay
<1>7. CASE o.exists /\ ~Accepted(o, p(PatchParts)) /\ Finish({"status"}) /\ UNCHANGED histVars
  <2>1. IsPatch(p({"status"}), o, b, s, {"status"})
    BY <1>2
  <2>2. p(PatchParts).finalizers \subseteq {"vpc"}
    BY <1>2 DEF IsPatch, VPCObject
  <2>3. o.deleting /\ ~Held(o)
    BY <1>1, <1>7, <2>2 DEF Accepted, Held, VPCObject
  <2> QED
    BY Zenon, <1>1, <1>3, <1>7, <2>1, <2>3, FaultsStay DEF histVars
<1>8. ASSUME NEW parts, o.exists, Finish(parts), Fault("vpc", "lostPatch")
      PROVE  /\ Grows
             /\ \E q, r : /\ IsPatch(r, o, b, s, q) /\ o.exists
                          /\ obj' = [obj EXCEPT !["vpc"] = Stored(r)]
                          /\ ~Undisturbed("vpc", {"lostPatch"})'
  <2>1. Grows /\ "lostPatch" \in faults'["vpc"]
    BY Zenon, <1>1, <1>8, FaultsGrow DEF Fault
  <2>2. ~Undisturbed("vpc", {"lostPatch"})'
    BY <2>1 DEF Undisturbed
  <2> QED
    BY Zenon, <1>2, <1>8, <2>1, <2>2
<1> QED
  BY Zenon, <1>1, <1>3, <1>4, <1>5, <1>6, <1>7, <1>8

\* Close keeps the invariant.
LEMMA CloseKeeps == IInv /\ SubnetInv /\ CloseVPC => IInv' /\ SubnetInv'
<1> SUFFICES ASSUME IInv, SubnetInv, CloseVPC PROVE IInv' /\ SubnetInv'
  OBVIOUS
<1> DEFINE s == scope["vpc"]
           b == base["vpc"]
           o == obj["vpc"]
<1>1. /\ Running /\ UNCHANGED <<seen, vpc, wanted>> /\ Grows /\ found' \in Found
      /\ pc' \in [{"vpc"} -> {"idle"}]
      /\ scope' \in [{"vpc"} -> {None}] /\ base' \in [{"vpc"} -> {None}]
  BY CloseStores
<1>h. /\ OutOfBand => OutOfBand'
      /\ obj'["vpc"].retain = o.retain => (Forgotten => Forgotten')
      /\ Undisturbed("vpc", {"overlap", "stale"})' => Undisturbed("vpc", {"overlap", "stale"})
      /\ ~Undisturbed("vpc", {"lostPatch"})' => Forgotten'
  <2>1. ~Undisturbed("vpc", {"lostPatch"})' => Forgotten'
    BY DEF Forgotten, Undisturbed
  <2> QED
    BY <1>1, <2>1, HistoryStays
<1>3. CASE UNCHANGED obj /\ ~o.exists
  <2>1. Types' /\ Kept' /\ Known'
    BY <1>1, <1>3 DEF IInv, Types, Kept, Known, Running, Places, Grows, Held
  <2>2. Recorded'
    BY <1>1, <1>h, <1>3 DEF IInv, Recorded, Kept, Running, Held, Owned
  <2>3. Existing'
    BY <1>1, <1>h, <1>3 DEF IInv, Existing, NoneOrLive, Running
  <2>4. SubnetInv'
    BY <1>1, <1>h, <1>3 DEF SubnetInv, Running
  <2> QED
    BY <2>1, <2>2, <2>3, <2>4 DEF IInv
<1>4. ASSUME NEW parts, NEW p, IsPatch(p, o, b, s, parts), o.exists,
             obj' = [obj EXCEPT !["vpc"] = Stored(p)],
             \/ "object" \in parts
             \/ ~Undisturbed("vpc", {"lostPatch"})'
             \/ o.deleting /\ ~Held(o) /\ UNCHANGED faults
      PROVE  IInv' /\ SubnetInv'
  <2>1. /\ Stored(p) \in VPCObject /\ Stored(p).deleting = o.deleting
        /\ Stored(p).retain = o.retain
        /\ Stored(p).finalizers = p.finalizers /\ Stored(p).id = p.id
        /\ Stored(p).subnets = p.subnets
        /\ Stored(p).exists = ~(o.deleting /\ p.finalizers = {})
    BY Zenon, <1>4, StoredVPC DEF IsPatch
  <2>2. obj'["vpc"] = Stored(p) /\ obj' \in [{"vpc"} -> VPCObject]
    BY <1>4, <2>1 DEF IInv, Types
  <2>3. Held(s) /\ Held(o) => Held(p)
    BY <1>4 DEF IsPatch, Held
  <2>4. Types'
    BY <1>1, <2>2 DEF IInv, Types, Running, Places, Grows
  <2>5. Kept'
    BY Zenon, <1>1, <1>4, <2>1, <2>2 DEF Kept, Held, IInv
  <2>6. Known'
    <3>1. obj'["vpc"].deleting = o.deleting /\ obj'["vpc"].retain = o.retain
      BY <2>1, <2>2
    <3>2. ~seen["vpc"].deleting /\ Held(o) => Held(p)
      <4> SUFFICES ASSUME ~seen["vpc"].deleting, Held(o), ~Held(s) PROVE Held(p)
        BY <2>3
      <4>1. ~b.deleting /\ ~Held(b)
        BY <1>1 DEF IInv, Known
      <4>2. b \in VPCObject /\ s \in VPCObject
        BY <1>1 DEF IInv, Types
      <4>3. b.finalizers = s.finalizers
        BY <4>1, <4>2 DEF Held, VPCObject
      <4> QED
        BY <1>4, <4>3 DEF IsPatch, Held
    <3> QED
      BY <1>1, <2>1, <2>2, <3>1, <3>2 DEF IInv, Known, Running, Held
  <2>7. Existing'
    <3>1. p.id \in {s.id, o.id}
      BY <1>4 DEF IsPatch
    <3>2. b.deleting => seen["vpc"].deleting
      BY <1>1 DEF IInv, Known
    <3> QED
      BY <1>1, <1>h, <2>1, <2>2, <3>1, <3>2 DEF IInv, Existing, NoneOrLive, Running
  <2>8. Recorded'
    <3> SUFFICES ASSUME ~Forgotten', NEW i \in VPCs, Owned(i)
                 PROVE  Held(p) /\ p.id = i
      BY <1>1, <2>1, <2>2 DEF Recorded, Running, Held, Owned
    <3>1. s.id = i /\ Held(s) /\ Held(o) /\ o.id = b.id
      BY <1>1, <1>h, <2>1, <2>2 DEF IInv, Recorded
    <3>2. "object" \in parts
      BY <1>4, <1>h, <3>1
    <3> QED
      BY <1>4, <2>3, <3>1, <3>2 DEF IsPatch
  <2>9. SubnetInv'
    <3>1. p.subnets \in {s.subnets, o.subnets}
      BY <1>4 DEF IsPatch
    <3> QED
      BY <1>1, <1>h, <2>1, <2>2, <3>1 DEF SubnetInv, Running
  <2> QED
    BY <2>4, <2>5, <2>6, <2>7, <2>8, <2>9 DEF IInv
<1> QED
  BY <1>3, <1>4, CloseStores

\* A change of the VPCs that others make.
LEMMA OthersKeep ==
  ASSUME IInv, SubnetInv, UNCHANGED <<obj, seen, pc, scope, base, found, wanted>>, Grows,
         SameVPCs \/ (OutOfBand' /\ \E i \in VPCs : OneDeleted(i))
  PROVE  IInv' /\ SubnetInv'
<1>h. /\ OutOfBand => OutOfBand'
      /\ Forgotten => Forgotten'
      /\ Undisturbed("vpc", {"overlap", "stale"})' => Undisturbed("vpc", {"overlap", "stale"})
  BY HistoryStays
<1>1. /\ vpc' \in [VPCs -> Network]
      /\ \A i \in VPCs : /\ vpc'[i].own = vpc[i].own /\ vpc'[i].named = vpc[i].named
                         /\ vpc'[i].state = "live" => vpc[i].state = "live"
                         /\ ~OutOfBand' => vpc'[i].state = vpc[i].state
  BY DEF SameVPCs, OneDeleted
<1>2. Types'
  BY <1>1 DEF IInv, Types, Running, Grows
<1>3. Kept' /\ Known'
  BY DEF IInv, Kept, Known, Running, Held
<1>4. Existing'
  <2>1. /\ obj["vpc"].id \in VPCs \cup {None} /\ seen["vpc"].id \in VPCs \cup {None}
        /\ Running => scope["vpc"].id \in VPCs \cup {None}
    BY DEF IInv, Types, VPCObject
  <2> QED
    BY <1>1, <1>h, <2>1 DEF IInv, Existing, NoneOrLive, Running, Owned
<1>5. Recorded'
  BY Zenon, <1>1, <1>h DEF IInv, Recorded, Running, Held, Owned
<1>6. SubnetInv'
  BY <1>h DEF SubnetInv, Running
<1> QED
  BY <1>2, <1>3, <1>4, <1>5, <1>6 DEF IInv

\* What happens around the controller keeps the invariant.
LEMMA EnvironmentKeeps ==
  ASSUME IInv, SubnetInv, VPCEnvironment \/ (Environment /\ UNCHANGED vpcVars)
  PROVE  IInv' /\ SubnetInv'
<1>k. Kinds = {"vpc"}
  BY DEF Kinds, IInv, Types
<1>t. Types /\ vpc \in [VPCs -> Network]
  BY DEF IInv, Types
<1>1. ASSUME NEW i \in VPCs, OutOfBandVPC(i) PROVE IInv' /\ SubnetInv'
  <2>1. UNCHANGED <<obj, seen, pc, scope, base, found, wanted>>
    BY <1>1 DEF OutOfBandVPC, k8sVars, ctrlVars
  <2>2. Grows /\ "outOfBand" \in faults'["vpc"]
    BY Zenon, <1>1, <1>t, FaultsGrow DEF OutOfBandVPC, Fault
  <2>3. OutOfBand'
    BY <2>2 DEF OutOfBand, Undisturbed
  <2>4. OneDeleted(i)
    BY Zenon, <1>1, <1>t, VPCChanges DEF OutOfBandVPC
  <2> QED
    BY <2>1, <2>2, <2>3, <2>4, OthersKeep
<1>2. ASSUME NEW i \in VPCs, NEW sn \in Subnets, Attach(i, sn) \/ Detach(i, sn)
      PROVE  IInv' /\ SubnetInv'
  <2>1. UNCHANGED <<obj, seen, pc, scope, base, found, wanted, faults>>
    BY <1>2 DEF Attach, Detach, reconcilerVars, k8sVars, ctrlVars, histVars
  <2>2. SameVPCs
    BY <1>2, <1>t, SubnetChanges DEF Attach, Detach
  <2>3. Grows
    BY <1>t, <2>1, FaultsStay
  <2> QED
    BY <2>1, <2>2, <2>3, OthersKeep
<1>3. ASSUME NEW sn \in Subnets, UserAddsSubnet(sn) PROVE IInv' /\ SubnetInv'
  <2> DEFINE o == obj["vpc"]
             f == [x \in DOMAIN o.subnets \cup {sn} |-> IF x = sn THEN FALSE ELSE o.subnets[x]]
             t == [o EXCEPT !.subnets = f]
  <2>1. /\ UNCHANGED <<seen, pc, scope, base, vpc, found>> /\ wanted' = wanted \cup {sn}
        /\ o.exists /\ ~o.deleting /\ o \in VPCObject
    BY <1>3, <1>t DEF UserAddsSubnet, ctrlVars, Types
  <2>2. obj' = [obj EXCEPT !["vpc"] = t]
    BY <1>3, <1>t, <2>1 DEF UserAddsSubnet, Types, VPCObject
  <2>3. /\ t \in VPCObject
        /\ t.exists = o.exists /\ t.deleting = o.deleting /\ t.retain = o.retain
        /\ t.finalizers = o.finalizers /\ t.id = o.id
        /\ DOMAIN t.subnets = DOMAIN o.subnets \cup {sn}
    BY Zenon, <2>1, UserUpdates
  <2> HIDE DEF t
  <2>4. obj' \in [{"vpc"} -> VPCObject] /\ obj'["vpc"] = t
    BY <1>t, <2>2, <2>3 DEF Types
  <2>5. Grows /\ (Running => ~Undisturbed("vpc", {"overlap", "stale"})')
    <3>1. \/ pc["vpc"] = "idle" /\ UNCHANGED faults
          \/ faults' = [faults EXCEPT !["vpc"] = @ \cup {"overlap"}]
      BY <1>3 DEF UserAddsSubnet, Note
    <3> QED
      BY <1>t, <3>1 DEF Types, Grows, Undisturbed, Running, Faults
  <2>6. /\ OutOfBand => OutOfBand'
        /\ Forgotten => Forgotten'
        /\ Undisturbed("vpc", {"overlap", "stale"})' => Undisturbed("vpc", {"overlap", "stale"})
    BY <2>3, <2>4, <2>5, HistoryStays
  <2>7. Types'
    BY <1>3, <1>t, <2>1, <2>4, <2>5 DEF Types, Running, Grows
  <2>8. Kept' /\ Known'
    BY Zenon, <2>1, <2>3, <2>4 DEF IInv, Kept, Known, Running, Held
  <2>9. Existing'
    BY <2>1, <2>3, <2>4, <2>6 DEF IInv, Existing, NoneOrLive, Running, Owned
  <2>10. Recorded'
    BY <2>1, <2>3, <2>4, <2>6 DEF IInv, Recorded, Running, Held, Owned
  <2>11. SubnetInv'
    BY <2>1, <2>3, <2>4, <2>5, <2>6 DEF SubnetInv, Running
  <2> QED
    BY <2>7, <2>8, <2>9, <2>10, <2>11 DEF IInv
<1>4. CASE CacheSync("vpc") /\ UNCHANGED vpcVars
  <2>1. /\ UNCHANGED <<obj, pc, scope, base, faults, vpc, found, wanted>>
        /\ seen' = [seen EXCEPT !["vpc"] = obj["vpc"]]
    BY <1>4 DEF CacheSync, ctrlVars, histVars, vpcVars
  <2>2. seen' \in [{"vpc"} -> VPCObject] /\ seen'["vpc"] = obj["vpc"]
    BY <1>t, <2>1 DEF Types
  <2>3. Types' /\ Kept' /\ Recorded'
    BY <2>1, <2>2 DEF IInv, Types, Kept, Recorded, Running, Held, Owned, Forgotten, Undisturbed
  <2>4. Known'
    BY Zenon, <2>1, <2>2 DEF IInv, Known, Running, Held
  <2>5. Existing'
    BY Zenon, <2>1, <2>2 DEF IInv, Existing, Known, NoneOrLive, OutOfBand, Undisturbed, Running, Owned
  <2>6. SubnetInv'
    BY <2>1, <2>2 DEF SubnetInv, Undisturbed, Running
  <2> QED
    BY <2>3, <2>4, <2>5, <2>6 DEF IInv
<1>5. CASE (Wakeup("vpc") \/ UserDeletesSecret) /\ UNCHANGED vpcVars
  <2>1. UNCHANGED <<obj, seen, pc, scope, base, faults, vpc, found, wanted>>
    BY <1>5 DEF Wakeup, UserDeletesSecret, k8sVars, ctrlVars, vpcVars
  <2>2. SameVPCs /\ Grows
    BY <1>t, <2>1, SubnetChanges, FaultsStay
  <2> QED
    BY <2>1, <2>2, OthersKeep
<1>6. CASE UserDelete("vpc") /\ UNCHANGED vpcVars
  <2> DEFINE o == obj["vpc"]
             u == [o EXCEPT !.deleting = TRUE]
  <2>1. UNCHANGED <<seen, pc, scope, base, faults, vpc, found, wanted>> /\ o.exists
        /\ o \in VPCObject /\ obj' = [obj EXCEPT !["vpc"] = Stored(u)]
    BY <1>6, <1>t DEF Types, UserDelete, ctrlVars, histVars, vpcVars
  <2>2. u \in VPCObject /\ u.exists = o.exists /\ u.deleting = TRUE /\ u.retain = o.retain
        /\ u.finalizers = o.finalizers /\ u.id = o.id /\ u.subnets = o.subnets
    BY Zenon, <2>1, UserUpdates
  <2> HIDE DEF u
  <2>3. /\ Stored(u) \in VPCObject /\ Stored(u).deleting = TRUE /\ Stored(u).retain = o.retain
        /\ Stored(u).finalizers = o.finalizers /\ Stored(u).id = o.id
        /\ Stored(u).subnets = o.subnets
        /\ Stored(u).exists = ~(o.finalizers = {})
    BY Zenon, <2>1, <2>2, StoredVPC
  <2>4. obj' \in [{"vpc"} -> VPCObject] /\ obj'["vpc"] = Stored(u)
    BY <1>t, <2>1, <2>3 DEF Types
  <2>5. Types' /\ Kept'
    BY Zenon, <2>1, <2>3, <2>4 DEF IInv, Types, Kept, Running, Held
  <2>6. Known'
    BY <2>1, <2>3, <2>4 DEF IInv, Known, Running, Held
  <2>7. Existing'
    BY <2>1, <2>3, <2>4 DEF IInv, Existing, NoneOrLive, OutOfBand, Undisturbed, Running, Owned
  <2>8. Recorded'
    BY <2>1, <2>3, <2>4 DEF IInv, Recorded, Running, Held, Owned, Forgotten, Undisturbed
  <2>9. SubnetInv'
    BY <2>1, <2>3, <2>4 DEF SubnetInv, Undisturbed, Running
  <2> QED
    BY <2>5, <2>6, <2>7, <2>8, <2>9 DEF IInv
<1>7. CASE Crash /\ UNCHANGED vpcVars
  <2>1. /\ UNCHANGED <<obj, vpc, found, wanted>> /\ seen' = obj
        /\ pc' = [k \in {"vpc"} |-> "idle"]
        /\ scope' = [k \in {"vpc"} |-> None] /\ base' = [k \in {"vpc"} |-> None]
        /\ faults' = [k \in {"vpc"} |-> faults[k] \cup {"crash"}]
    BY <1>7, <1>k DEF Crash, vpcVars
  <2>2. Forgotten' /\ Grows
    BY <2>1, <1>t DEF Forgotten, Undisturbed, Faults, Types, Grows
  <2>3. /\ OutOfBand => OutOfBand'
        /\ Undisturbed("vpc", {"overlap", "stale"})' => Undisturbed("vpc", {"overlap", "stale"})
    BY <2>1, <2>2, HistoryStays
  <2>4. Types' /\ Kept' /\ Recorded'
    BY <2>1, <2>2 DEF IInv, Types, Kept, Recorded, Running, Held, Places, Grows
  <2>5. Known'
    BY <2>1 DEF IInv, Known, Running, Held
  <2>6. Existing'
    BY <2>1, <2>3 DEF IInv, Existing, Known, NoneOrLive, Running
  <2>7. SubnetInv'
    BY <2>1, <2>3 DEF SubnetInv, Running
  <2> QED
    BY <2>4, <2>5, <2>6, <2>7 DEF IInv
<1> QED
  BY <1>k, <1>1, <1>2, <1>3, <1>4, <1>5, <1>6, <1>7 DEF VPCEnvironment, Environment

\* The invariants hold throughout: a VPC is created only where the list by label shows
\* none, what is stored names and holds the VPC unless a fault got in between, and the
\* lists of subnets that the controller writes are the user's.
THEOREM InvariantHolds == VPCSpec => [](IInv /\ SubnetInv)
<1>1. IInv /\ SubnetInv /\ [VPCNext]_controllerVars => IInv' /\ SubnetInv'
  <2> SUFFICES ASSUME IInv, SubnetInv, [VPCNext]_controllerVars PROVE IInv' /\ SubnetInv'
    OBVIOUS
  <2>1. CASE VPCStep
    <3>1. CASE SetCredentialRefTokenVPC \/ AddCredentialsRefFinalizerVPC
               \/ reconcileVPC \/ CreateVPC \/ CreateVPCSubnet
      BY <3>1, CreateSteps, ContinuesKeeps
    <3>2. CASE getVPC \/ deleteVPCResources \/ handleRetainedSubnets
               \/ RemoveCredentialsRefFinalizerVPC
      BY <3>2, DeleteSteps, ContinuesKeeps
    <3>3. CASE ReconcileVPC \/ AddFinalizerVPC \/ CloseVPC
      BY <3>3, BeginKeeps, AddFinalizerKeeps, CloseKeeps
    <3> QED
      BY <2>1, <3>1, <3>2, <3>3 DEF VPCStep
  <2>2. CASE VPCEnvironment \/ (Environment /\ UNCHANGED vpcVars)
    BY <2>2, EnvironmentKeeps
  <2>3. CASE UNCHANGED controllerVars
    <3>1. UNCHANGED <<obj, seen, pc, scope, base, faults, vpc, found, wanted>>
      BY <2>3 DEF controllerVars, reconcilerVars, k8sVars, ctrlVars, histVars, vpcVars
    <3>2. SameVPCs /\ Grows
      BY <3>1, SubnetChanges, FaultsStay DEF IInv, Types
    <3> QED
      BY <3>1, <3>2, OthersKeep
  <2> QED
    BY <2>1, <2>2, <2>3 DEF VPCNext
<1> QED
  BY <1>1, InitHolds, PTL DEF VPCSpec

\* A subnet that the user puts into Spec.Subnets stays there, unless a reconcile was
\* running at that moment or started from an older copy: Close sends the whole list.
THEOREM SubnetsStay == VPCSpec => []SubnetsKept
<1>1. IInv /\ SubnetInv => SubnetsKept
  BY DEF SubnetInv, SubnetsKept
<1> QED
  BY <1>1, InvariantHolds, PTL

-----------------------------------------------------------------------------
(***************************************************************************)
(* The refinement.                                                         *)
(***************************************************************************)
\* The state of the object, as ManagedResource sees it.
State(o) == IF o.exists /\ ~o.deleting THEN "present" ELSE IF o.exists THEN "deleting" ELSE "gone"

Live == {i \in VPCs : LiveVPC(i) /\ vpc[i].own}

\* What a step does that ManagedResource allows, without its flags.
Allowed ==
    LET o == obj["vpc"] IN
    \/ State(o)' = State(o) /\ Live' = Live
    \/ /\ State(o)' = State(o) /\ State(o) # "gone"
       /\ Live = {} \/ OutOfBand
       /\ \E i \in VPCs : Live' = Live \cup {i}
    \/ State(o)' = State(o) /\ \E i \in VPCs : Live' = Live \ {i}
    \/ Live' = Live /\ State(o) = "present" /\ State(o)' = "deleting"
    \/ /\ Live' = Live /\ State(o) \in {"present", "deleting"} /\ State(o)' = "gone"
       /\ Live = {} \/ Forgotten

\* What the changes of the VPCs are to ManagedResource.
LEMMA LiveChanges ==
  ASSUME vpc \in [VPCs -> Network]
  PROVE  /\ SameVPCs => Live' = Live
         /\ \A i \in VPCs : OneDeleted(i) => Live' = Live \ {i}
         /\ \A i \in VPCs : OneCreated(i) => Live' = Live \cup {i}
<1>1. SameVPCs => Live' = Live
  BY DEF SameVPCs, Live, LiveVPC
<1>2. ASSUME NEW i \in VPCs, OneDeleted(i) PROVE Live' = Live \ {i}
  BY <1>2, VPCAssumptions DEF OneDeleted, Live, LiveVPC
<1>3. ASSUME NEW i \in VPCs, OneCreated(i) PROVE Live' = Live \cup {i}
  BY <1>3, VPCAssumptions DEF OneCreated, Live, LiveVPC
<1> QED
  BY Zenon, <1>1, <1>2, <1>3

\* Only CreateVPC creates a VPC and only deleteVPCResources deletes one.
LEMMA StepsOnVPCs ==
  ASSUME IInv, VPCStep
  PROVE  \/ SameVPCs
         \/ CreateVPC /\ \E i \in VPCs : vpc[i].state = "unused" /\ OneCreated(i)
         \/ /\ deleteVPCResources /\ scope["vpc"].id \in VPCs /\ found.nodes = {}
            /\ vpc' = Deleted(scope["vpc"].id) /\ OneDeleted(scope["vpc"].id)
<1>t. vpc \in [VPCs -> Network] /\ (UNCHANGED vpc => SameVPCs)
  BY SubnetChanges DEF IInv, Types
<1>1. CASE ReconcileVPC \/ SetCredentialRefTokenVPC \/ AddFinalizerVPC \/ CloseVPC
           \/ AddCredentialsRefFinalizerVPC \/ reconcileVPC \/ getVPC
           \/ RemoveCredentialsRefFinalizerVPC
  <2>1. UNCHANGED vpc
    BY Zenon, <1>1
    DEF ReconcileVPC, SetCredentialRefTokenVPC, AddFinalizerVPC, CloseVPC, getVPC, reconcileVPC,
        AddCredentialsRefFinalizerVPC, RemoveCredentialsRefFinalizerVPC, vpcVars
  <2> QED
    BY <1>t, <2>1
<1>2. CASE CreateVPC
  <2>1. scope["vpc"] \in VPCObject
    BY <1>2, CreateSteps DEF IInv, Types
  <2>2. DOMAIN scope["vpc"].subnets \in SUBSET Subnets
    BY <2>1, SubnetMaps DEF VPCObject
  <2>3. \/ UNCHANGED vpc
        \/ \E i \in VPCs :
              /\ vpc[i].state = "unused"
              /\ vpc' = [vpc EXCEPT ![i] = [UnusedVPC EXCEPT
                            !.state = "live", !.named = TRUE, !.own = TRUE,
                            !.subnets = DOMAIN scope["vpc"].subnets]]
    BY Zenon, <1>2 DEF CreateVPC
  <2> QED
    BY Zenon, <1>t, <1>2, <2>2, <2>3, VPCChanges
<1>3. CASE CreateVPCSubnet
  <2>1. scope["vpc"] \in VPCObject
    BY <1>3, CreateSteps DEF IInv, Types
  <2>2. Missing \subseteq Subnets
    BY <2>1, SubnetMaps DEF VPCObject, Missing
  <2>3. \/ UNCHANGED vpc
        \/ \E sn \in Missing : vpc' = [vpc EXCEPT ![scope["vpc"].id].subnets = @ \cup {sn}]
    BY Zenon, <1>3 DEF CreateVPCSubnet
  <2>4. \A i : \A sn \in Subnets : vpc' = [vpc EXCEPT ![i].subnets = @ \cup {sn}] => SameVPCs
    BY Zenon, <1>t, SubnetChanges
  <2> QED
    BY Zenon, <1>t, <2>2, <2>3, <2>4
<1>4. CASE deleteVPCResources
  <2>1. scope["vpc"] \in VPCObject
    BY <1>4, DeleteSteps DEF IInv, Types
  <2>2. LiveVPC(scope["vpc"].id) => scope["vpc"].id \in VPCs
    BY <2>1 DEF LiveVPC, VPCObject
  <2>3. \/ UNCHANGED vpc
        \/ found.nodes = {} /\ LiveVPC(scope["vpc"].id) /\ vpc' = Deleted(scope["vpc"].id)
    BY Zenon, <1>4 DEF deleteVPCResources
  <2> QED
    BY Zenon, <1>t, <1>4, <2>2, <2>3, VPCChanges
<1>5. CASE handleRetainedSubnets
  <2>1. \/ UNCHANGED vpc
        \/ \E i, sn : vpc' = [vpc EXCEPT ![i].subnets = @ \ {sn}, ![i].nodes = @ \ {sn}]
    BY Zenon, <1>5 DEF handleRetainedSubnets
  <2> QED
    BY Zenon, <1>t, <2>1, SubnetChanges
<1> QED
  BY <1>1, <1>2, <1>3, <1>4, <1>5 DEF VPCStep

\* The steps of the reconcile.
LEMMA StepsAllowed ==
  ASSUME IInv, VPCStep
  PROVE  Allowed /\ Grows /\ obj'["vpc"].retain = obj["vpc"].retain
<1> DEFINE o == obj["vpc"]
<1>t. vpc \in [VPCs -> Network] /\ o \in VPCObject
  BY DEF IInv, Types
<1>1. CASE ReconcileVPC
  <2>1. UNCHANGED <<obj, vpc>>
    BY <1>1 DEF ReconcileVPC, Begin
  <2>2. Grows
    BY <1>1, FaultsStay, FaultsGrow DEF ReconcileVPC, Begin, Fault, IInv
  <2> QED
    BY <2>1, <2>2 DEF Allowed, State, Live, LiveVPC
<1>2. CASE SetCredentialRefTokenVPC \/ AddCredentialsRefFinalizerVPC \/ reconcileVPC
           \/ CreateVPC \/ CreateVPCSubnet \/ getVPC \/ deleteVPCResources
           \/ handleRetainedSubnets \/ RemoveCredentialsRefFinalizerVPC
  <2>1. Running /\ Continues
    BY <1>2, CreateSteps, DeleteSteps
  <2>2. UNCHANGED obj /\ Grows /\ State(o)' = State(o)
    BY <2>1 DEF Continues, State
  <2>3. CASE SameVPCs
    BY <1>t, <2>2, <2>3, LiveChanges DEF Allowed
  <2>4. ASSUME CreateVPC, NEW i \in VPCs, OneCreated(i)
        PROVE  Allowed
    <3>1. pc["vpc"] = "create" /\ Held(o) /\ o.exists
      BY Zenon, <2>1, <2>4 DEF CreateVPC, AtVPC, IInv, Known, Kept, Creating
    <3>2. Live = {} \/ OutOfBand
      BY Zenon, <3>1 DEF IInv, Existing, Live, LiveVPC, Owned
    <3>3. Live' = Live \cup {i}
      BY <1>t, <2>4, LiveChanges
    <3>4. State(o) # "gone"
      BY <3>1 DEF State
    <3> QED
      BY <2>2, <3>2, <3>3, <3>4 DEF Allowed
  <2>5. ASSUME NEW i \in VPCs, OneDeleted(i) PROVE Allowed
    <3>1. Live' = Live \ {i}
      BY <1>t, <2>5, LiveChanges
    <3> QED
      BY <2>2, <3>1 DEF Allowed
  <2> QED
    BY <2>2, <2>3, <2>4, <2>5, StepsOnVPCs
<1>3. CASE AddFinalizerVPC
  <2> DEFINE s == scope["vpc"]
             b == base["vpc"]
             t == [s EXCEPT !.finalizers = @ \cup {"vpc"}]
             p == Patched(o, b, t, PatchParts)
  <2>1. UNCHANGED vpc /\ Grows /\ (UNCHANGED obj \/ obj' = [obj EXCEPT !["vpc"] = p])
    BY <1>3, FaultsStay DEF AddFinalizerVPC, PatchFinalizer, vpcVars, IInv
  <2>2. /\ s \in VPCObject /\ b \in VPCObject
        /\ s.deleting = b.deleting /\ s.exists = b.exists /\ s.retain = b.retain
    BY <1>3 DEF AddFinalizerVPC, AtVPC, IInv, Types, Known, Running
  <2>3. Like(t, s, {"vpc"}, s.id)
    BY Zenon, <2>2, UpdatesVPC
  <2> HIDE DEF t
  <2>4. IsPatch(p, o, b, t, PatchParts)
    BY <1>t, <2>2, <2>3, PatchedVPC DEF Like
  <2> HIDE DEF p
  <2>5. State(o)' = State(o) /\ obj'["vpc"].retain = o.retain
    BY <2>1, <2>4 DEF IsPatch, State, IInv, Types
  <2>6. Live' = Live
    BY <2>1 DEF Live, LiveVPC
  <2> QED
    BY <2>1, <2>5, <2>6 DEF Allowed
<1>4. CASE CloseVPC
  <2>1. UNCHANGED vpc /\ Grows /\ Running
    BY <1>4, CloseStores
  <2>l. Live' = Live
    BY <2>1 DEF Live, LiveVPC
  <2>2. CASE UNCHANGED obj
    BY <2>1, <2>2, <2>l DEF Allowed, State
  <2>3. ASSUME NEW parts, NEW p, IsPatch(p, o, base["vpc"], scope["vpc"], parts), o.exists,
               obj' = [obj EXCEPT !["vpc"] = Stored(p)]
        PROVE  Allowed /\ obj'["vpc"].retain = o.retain
    <3>1. /\ obj'["vpc"].deleting = o.deleting /\ obj'["vpc"].retain = o.retain
          /\ obj'["vpc"].exists = ~(o.deleting /\ p.finalizers = {})
      BY Zenon, <2>3, StoredVPC DEF IsPatch, IInv, Types
    <3>3. CASE ~(o.deleting /\ p.finalizers = {})
      BY Zenon, <2>3, <2>l, <3>1, <3>3 DEF Allowed, State
    <3>4. CASE o.deleting /\ p.finalizers = {}
      <4>1. State(o) = "deleting" /\ State(o)' = "gone"
        BY Zenon, <2>3, <3>1, <3>4 DEF State
      <4>2. ASSUME ~Forgotten, NEW i \in VPCs, Owned(i) PROVE FALSE
        <5>1. Held(o) /\ Held(scope["vpc"])
          BY <2>1, <4>2 DEF IInv, Recorded
        <5> QED
          BY <2>3, <3>4, <5>1 DEF IsPatch, Held
      <4>3. Live = {} \/ Forgotten
        BY <4>2 DEF Live, LiveVPC, Owned
      <4> QED
        BY <2>l, <3>1, <4>1, <4>3 DEF Allowed
    <3> QED
      BY <3>1, <3>3, <3>4
  <2> QED
    BY <1>4, <2>1, <2>2, <2>3, CloseStores
<1> QED
  BY <1>1, <1>2, <1>3, <1>4 DEF VPCStep

\* The user and the API.
LEMMA EnvironmentAllowed ==
  ASSUME IInv, VPCEnvironment \/ (Environment /\ UNCHANGED vpcVars)
  PROVE  Allowed /\ Grows /\ obj'["vpc"].retain = obj["vpc"].retain
<1> DEFINE o == obj["vpc"]
<1>k. Kinds = {"vpc"}
  BY DEF Kinds, IInv, Types
<1>t. Types /\ vpc \in [VPCs -> Network] /\ o \in VPCObject
  BY DEF IInv, Types
<1>1. ASSUME NEW i \in VPCs, NEW sn \in Subnets, Attach(i, sn) \/ Detach(i, sn)
      PROVE  Allowed /\ Grows /\ UNCHANGED obj
  <2>1. UNCHANGED obj /\ UNCHANGED faults
    BY Zenon, <1>1 DEF Attach, Detach, reconcilerVars, k8sVars, histVars
  <2>2. SameVPCs
    BY <1>1, <1>t, SubnetChanges DEF Attach, Detach
  <2>3. State(o)' = State(o) /\ Live' = Live
    BY <1>t, <2>1, <2>2, LiveChanges DEF State
  <2> QED
    BY <1>t, <2>1, <2>3, FaultsStay DEF Allowed
<1>2. ASSUME NEW i \in VPCs, OutOfBandVPC(i) PROVE Allowed /\ Grows /\ UNCHANGED obj
  <2>1. UNCHANGED obj /\ OneDeleted(i)
    BY Zenon, <1>2, <1>t, VPCChanges DEF OutOfBandVPC, k8sVars
  <2>2. State(o)' = State(o) /\ Live' = Live \ {i}
    BY <1>t, <2>1, LiveChanges DEF State
  <2>3. Grows
    BY Zenon, <1>2, <1>t, FaultsGrow DEF OutOfBandVPC, Fault
  <2> QED
    BY <2>1, <2>2, <2>3 DEF Allowed
<1>3. CASE (CacheSync("vpc") \/ Wakeup("vpc") \/ UserDeletesSecret) /\ UNCHANGED vpcVars
  <2>1. UNCHANGED <<obj, vpc, faults>>
    BY <1>3 DEF CacheSync, Wakeup, UserDeletesSecret, k8sVars, histVars, vpcVars
  <2>2. State(o)' = State(o) /\ Live' = Live
    BY <2>1 DEF State, Live, LiveVPC
  <2> QED
    BY <1>t, <2>1, <2>2, FaultsStay DEF Allowed
<1>4. CASE Crash /\ UNCHANGED vpcVars
  <2>1. UNCHANGED <<obj, vpc>> /\ faults' = [k \in {"vpc"} |->
           IF pc[k] = "idle" THEN faults[k] ELSE faults[k] \cup {"crash"}]
    BY <1>4, <1>k DEF Crash, vpcVars
  <2>2. State(o)' = State(o) /\ Live' = Live
    BY <2>1 DEF State, Live, LiveVPC
  <2> QED
    BY <1>t, <2>1, <2>2 DEF Allowed, Grows, Types, Faults
<1>5. CASE UserDelete("vpc") /\ UNCHANGED vpcVars
  <2> DEFINE u == [o EXCEPT !.deleting = TRUE]
  <2>1. UNCHANGED <<faults, vpc>> /\ o.exists /\ ~o.deleting
        /\ obj' = [obj EXCEPT !["vpc"] = Stored(u)]
    BY <1>5 DEF UserDelete, histVars, vpcVars
  <2>2. u \in VPCObject /\ u.exists = o.exists /\ u.deleting = TRUE /\ u.finalizers = o.finalizers
        /\ u.retain = o.retain
    BY Zenon, <1>t, UserUpdates
  <2> HIDE DEF u
  <2>3. /\ obj'["vpc"].deleting = TRUE /\ obj'["vpc"].exists = ~(o.finalizers = {})
        /\ obj'["vpc"].retain = o.retain
    BY Zenon, <2>1, <2>2, StoredVPC DEF IInv, Types
  <2>4. Live' = Live
    BY <2>1 DEF Live, LiveVPC
  <2>5. o.finalizers = {} => Live = {} \/ Forgotten
    BY DEF IInv, Recorded, Held, Live, LiveVPC, Owned
  <2>6. State(o) = "present" /\ State(o)' = (IF o.finalizers = {} THEN "gone" ELSE "deleting")
    BY Zenon, <2>1, <2>3 DEF State
  <2> QED
    BY <1>t, <2>1, <2>3, <2>4, <2>5, <2>6, FaultsStay DEF Allowed
<1>6. ASSUME NEW sn \in Subnets, UserAddsSubnet(sn)
      PROVE  Allowed /\ Grows /\ obj'["vpc"].retain = o.retain
  <2> DEFINE f == [x \in DOMAIN o.subnets \cup {sn} |-> IF x = sn THEN FALSE ELSE o.subnets[x]]
             t == [o EXCEPT !.subnets = f]
  <2>1. UNCHANGED vpc /\ obj' = [obj EXCEPT !["vpc"] = t]
    BY <1>6, <1>t DEF UserAddsSubnet, Types, VPCObject
  <2>2. t.exists = o.exists /\ t.deleting = o.deleting /\ t.retain = o.retain
    BY Zenon, <1>t, UserUpdates
  <2> HIDE DEF t
  <2>3. State(o)' = State(o) /\ Live' = Live /\ obj'["vpc"].retain = o.retain
    BY <1>t, <2>1, <2>2 DEF Types, State, Live, LiveVPC
  <2>4. Grows
    BY <1>6, <1>t, FaultsStay DEF UserAddsSubnet, Note, Types, Grows, Faults
  <2> QED
    BY <2>3, <2>4 DEF Allowed
<1> QED
  BY <1>k, <1>1, <1>2, <1>3, <1>4, <1>5, <1>6 DEF VPCEnvironment, Environment

\* The LinodeVPC controller implements ManagedResource (VPCImplements), for any number
\* of ids, subnets, errors and faults: the list by label in front of CreateVPC makes a
\* second VPC impossible unless one was deleted out of band, and reconcileDelete gives
\* the finalizer up only when no VPC of the controller is left, except after a lost
\* reply, a lost patch, a crash, an out-of-band deletion or a reconcile of an outdated
\* copy, or when the VPC is to be retained.
THEOREM VPCControllerImplements == VPCSpec => VPCImplements
<1>1. VPCInit /\ ReconcilerInit({"vpc"}, MaxFaults) => VPCResource!Init
  <2> SUFFICES ASSUME VPCInit, ReconcilerInit({"vpc"}, MaxFaults) PROVE VPCResource!Init
    OBVIOUS
  <2>1. \A i \in VPCs : vpc[i].own = FALSE
    BY DEF VPCInit, UnusedVPC
  <2>2. obj["vpc"].exists = TRUE /\ obj["vpc"].deleting = FALSE /\ obj["vpc"].retain \in BOOLEAN
    <3> DEFINE i == CHOOSE x \in VPCs : TRUE
    <3>1. PICK retain \in BOOLEAN, by \in {"none", "id", "label"} :
            obj = [k \in {"vpc"} |-> NewVPC(IF by = "id" THEN i ELSE None, retain)]
      BY Zenon DEF VPCInit
    <3> QED
      BY <3>1 DEF NewVPC
  <2> QED
    BY <2>1, <2>2 DEF VPCResource!Init
<1>2. ASSUME IInv, IInv', Allowed, Grows, obj'["vpc"].retain = obj["vpc"].retain
      PROVE  VPCResource!Next
  <2> DEFINE o == obj["vpc"]
  <2>0. (OutOfBand => OutOfBand') /\ (Forgotten => Forgotten')
    BY <1>2, HistoryStays
  <2>1. Kinds = {"vpc"} /\ Kinds' = {"vpc"} /\ o.retain \in BOOLEAN /\ obj'["vpc"].retain \in BOOLEAN
    BY <1>2 DEF Kinds, IInv, Types, VPCObject
  <2>2. VPCResource!Disturbed
    BY <2>0, <2>1 DEF VPCResource!Disturbed, Forgotten, OutOfBand
  <2>3. CASE State(o)' = State(o) /\ Live' = Live
    BY <2>1, <2>2, <2>3 DEF VPCResource!Next, State, Live
  <2>5. ASSUME State(o)' = State(o), State(o) # "gone", Live = {} \/ OutOfBand,
               NEW i \in VPCs, Live' = Live \cup {i}
        PROVE  VPCResource!Next
    <3>1. VPCResource!Provision(i)
      BY <2>1, <2>5 DEF VPCResource!Provision, State, Live, OutOfBand
    <3> QED
      BY <2>2, <3>1 DEF VPCResource!Next
  <2>6. ASSUME State(o)' = State(o), NEW i \in VPCs, Live' = Live \ {i}
        PROVE  VPCResource!Next
    <3>1. VPCResource!Destroy(i)
      BY <2>1, <2>6 DEF VPCResource!Destroy, State, Live
    <3> QED
      BY <2>2, <3>1 DEF VPCResource!Next
  <2>7. CASE Live' = Live /\ State(o) = "present" /\ State(o)' = "deleting"
    <3>1. VPCResource!Delete
      BY <2>1, <2>7 DEF VPCResource!Delete, State, Live
    <3> QED
      BY <2>2, <3>1 DEF VPCResource!Next
  <2>8. CASE /\ Live' = Live /\ State(o) = "present" /\ State(o)' = "gone"
             /\ Live = {} \/ Forgotten
    <3>1. VPCResource!Delete
      BY <2>1, <2>8 DEF VPCResource!Delete, State, Live, Forgotten
    <3> QED
      BY <2>2, <3>1 DEF VPCResource!Next
  <2>9. CASE /\ Live' = Live /\ State(o) = "deleting" /\ State(o)' = "gone"
             /\ Live = {} \/ Forgotten
    <3>1. VPCResource!Release
      BY <2>1, <2>9 DEF VPCResource!Release, State, Live, Forgotten
    <3> QED
      BY <2>2, <3>1 DEF VPCResource!Next
  <2> QED
    BY <1>2, <2>3, <2>5, <2>6, <2>7, <2>8, <2>9 DEF Allowed
<1>3. IInv /\ IInv' /\ [VPCNext]_controllerVars => [VPCResource!Next]_(VPCResource!vars)
  <2> SUFFICES ASSUME IInv, IInv', [VPCNext]_controllerVars
               PROVE  [VPCResource!Next]_(VPCResource!vars)
    OBVIOUS
  <2>1. CASE VPCStep
    BY <2>1, <1>2, StepsAllowed
  <2>2. CASE VPCEnvironment \/ (Environment /\ UNCHANGED vpcVars)
    BY <2>2, <1>2, EnvironmentAllowed
  <2>3. CASE UNCHANGED controllerVars
    <3>1. UNCHANGED <<obj, vpc, faults>>
      BY <2>3 DEF controllerVars, reconcilerVars, k8sVars, histVars, vpcVars
    <3> QED
      BY <3>1 DEF VPCResource!vars, Kinds, LiveVPC, Undisturbed
  <2> QED
    BY <2>1, <2>2, <2>3 DEF VPCNext
<1> QED
  BY <1>1, <1>3, InvariantHolds, PTL DEF VPCSpec, VPCImplements, VPCResource!Spec

-----------------------------------------------------------------------------
(***************************************************************************)
(* What is retained.                                                       *)
(***************************************************************************)
\* What a step of the controller leaves of the VPC i: all of it, or what the deletion
\* of the object allows it to delete.
Spared(i) ==
    /\ vpc'[i].state = "live"
       \/ (obj["vpc"].deleting /\ ~obj["vpc"].retain /\ found.nodes = {})
    /\ \A sn \in vpc[i].subnets \ vpc'[i].subnets :
           /\ obj["vpc"].deleting /\ sn \notin found.nodes
           /\ obj["vpc"].retain => sn \in wanted \ RetainedSubnets

\* A VPC or a subnet that goes with a step of the controller is not to be retained and
\* was without instance when it was read.
LEMMA StepsRetain ==
  ASSUME IInv, SubnetInv, VPCStep, NEW i \in VPCs, vpc[i].state = "live"
  PROVE  Spared(i)
<1> DEFINE s == scope["vpc"]
<1>t. vpc \in [VPCs -> Network]
  BY DEF IInv, Types
<1>0. UNCHANGED vpc => Spared(i)
  BY DEF Spared
<1>d. (pc["vpc"] \in Deleting /\ Running) => obj["vpc"].deleting
  BY DEF IInv, Known
<1>1. CASE ReconcileVPC \/ SetCredentialRefTokenVPC \/ AddFinalizerVPC \/ CloseVPC
           \/ AddCredentialsRefFinalizerVPC \/ reconcileVPC \/ getVPC
           \/ RemoveCredentialsRefFinalizerVPC
  <2>1. UNCHANGED vpc
    BY Zenon, <1>1
    DEF ReconcileVPC, SetCredentialRefTokenVPC, AddFinalizerVPC, CloseVPC, getVPC, reconcileVPC,
        AddCredentialsRefFinalizerVPC, RemoveCredentialsRefFinalizerVPC, vpcVars
  <2> QED
    BY <1>0, <2>1
<1>2. CASE CreateVPC
  <2>1. UNCHANGED vpc \/ \E j \in VPCs : vpc[j].state = "unused"
                                         /\ \E n : vpc' = [vpc EXCEPT ![j] = n]
    BY Zenon, <1>2 DEF CreateVPC
  <2> QED
    BY <1>t, <2>1 DEF Spared
<1>3. CASE CreateVPCSubnet
  <2>1. UNCHANGED vpc \/ \E j, n : vpc' = [vpc EXCEPT ![j].subnets = @ \cup {n}]
    BY Zenon, <1>3 DEF CreateVPCSubnet
  <2> QED
    BY <1>t, <2>1 DEF Network, Spared
<1>4. CASE deleteVPCResources
  <2>1. ~obj["vpc"].retain /\ obj["vpc"].deleting
    <3>1. AtVPC("delete")
      BY <1>4 DEF deleteVPCResources
    <3> QED
      BY <3>1, <1>d, InsideVPC DEF Places, Deleting
  <2>2. UNCHANGED vpc \/ found.nodes = {}
    BY Zenon, <1>4 DEF deleteVPCResources
  <2> QED
    BY <1>0, <2>1, <2>2 DEF Spared
<1>5. CASE handleRetainedSubnets
  <2>1. AtVPC("deleteSubnets") /\ Running /\ s \in VPCObject
    BY <1>5, DeleteSteps DEF handleRetainedSubnets, IInv, Types
  <2>2. obj["vpc"].deleting
    BY <2>1, <1>d DEF AtVPC, Deleting
  <2>3. \/ UNCHANGED vpc
        \/ \E x \in ToDelete :
              /\ ~(x \in found.nodes /\ s.subnets[x]) /\ s.subnets[x]
              /\ vpc' = [vpc EXCEPT ![s.id].subnets = @ \ {x}, ![s.id].nodes = @ \ {x}]
    BY <1>5 DEF handleRetainedSubnets
  <2>4. ASSUME NEW x \in ToDelete, x \notin found.nodes,
               vpc' = [vpc EXCEPT ![s.id].subnets = @ \ {x}, ![s.id].nodes = @ \ {x}]
        PROVE  Spared(i)
    <3>1. vpc'[i].state = "live" /\ \A sn \in vpc[i].subnets \ vpc'[i].subnets : sn = x
      BY <1>t, <2>4 DEF Network
    <3>2. x \in wanted \ RetainedSubnets
      BY <2>1, <2>4 DEF ToDelete, SubnetInv
    <3> QED
      BY <2>2, <2>4, <3>1, <3>2 DEF Spared
  <2> QED
    BY <1>0, <2>3, <2>4
<1> QED
  BY <1>1, <1>2, <1>3, <1>4, <1>5 DEF VPCStep

\* The controller deletes a VPC only once the object is deleted and if it is not to be
\* retained, and of a VPC that is retained no subnet that is to be retained or that the
\* user never listed; neither if it had an instance when the reconcile read the VPC
\* (VPCRetained).  This holds whatever the order of its steps and those of others.
THEOREM RetainedVPCsStay == VPCSpec => VPCRetained
<1> DEFINE Retains ==
             \A i \in VPCs : LiveVPC(i) /\ ~OutOfBandVPC(i) =>
                /\ LiveVPC(i)' \/ (obj["vpc"].deleting /\ ~obj["vpc"].retain /\ found.nodes = {})
                /\ \A sn \in vpc[i].subnets \ vpc'[i].subnets :
                       /\ obj["vpc"].deleting /\ sn \notin found.nodes
                       /\ obj["vpc"].retain => sn \in wanted \ RetainedSubnets
<1>1. IInv /\ SubnetInv /\ [VPCNext]_controllerVars => [Retains]_vpc
  <2> SUFFICES ASSUME IInv, SubnetInv, [VPCNext]_controllerVars PROVE Retains \/ UNCHANGED vpc
    OBVIOUS
  <2>t. vpc \in [VPCs -> Network]
    BY DEF IInv, Types
  <2>0. (\A i \in VPCs : vpc[i].state = "live" /\ ~OutOfBandVPC(i) => Spared(i)) => Retains
    BY DEF LiveVPC, Spared
  <2> HIDE DEF Retains
  <2>1. CASE VPCStep
    BY <2>0, <2>1, StepsRetain
  <2>2. ASSUME NEW j \in VPCs, OutOfBandVPC(j) PROVE Retains
    <3>1. vpc' = Deleted(j)
      BY <2>2 DEF OutOfBandVPC
    <3> QED
      BY <2>0, <2>2, <2>t, <3>1 DEF Deleted, Spared
  <2>3. ASSUME NEW j \in VPCs, NEW n \in Subnets, Attach(j, n) \/ Detach(j, n) PROVE Retains
    <3>1. \E x : vpc' = [vpc EXCEPT ![j].nodes = x]
      BY Zenon, <2>3 DEF Attach, Detach
    <3> QED
      BY <2>0, <2>t, <3>1 DEF Network, Spared
  <2>4. CASE (\E n \in Subnets : UserAddsSubnet(n)) \/ UNCHANGED vpcVars
    BY <2>4 DEF UserAddsSubnet, vpcVars
  <2> QED
    BY <2>1, <2>2, <2>3, <2>4 DEF VPCNext, VPCEnvironment, controllerVars
<1> QED
  BY <1>1, InvariantHolds, PTL DEF VPCSpec, VPCRetained, Retains

-----------------------------------------------------------------------------
(***************************************************************************)
(* The credentials Secret.                                                 *)
(***************************************************************************)
Holding == "vpc" \in secret.held

SecretTypes ==
    /\ secret \in [exists: BOOLEAN, deleting: BOOLEAN, held: SUBSET {"vpc"}]
    /\ Holding => secret.exists /\ "vpc" \in UsesCreds

\* The Secret is taken after the object got its finalizer, and released before the
\* object gives it up.
SecretFirst ==
    /\ Holding => Held(obj["vpc"])
    /\ Running /\ Held(base["vpc"]) /\ ~Held(scope["vpc"]) => ~Holding

OwnedBy(o) == o.id # None /\ Owned(o.id)

\* reconcileCreate looks for a VPC, and makes one, with the Secret; unless a reconcile
\* starts from an outdated copy or a VPC is deleted out of band, the VPC that the
\* object names is the one that reconcileDelete looks at, and the Secret is released
\* only when there is none.
SecretForVPC ==
    "vpc" \in UsesCreds /\ ~obj["vpc"].retain =>
        /\ pc["vpc"] \in {"list", "create"} /\ scope["vpc"].id = None => Holding
        /\ UpToDate =>
              /\ Running => obj["vpc"].id = base["vpc"].id
              /\ pc["vpc"] \in {"addCredentials", "get", "delete"} =>
                    scope["vpc"].id = base["vpc"].id
              /\ pc["vpc"] = "release" => ~OwnedBy(obj["vpc"])
              /\ OwnedBy(obj["vpc"]) => Holding
              /\ Running /\ OwnedBy(scope["vpc"]) => Holding

SecretInv == SecretTypes /\ SecretFirst /\ SecretForVPC

\* At the start the Secret is there and nobody holds it.
LEMMA SecretInitHolds == VPCInit /\ ReconcilerInit({"vpc"}, MaxFaults) => SecretInv
<1> SUFFICES ASSUME VPCInit, ReconcilerInit({"vpc"}, MaxFaults) PROVE SecretInv
  OBVIOUS
<1>1. \A i \in VPCs : vpc[i].own = FALSE
  BY DEF VPCInit, UnusedVPC
<1>2. /\ secret = [exists |-> TRUE, deleting |-> FALSE, held |-> {}]
      /\ pc["vpc"] = "idle" /\ obj["vpc"].id \in VPCs \cup {None}
  <2>1. Types
    BY InitHolds DEF IInv
  <2>2. Kinds = {"vpc"} /\ obj["vpc"].id \in VPCs \cup {None}
    BY <2>1 DEF Types, Kinds, VPCObject
  <2> QED
    BY <2>2 DEF ReconcilerInit
<1> QED
  BY <1>1, <1>2
  DEF SecretInv, SecretTypes, SecretFirst, SecretForVPC, Holding, Running, OwnedBy, Owned

\* A step of a reconcile that leaves the Secret and the object alone keeps the
\* invariant, if it does as said here with the copy and the VPCs.
LEMMA SecretStays ==
  ASSUME SecretInv, Running, Continues, UNCHANGED secret,
         Holding => (Held(scope["vpc"]) => Held(scope'["vpc"])),
         "vpc" \in UsesCreds /\ ~obj["vpc"].retain =>
            /\ pc'["vpc"] \in {"list", "create"} /\ scope'["vpc"].id = None => Holding
            /\ UpToDate =>
                  /\ pc'["vpc"] \in {"addCredentials", "get", "delete"} =>
                        scope'["vpc"].id = base["vpc"].id
                  /\ pc'["vpc"] = "release" => ~OwnedBy(obj["vpc"])'
                  /\ OwnedBy(obj["vpc"])' => Holding
                  /\ OwnedBy(scope["vpc"])' => Holding
  PROVE  SecretInv'
<1>1. UNCHANGED <<obj, base>> /\ (UpToDate' => UpToDate)
  BY HistoryStays DEF Continues
<1>2. SecretTypes' /\ (Holding' <=> Holding)
  BY DEF SecretInv, SecretTypes, Holding
<1>3. SecretFirst'
  BY <1>1, <1>2 DEF SecretInv, SecretFirst, Running, Held
<1>4. SecretForVPC'
  BY <1>1, <1>2 DEF SecretInv, SecretForVPC
<1> QED
  BY <1>2, <1>3, <1>4 DEF SecretInv

\* reconcileCreate takes the Secret before it looks for a VPC.
LEMMA SecretCreateSteps ==
  ASSUME IInv, SecretInv,
         SetCredentialRefTokenVPC \/ AddCredentialsRefFinalizerVPC
         \/ reconcileVPC \/ CreateVPC \/ CreateVPCSubnet
  PROVE  SecretInv'
<1> DEFINE s == scope["vpc"]
<1>c. Running /\ Continues
  BY CreateSteps
<1>s. /\ s \in VPCObject /\ scope \in [{"vpc"} -> VPCObject] /\ pc \in [{"vpc"} -> Places]
      /\ vpc \in [VPCs -> Network] /\ obj["vpc"] \in VPCObject
  BY <1>c DEF IInv, Types, Running
<1>1. CASE SetCredentialRefTokenVPC
  <2>1. pc["vpc"] = "credentials" /\ UNCHANGED <<secret, scope, vpc, obj>>
    BY <1>1 DEF SetCredentialRefTokenVPC, AtVPC, VPCUntouched, k8sVars, vpcVars
  <2>2. pc'["vpc"] \in {"requeue", "get", "addFinalizer"}
    BY <1>1, <1>s DEF SetCredentialRefTokenVPC, Goto
  <2>3. s.id = base["vpc"].id
    BY <1>c, <2>1 DEF IInv, Known
  <2> QED
    BY Zenon, <1>c, <2>1, <2>2, <2>3, SecretStays DEF SecretInv, SecretForVPC, OwnedBy, Owned
<1>3. CASE AddCredentialsRefFinalizerVPC
  <2>1. /\ pc["vpc"] = "addCredentials" /\ UNCHANGED <<scope, vpc, obj>>
        /\ TakeSecret("vpc", "list", "requeue")
    BY <1>3 DEF AddCredentialsRefFinalizerVPC, AtVPC, k8sVars, vpcVars
  <2>2. /\ Held(s) /\ Held(obj["vpc"])
        /\ pc'["vpc"] \in {"list", "requeue"}
    BY <1>c, <1>s, <2>1 DEF IInv, Known, Creating, TakeSecret, Goto
  <2>3. CASE UNCHANGED secret /\ ("vpc" \in UsesCreds /\ pc'["vpc"] = "list" => Holding)
    BY Zenon, <1>c, <2>1, <2>2, <2>3, SecretStays DEF SecretInv, SecretForVPC, OwnedBy, Owned
  <2>4. CASE /\ "vpc" \in UsesCreds /\ secret.exists
             /\ secret' = [secret EXCEPT !.held = @ \cup {"vpc"}]
    <3>1. SecretTypes' /\ Holding'
      BY <2>4 DEF SecretInv, SecretTypes, Holding
    <3>2. SecretFirst'
      BY <2>1, <2>2 DEF SecretFirst, Held
    <3>3. UNCHANGED base /\ (UpToDate' => UpToDate)
      BY <1>c, HistoryStays DEF Continues
    <3>4. SecretForVPC'
      BY <1>c, <2>1, <2>2, <3>1, <3>3 DEF SecretInv, SecretForVPC
    <3> QED
      BY <3>1, <3>2, <3>4 DEF SecretInv
  <2> QED
    BY <1>s, <2>1, <2>3, <2>4 DEF TakeSecret, Holding, Goto
<1>4. CASE reconcileVPC
  <2>1. pc["vpc"] = "list" /\ UNCHANGED <<secret, vpc, obj>>
    BY Zenon, <1>4 DEF reconcileVPC, AtVPC, VPCUntouched, k8sVars
  <2>2. Held(scope'["vpc"])
    <3>1. Held(s)
      BY <1>c, <2>1 DEF IInv, Known, Creating
    <3>2. ~s.deleting
      BY <1>c, <2>1 DEF IInv, Known, Creating
    <3> QED
      BY <1>c, <3>1, <3>2 DEF Continues
  <2>3. pc'["vpc"] \in {"subnets", "create", "requeue"} /\ (pc'["vpc"] = "create" => UNCHANGED scope)
    BY Zenon, <1>4, <1>s DEF reconcileVPC, Goto
  <2>4. scope'["vpc"].id = s.id \/ s.id = None
    <3>1. ASSUME NEW i \in Matching, s.id # None PROVE i = s.id
      BY <3>1 DEF Matching
    <3>2. UNCHANGED scope \/ \E i \in Matching :
             \/ Set("vpc", [s EXCEPT !.id = i])
             \/ Set("vpc", [[s EXCEPT !.id = i] EXCEPT !.subnets = Adopted(@, vpc[i].subnets)])
      BY Zenon, <1>4 DEF reconcileVPC
    <3>3. ASSUME NEW i \in Matching,
                 \/ Set("vpc", [s EXCEPT !.id = i])
                 \/ Set("vpc", [[s EXCEPT !.id = i] EXCEPT !.subnets = Adopted(@, vpc[i].subnets)])
          PROVE  scope'["vpc"].id = i
      <4>0. i \in VPCs
        BY DEF Matching
      <4>1. /\ Like([s EXCEPT !.id = i], s, s.finalizers, i)
            /\ Like([[s EXCEPT !.id = i] EXCEPT !.subnets = Adopted(@, vpc[i].subnets)],
                    s, s.finalizers, i)
        BY Zenon, <1>s, <4>0, UpdatesVPC
      <4>2. Like(scope'["vpc"], s, s.finalizers, i)
        BY Zenon, <1>s, <3>3, <4>1, CopySet
      <4> QED
        BY <4>2 DEF Like
    <3> QED
      BY Zenon, <3>1, <3>2, <3>3
  <2>5. "vpc" \in UsesCreds /\ ~obj["vpc"].retain /\ s.id = None => Holding
    BY <2>1 DEF SecretInv, SecretForVPC
  <2>6. "vpc" \in UsesCreds /\ ~obj["vpc"].retain /\ UpToDate =>
           /\ OwnedBy(obj["vpc"])' => Holding
           /\ OwnedBy(scope["vpc"])' => Holding
    BY <1>c, <2>1, <2>4, <2>5 DEF SecretInv, SecretForVPC, OwnedBy, Owned
  <2> QED
    BY <1>c, <2>1, <2>2, <2>3, <2>5, <2>6, SecretStays
<1>5. CASE CreateVPC
  <2>1. pc["vpc"] = "create" /\ UNCHANGED <<secret, obj>>
    BY Zenon, <1>5 DEF CreateVPC, AtVPC, VPCUntouched, k8sVars
  <2>2. Held(scope'["vpc"])
    <3>1. Held(s) /\ ~s.deleting
      BY <1>c, <2>1 DEF IInv, Known, Creating
    <3> QED
      BY <1>c, <3>1 DEF Continues
  <2>3. pc'["vpc"] \in {"return", "requeue"}
    BY Zenon, <1>5, <1>s DEF CreateVPC, Goto
  <2>4. UpToDate => s.id = None
    BY <2>1 DEF IInv, Existing, OutOfBand, UpToDate, Undisturbed
  <2> QED
    BY Zenon, <1>c, <2>1, <2>2, <2>3, <2>4, SecretStays DEF SecretInv, SecretForVPC
<1>6. CASE CreateVPCSubnet
  <2>1. pc["vpc"] = "subnets" /\ UNCHANGED <<secret, obj>>
    BY Zenon, <1>6 DEF CreateVPCSubnet, AtVPC, VPCUntouched, k8sVars
  <2>2. Held(scope'["vpc"])
    <3>1. Held(s) /\ ~s.deleting
      BY <1>c, <2>1 DEF IInv, Known, Creating
    <3> QED
      BY <1>c, <3>1 DEF Continues
  <2>3. pc'["vpc"] \in {"subnets", "return", "requeue"}
    BY Zenon, <1>6, <1>s DEF CreateVPCSubnet, Goto, AtVPC
  <2>4. scope'["vpc"].id = s.id
    <3>1. \/ UNCHANGED scope
          \/ \E sn \in Missing : Set("vpc", [s EXCEPT !.subnets[sn] = TRUE])
          \/ Set("vpc", [s EXCEPT !.ready = TRUE])
      BY Zenon, <1>6 DEF CreateVPCSubnet
    <3>2. Like([s EXCEPT !.ready = TRUE], s, s.finalizers, s.id)
      BY Zenon, <1>s, UpdatesVPC
    <3>3. \A sn \in Missing : Like([s EXCEPT !.subnets[sn] = TRUE], s, s.finalizers, s.id)
      BY Zenon, <1>s, UpdatesVPC DEF Missing
    <3>4. UNCHANGED scope \/ Like(scope'["vpc"], s, s.finalizers, s.id)
      BY Zenon, <1>s, <3>1, <3>2, <3>3, CopySet
    <3> QED
      BY <3>4 DEF Like
  <2>5. SameVPCs
    BY <1>6, <2>1, StepsOnVPCs DEF VPCStep, CreateVPC, deleteVPCResources, AtVPC
  <2>6. OwnedBy(scope["vpc"])' = OwnedBy(scope["vpc"]) /\ OwnedBy(obj["vpc"])' = OwnedBy(obj["vpc"])
    <3>1. s.id \in VPCs \cup {None} /\ obj["vpc"].id \in VPCs \cup {None}
      BY <1>s DEF VPCObject
    <3> QED
      BY <2>1, <2>4, <2>5, <3>1 DEF SameVPCs, OwnedBy, Owned
  <2> QED
    BY <1>c, <2>1, <2>2, <2>3, <2>6, SecretStays DEF SecretInv, SecretForVPC
<1> QED
  BY <1>1, <1>3, <1>4, <1>5, <1>6

\* reconcileDelete releases the Secret when the VPC that the object names is gone.
LEMMA SecretDeleteSteps ==
  ASSUME IInv, SecretInv,
         getVPC \/ deleteVPCResources \/ handleRetainedSubnets \/ RemoveCredentialsRefFinalizerVPC
  PROVE  SecretInv'
<1> DEFINE s == scope["vpc"]
<1>c. Running /\ Continues
  BY DeleteSteps
<1>s. /\ s \in VPCObject /\ scope \in [{"vpc"} -> VPCObject] /\ pc \in [{"vpc"} -> Places]
      /\ vpc \in [VPCs -> Network] /\ obj["vpc"] \in VPCObject /\ s.retain = obj["vpc"].retain
  BY <1>c DEF IInv, Types, Running, Known
<1>n. ASSUME Set("vpc", [s EXCEPT !.id = None]) PROVE Like(scope'["vpc"], s, s.finalizers, None)
  <2>1. Like([s EXCEPT !.id = None], s, s.finalizers, None)
    BY Zenon, <1>s, UpdatesVPC
  <2> QED
    BY <1>n, <1>s, <2>1, CopySet
<1>1. CASE getVPC
  <2>1. pc["vpc"] = "get" /\ UNCHANGED <<secret, vpc, obj>>
    BY <1>1 DEF getVPC, AtVPC, VPCUntouched, k8sVars
  <2>2. CASE pc'["vpc"] \in {"delete", "deleteSubnets", "requeue"} /\ UNCHANGED scope
    BY Zenon, <1>c, <2>1, <2>2, SecretStays DEF SecretInv, SecretForVPC, OwnedBy, Owned
  <2>3. CASE /\ ~LiveVPC(s.id) /\ pc'["vpc"] = "release"
             /\ Set("vpc", IF s.retain THEN s ELSE [s EXCEPT !.id = None])
    <3>1. CASE s.retain
      <4>1. UNCHANGED scope
        BY <1>s, <2>3, <3>1 DEF Set
      <4> QED
        BY <1>c, <1>s, <2>1, <2>3, <3>1, <4>1, SecretStays
    <3>2. CASE ~s.retain
      <4>1. Like(scope'["vpc"], s, s.finalizers, None)
        BY <1>n, <2>3, <3>2
      <4>2. "vpc" \in UsesCreds /\ ~obj["vpc"].retain /\ UpToDate => s.id = obj["vpc"].id
        BY <1>c, <2>1 DEF SecretInv, SecretForVPC
      <4> QED
        BY <1>c, <2>1, <2>3, <4>1, <4>2, SecretStays DEF Like, Held, LiveVPC, OwnedBy, Owned
    <3> QED
      BY <3>1, <3>2
  <2> QED
    BY <1>1, <1>s, <2>2, <2>3 DEF getVPC, Goto
<1>2. CASE deleteVPCResources
  <2>1. pc["vpc"] = "delete" /\ UNCHANGED <<secret, obj>>
    BY <1>2 DEF deleteVPCResources, AtVPC, VPCUntouched, k8sVars
  <2>2. \A i \in VPCs : Owned(i)' => Owned(i)
    <3>1. SameVPCs \/ OneDeleted(s.id)
      BY <1>2, <2>1, StepsOnVPCs DEF VPCStep, CreateVPC, AtVPC
    <3> QED
      BY <3>1 DEF SameVPCs, OneDeleted, Owned
  <2>3. OwnedBy(obj["vpc"])' => OwnedBy(obj["vpc"])
    BY <1>s, <2>1, <2>2 DEF OwnedBy, VPCObject
  <2>4. CASE pc'["vpc"] = "requeue" /\ UNCHANGED scope
    <3>1. OwnedBy(scope["vpc"])' => OwnedBy(scope["vpc"])
      BY <1>s, <2>2, <2>4 DEF OwnedBy, VPCObject
    <3> QED
      BY Zenon, <1>c, <2>1, <2>3, <2>4, <3>1, SecretStays DEF SecretInv, SecretForVPC
  <2>5. CASE /\ s.id # None => vpc'[s.id].state # "live"
             /\ Set("vpc", [s EXCEPT !.id = None]) /\ pc'["vpc"] = "release"
    <3>1. Like(scope'["vpc"], s, s.finalizers, None)
      BY <1>n, <2>5
    <3>2. "vpc" \in UsesCreds /\ ~obj["vpc"].retain /\ UpToDate => s.id = obj["vpc"].id
      BY <1>c, <2>1 DEF SecretInv, SecretForVPC
    <3>3. "vpc" \in UsesCreds /\ ~obj["vpc"].retain /\ UpToDate => ~OwnedBy(obj["vpc"])'
      BY <2>1, <2>5, <3>2 DEF OwnedBy, Owned
    <3>4. ~OwnedBy(scope["vpc"])'
      BY <3>1 DEF Like, OwnedBy
    <3> QED
      BY <1>c, <2>1, <2>5, <3>1, <3>3, <3>4, SecretStays DEF Like, Held
  <2>6. LiveVPC(s.id) /\ vpc' = Deleted(s.id) => vpc'[s.id].state # "live"
    BY Zenon, <1>s, VPCChanges DEF LiveVPC, VPCObject, OneDeleted
  <2>7. ~LiveVPC(s.id) /\ UNCHANGED vpc => (s.id # None => vpc'[s.id].state # "live")
    BY DEF LiveVPC
  <2>8. \A l : Goto("vpc", l) => pc'["vpc"] = l
    BY <1>s DEF Goto
  <2> QED
    BY Zenon, <1>2, <2>4, <2>5, <2>6, <2>7, <2>8 DEF deleteVPCResources
<1>3. CASE handleRetainedSubnets
  <2>1. pc["vpc"] = "deleteSubnets" /\ UNCHANGED <<secret, scope>>
    BY Zenon, <1>3 DEF handleRetainedSubnets, AtVPC, VPCUntouched
  <2>2. obj["vpc"].retain
    BY <1>c, <1>s, <2>1 DEF IInv, Known
  <2> QED
    BY <1>c, <2>1, <2>2, SecretStays
<1>4. CASE RemoveCredentialsRefFinalizerVPC
  <2>1. pc["vpc"] = "release" /\ UNCHANGED <<obj, base, vpc>> /\ (UpToDate' => UpToDate)
    BY <1>4, <1>c, HistoryStays
    DEF RemoveCredentialsRefFinalizerVPC, AtVPC, k8sVars, vpcVars, Continues
  <2>2. CASE pc'["vpc"] = "requeue" /\ UNCHANGED <<scope, secret>>
    BY Zenon, <1>c, <2>1, <2>2, SecretStays DEF SecretInv, SecretForVPC, OwnedBy, Owned
  <2>3. CASE /\ secret' = IF "vpc" \in UsesCreds THEN Released("vpc") ELSE secret
             /\ Set("vpc", [s EXCEPT !.finalizers = @ \ {"vpc"}])
             /\ pc'["vpc"] = "return"
    <3>1. Like([s EXCEPT !.finalizers = @ \ {"vpc"}], s, {}, s.id)
      BY Zenon, <1>s, UpdatesVPC
    <3>2. Like(scope'["vpc"], s, {}, s.id)
      BY <1>s, <2>3, <3>1, CopySet
    <3>3. SecretTypes' /\ ~Holding'
      <4>1. CASE "vpc" \notin UsesCreds
        BY <2>3, <4>1 DEF SecretInv, SecretTypes, Holding
      <4>2. CASE "vpc" \in UsesCreds
        <5>1. /\ secret' \in [exists: BOOLEAN, deleting: BOOLEAN, held: SUBSET {"vpc"}]
              /\ secret'.held = secret.held \ {"vpc"}
          BY Zenon, <2>3, <4>2 DEF SecretInv, SecretTypes, Released
        <5> QED
          BY <5>1 DEF SecretTypes, Holding
      <4> QED
        BY <4>1, <4>2
    <3>4. SecretFirst'
      BY <3>3 DEF SecretFirst
    <3>5. ~obj["vpc"].retain => scope'["vpc"].id = None
      BY Zenon, <1>c, <1>s, <2>1, <3>2 DEF IInv, Known, Like
    <3>6. SecretForVPC'
      BY <1>c, <2>1, <2>3, <3>5 DEF SecretInv, SecretForVPC, OwnedBy, Owned
    <3> QED
      BY <3>3, <3>4, <3>6 DEF SecretInv
  <2> QED
    BY <1>4, <1>s, <2>2, <2>3 DEF RemoveCredentialsRefFinalizerVPC, ReleaseSecret, Goto
<1> QED
  BY <1>1, <1>2, <1>3, <1>4

\* A reconcile starts with a copy that is up to date, or is noted as outdated.
LEMMA SecretBegin == IInv /\ SecretInv /\ ReconcileVPC => SecretInv'
<1> SUFFICES ASSUME IInv, SecretInv, ReconcileVPC PROVE SecretInv'
  OBVIOUS
<1> DEFINE c == seen["vpc"]
<1>1. pc["vpc"] = "idle" /\ UNCHANGED <<obj, seen, vpc, secret>> /\ Types /\ c \in VPCObject
  BY DEF ReconcileVPC, Begin, IInv, Types
<1>2. CASE ~c.exists
  <2>1. UNCHANGED <<obj, pc, scope, base, faults, vpc, secret>>
    BY <1>1, <1>2 DEF ReconcileVPC, Begin, ctrlVars, histVars
  <2> QED
    BY Zenon, <2>1 DEF SecretInv, SecretTypes, SecretFirst, SecretForVPC, Holding, Running, OwnedBy,
         Owned,
                UpToDate, Undisturbed
<1>3. CASE c.exists
  <2>1. /\ Goto("vpc", "credentials")
        /\ base' = [base EXCEPT !["vpc"] = c]
        /\ Set("vpc", [c EXCEPT !.ready = @ /\ ~TRUE])
        /\ IF c = obj["vpc"] THEN UNCHANGED histVars ELSE Fault("vpc", "stale")
    BY <1>3 DEF ReconcileVPC, Begin
  <2>2. pc'["vpc"] = "credentials" /\ base'["vpc"] = c
    BY <1>1, <2>1 DEF Goto, Types
  <2>3. Like([c EXCEPT !.ready = @ /\ ~TRUE], c, c.finalizers, c.id)
    BY Zenon, <1>1, UpdatesVPC
  <2>4. Like(scope'["vpc"], c, c.finalizers, c.id)
    BY <1>1, <2>1, <2>3 DEF Set, Like, Types
  <2>5. Grows /\ (c = obj["vpc"] \/ ~UpToDate')
    BY <1>1, <2>1, FaultsStay, FaultsGrow DEF Fault, UpToDate, Undisturbed
  <2>6. UpToDate' => UpToDate
    BY <2>5, HistoryStays
  <2>7. SecretTypes' /\ (Holding' <=> Holding)
    BY <1>1 DEF SecretInv, SecretTypes, Holding
  <2>8. SecretFirst'
    BY <1>1, <2>2, <2>4, <2>7 DEF SecretInv, SecretFirst, Like, Held
  <2>9. SecretForVPC'
    BY <1>1, <2>2, <2>4, <2>5, <2>6, <2>7 DEF SecretInv, SecretForVPC, Like, OwnedBy, Owned
  <2> QED
    BY <2>7, <2>8, <2>9 DEF SecretInv
<1> QED
  BY <1>2, <1>3

\* AddFinalizer stores nothing but the finalizer.
LEMMA SecretAddFinalizer == IInv /\ SecretInv /\ AddFinalizerVPC => SecretInv'
<1> SUFFICES ASSUME IInv, SecretInv, AddFinalizerVPC PROVE SecretInv'
  OBVIOUS
<1> DEFINE s == scope["vpc"]
           b == base["vpc"]
           o == obj["vpc"]
           t == [s EXCEPT !.finalizers = @ \cup {"vpc"}]
           p == Patched(o, b, t, PatchParts)
<1>1. /\ Running /\ Types /\ pc["vpc"] = "addFinalizer"
      /\ s \in VPCObject /\ b \in VPCObject /\ o \in VPCObject
      /\ scope \in [{"vpc"} -> VPCObject]
      /\ s.deleting = b.deleting /\ s.exists = b.exists /\ s.retain = b.retain
      /\ s.finalizers = b.finalizers /\ s.id = b.id
      /\ UNCHANGED <<base, vpc, secret>>
  BY DEF AddFinalizerVPC, PatchFinalizer, AtVPC, IInv, Types, Known, Running, Creating, vpcVars
<1>2. Like(t, s, {"vpc"}, s.id)
  BY Zenon, <1>1, UpdatesVPC
<1> HIDE DEF t
<1>3. Like(scope'["vpc"], s, {"vpc"}, s.id)
  BY <1>1, <1>2, CopySet DEF AddFinalizerVPC, PatchFinalizer, t
<1>4. UpToDate' => UpToDate
  BY <1>1, FaultsStay, HistoryStays DEF AddFinalizerVPC, PatchFinalizer
<1>5. UNCHANGED obj \/ obj' = [obj EXCEPT !["vpc"] = p]
  BY DEF AddFinalizerVPC, PatchFinalizer, t
<1>6. IsPatch(p, o, b, t, PatchParts)
  BY <1>1, <1>2, PatchedVPC DEF Like
<1> HIDE DEF p
<1>7. obj'["vpc"].id = o.id /\ obj'["vpc"].retain = o.retain /\ (Held(o) => Held(obj'["vpc"]))
  BY <1>1, <1>2, <1>5, <1>6 DEF IsPatch, Like, Held, Types
<1>8. pc'["vpc"] \in {"list", "addCredentials", "requeue"} /\ (pc'["vpc"] = "list" => s.id # None)
  BY <1>1 DEF AddFinalizerVPC, PatchFinalizer, Goto, Types
<1>9. SecretTypes' /\ (Holding' <=> Holding)
  BY <1>1 DEF SecretInv, SecretTypes, Holding
<1>10. SecretFirst'
  BY <1>3, <1>7, <1>9 DEF SecretInv, SecretFirst, Like, Held
<1>11. SecretForVPC'
  BY Zenon, <1>1, <1>3, <1>4, <1>7, <1>8, <1>9 DEF SecretInv, SecretForVPC, Like, OwnedBy, Owned
<1> QED
  BY <1>9, <1>10, <1>11 DEF SecretInv

\* Close gives the finalizer of the object up only after the Secret was released.
LEMMA SecretClose == IInv /\ SecretInv /\ CloseVPC => SecretInv'
<1> SUFFICES ASSUME IInv, SecretInv, CloseVPC PROVE SecretInv'
  OBVIOUS
<1> DEFINE s == scope["vpc"]
           b == base["vpc"]
           o == obj["vpc"]
<1>1. /\ Running /\ UNCHANGED <<vpc, secret>> /\ Grows /\ ~Running'
      /\ pc'["vpc"] = "idle"
  BY CloseStores DEF Running, CloseVPC, ClosePatch
<1>2. UpToDate' => UpToDate
  BY <1>1, HistoryStays
<1>3. SecretTypes' /\ (Holding' <=> Holding)
  BY <1>1 DEF SecretInv, SecretTypes, Holding
<1>4. /\ obj'["vpc"].id \in {o.id, s.id} /\ obj'["vpc"].retain = o.retain
      /\ Holding => Held(obj'["vpc"])
  <2>1. CASE UNCHANGED obj
    BY <2>1 DEF SecretInv, SecretFirst
  <2>2. ASSUME NEW parts, NEW p, IsPatch(p, o, b, s, parts),
               obj' = [obj EXCEPT !["vpc"] = Stored(p)]
        PROVE  /\ obj'["vpc"].id \in {o.id, s.id} /\ obj'["vpc"].retain = o.retain
               /\ Holding => Held(obj'["vpc"])
    <3>1. /\ obj'["vpc"].id = p.id /\ obj'["vpc"].finalizers = p.finalizers
          /\ obj'["vpc"].retain = p.retain
      BY Zenon, <2>2, StoredVPC DEF IsPatch, IInv, Types
    <3>2. s \in VPCObject /\ b \in VPCObject
      BY <1>1 DEF IInv, Types
    <3>3. ASSUME Holding PROVE Held(p)
      <4>1. Held(o) /\ (Held(b) => Held(s))
        BY <1>1, <3>3 DEF SecretInv, SecretFirst
      <4>2. Held(s) \/ b.finalizers = s.finalizers
        BY <4>1, <3>2 DEF Held, VPCObject
      <4> QED
        BY <2>2, <4>1, <4>2 DEF IsPatch, Held
    <3> QED
      BY <2>2, <3>1, <3>3 DEF IsPatch, Held
  <2> QED
    BY <2>1, <2>2, CloseStores
<1>5. SecretFirst'
  BY <1>1, <1>3, <1>4 DEF SecretFirst
<1>6. SecretForVPC'
  BY <1>1, <1>2, <1>3, <1>4 DEF SecretInv, SecretForVPC, OwnedBy, Owned
<1> QED
  BY <1>3, <1>5, <1>6 DEF SecretInv

\* What happens around the controller: a Secret that is held outlives its deletion.
LEMMA SecretEnvironment ==
  ASSUME IInv, SecretInv, VPCEnvironment \/ (Environment /\ UNCHANGED vpcVars)
  PROVE  SecretInv'
<1>k. Kinds = {"vpc"}
  BY DEF Kinds, IInv, Types
<1>t. /\ Types /\ obj \in [{"vpc"} -> VPCObject] /\ vpc \in [VPCs -> Network]
      /\ obj["vpc"].id \in VPCs \cup {None}
      /\ Running => scope["vpc"].id \in VPCs \cup {None}
  BY DEF IInv, Types, VPCObject
<1>g. UpToDate' => UpToDate
  BY EnvironmentAllowed, HistoryStays
<1>1. ASSUME UNCHANGED <<pc, scope, base>>, SecretTypes', Holding' <=> Holding,
             obj'["vpc"].finalizers = obj["vpc"].finalizers, obj'["vpc"].id = obj["vpc"].id,
             obj'["vpc"].retain = obj["vpc"].retain,
             SameVPCs \/ ~UpToDate'
      PROVE  SecretInv'
  <2>1. SecretFirst'
    BY <1>1 DEF SecretInv, SecretFirst, Held, Running
  <2>2. SameVPCs => \A i \in VPCs : Owned(i)' <=> Owned(i)
    BY DEF SameVPCs, Owned
  <2>3. SameVPCs => /\ OwnedBy(obj["vpc"])' <=> OwnedBy(obj["vpc"])
                    /\ Running => (OwnedBy(scope["vpc"])' <=> OwnedBy(scope["vpc"]))
    BY <1>1, <1>t, <2>2 DEF OwnedBy
  <2>4. SecretForVPC'
    BY <1>1, <1>g, <2>3 DEF SecretInv, SecretForVPC, Running
  <2> QED
    BY <1>1, <2>1, <2>4 DEF SecretInv
<1>s. (UNCHANGED secret => SecretTypes' /\ (Holding' <=> Holding)) /\ (UNCHANGED vpc => SameVPCs)
  BY <1>t, SubnetChanges DEF SecretInv, SecretTypes, Holding
<1>2. ASSUME NEW i \in VPCs, OutOfBandVPC(i) PROVE SecretInv'
  <2>1. UNCHANGED <<obj, pc, scope, base, secret>>
    BY <1>2 DEF OutOfBandVPC, k8sVars, ctrlVars
  <2>2. "outOfBand" \in faults'["vpc"]
    BY Zenon, <1>2, <1>t, FaultsGrow DEF OutOfBandVPC, Fault
  <2>3. ~UpToDate'
    BY <2>2 DEF UpToDate, Undisturbed
  <2> QED
    BY <1>1, <1>s, <2>1, <2>3
<1>3. ASSUME NEW i \in VPCs, NEW sn \in Subnets, Attach(i, sn) \/ Detach(i, sn)
      PROVE  SecretInv'
  <2>1. UNCHANGED <<obj, pc, scope, base, secret>>
    BY <1>3 DEF Attach, Detach, reconcilerVars, k8sVars, ctrlVars
  <2>2. SameVPCs
    BY <1>3, <1>t, SubnetChanges DEF Attach, Detach
  <2> QED
    BY <1>1, <1>s, <2>1, <2>2
<1>4. ASSUME NEW sn \in Subnets, UserAddsSubnet(sn) PROVE SecretInv'
  <2> DEFINE o == obj["vpc"]
             f == [x \in DOMAIN o.subnets \cup {sn} |-> IF x = sn THEN FALSE ELSE o.subnets[x]]
             t == [o EXCEPT !.subnets = f]
  <2>1. UNCHANGED <<pc, scope, base, vpc, secret>> /\ o \in VPCObject
    BY <1>4, <1>t DEF UserAddsSubnet, ctrlVars
  <2>2. obj' = [obj EXCEPT !["vpc"] = t]
    BY <1>4, <1>t DEF UserAddsSubnet, VPCObject
  <2>3. t.retain = o.retain /\ t.finalizers = o.finalizers /\ t.id = o.id
    BY Zenon, <2>1, UserUpdates
  <2> HIDE DEF t
  <2>4. obj'["vpc"] = t
    BY <1>t, <2>2
  <2> QED
    BY <1>1, <1>s, <2>1, <2>3, <2>4
<1>5. CASE (CacheSync("vpc") \/ Wakeup("vpc")) /\ UNCHANGED vpcVars
  <2>1. UNCHANGED <<obj, pc, scope, base, vpc, secret>>
    BY <1>5 DEF CacheSync, Wakeup, ctrlVars, vpcVars
  <2> QED
    BY <1>1, <1>s, <2>1
<1>6. CASE UserDeletesSecret /\ UNCHANGED vpcVars
  <2>1. UNCHANGED <<obj, pc, scope, base, vpc>>
    BY <1>6 DEF UserDeletesSecret, k8sVars, ctrlVars, vpcVars
  <2>2. SecretTypes' /\ (Holding' <=> Holding)
    BY Zenon, <1>6 DEF UserDeletesSecret, SecretInv, SecretTypes, Holding
  <2> QED
    BY <1>1, <1>s, <2>1, <2>2
<1>7. CASE UserDelete("vpc") /\ UNCHANGED vpcVars
  <2> DEFINE o == obj["vpc"]
             u == [o EXCEPT !.deleting = TRUE]
  <2>1. UNCHANGED <<pc, scope, base, vpc, secret>> /\ obj' = [obj EXCEPT !["vpc"] = Stored(u)]
    BY <1>7 DEF UserDelete, ctrlVars, vpcVars
  <2>2. u \in VPCObject /\ u.finalizers = o.finalizers /\ u.id = o.id /\ u.retain = o.retain
    BY Zenon, <1>t, UserUpdates
  <2> HIDE DEF u
  <2>3. /\ obj'["vpc"].finalizers = o.finalizers /\ obj'["vpc"].id = o.id
        /\ obj'["vpc"].retain = o.retain
    BY Zenon, <1>t, <2>1, <2>2, StoredVPC
  <2> QED
    BY <1>1, <1>s, <2>1, <2>3
<1>8. CASE Crash /\ UNCHANGED vpcVars
  <2>1. UNCHANGED <<obj, vpc, secret>> /\ pc'["vpc"] = "idle"
    BY <1>8, <1>k DEF Crash, vpcVars
  <2>2. SecretFirst' /\ SecretForVPC'
    BY <1>g, <1>s, <2>1
    DEF SecretInv, SecretFirst, SecretForVPC, Held, Running, OwnedBy, Owned
  <2> QED
    BY <1>s, <2>1, <2>2 DEF SecretInv
<1> QED
  BY <1>k, <1>2, <1>3, <1>4, <1>5, <1>6, <1>7, <1>8 DEF VPCEnvironment, Environment

\* The Secret with the token is held for as long as the object, if it is not to be
\* retained, names a VPC that the controller made and that exists (VPCCredentials),
\* whatever call fails and whenever the controller dies, unless a reconcile starts from
\* an outdated copy or a VPC is deleted out of band; and no object goes without
\* releasing it (SecretReleased).
THEOREM CredentialsHeldForVPC == VPCSpec => [](VPCCredentials /\ SecretReleased)
<1>1. IInv /\ SecretInv /\ [VPCNext]_controllerVars => SecretInv'
  <2> SUFFICES ASSUME IInv, SecretInv, [VPCNext]_controllerVars PROVE SecretInv'
    OBVIOUS
  <2>1. CASE VPCStep
    BY <2>1, SecretCreateSteps, SecretDeleteSteps, SecretBegin, SecretAddFinalizer, SecretClose
    DEF VPCStep
  <2>2. CASE VPCEnvironment \/ (Environment /\ UNCHANGED vpcVars)
    BY <2>2, SecretEnvironment
  <2>3. CASE UNCHANGED controllerVars
    <3>1. UNCHANGED <<obj, pc, scope, base, faults, vpc, secret>>
      BY <2>3 DEF controllerVars, reconcilerVars, k8sVars, ctrlVars, histVars, vpcVars
    <3> QED
      BY <3>1 DEF SecretInv, SecretTypes, SecretFirst, SecretForVPC, Holding, Held, Running,
                  OwnedBy, Owned, UpToDate, Undisturbed
  <2> QED
    BY <2>1, <2>2, <2>3 DEF VPCNext
<1>2. IInv /\ SecretInv => VPCCredentials /\ SecretReleased
  <2> SUFFICES ASSUME IInv, SecretInv PROVE VPCCredentials /\ SecretReleased
    OBVIOUS
  <2>1. Kinds = {"vpc"}
    BY DEF Kinds, IInv, Types
  <2>2. Undisturbed("vpc", {"outOfBand", "stale"}) <=> UpToDate
    BY DEF Undisturbed, UpToDate
  <2>3. VPCCredentials
    BY <2>2 DEF SecretInv, SecretForVPC, SecretTypes, VPCCredentials, Holding, OwnedBy, Owned,
         LiveVPC
  <2>4. SecretReleased
    BY <2>1 DEF IInv, Kept, SecretInv, SecretFirst, SecretReleased, Holding
  <2> QED
    BY <2>3, <2>4
<1> QED
  BY <1>1, <1>2, SecretInitHolds, InvariantHolds, PTL DEF VPCSpec

=============================================================================
