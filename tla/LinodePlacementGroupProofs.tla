--------------------- MODULE LinodePlacementGroupProofs ---------------------
(***************************************************************************)
(* Proofs about the LinodePlacementGroup controller alone, for any number  *)
(* of placement group ids and of errors and faults: it implements          *)
(* ManagedResource, and it holds the credentials Secret for as long as it  *)
(* needs it.                                                               *)
(***************************************************************************)
EXTENDS LinodePlacementGroup, TLAPS

PGNext ==
    \/ PGStep
    \/ PGEnvironment
    \/ Environment /\ UNCHANGED pgVars

controllerVars == <<reconcilerVars, pgVars>>

\* The controller alone, with one new object; MCResources has these behaviours too.
PGSpec ==
    PGInit /\ ReconcilerInit({"pg"}, MaxFaults) /\ [][PGNext]_controllerVars

-----------------------------------------------------------------------------
PGObject ==
    [exists: BOOLEAN, deleting: BOOLEAN, finalizers: SUBSET {"pg"}, ready: BOOLEAN,
     id: PGs \cup {None}]

Group == [state: {"unused", "live", "deleted"}, members: BOOLEAN]

Creating == {"addFinalizer", "update", "addCredentials", "list", "create"}
Deleting == {"get", "delete", "release"}
Places == {"idle", "credentials", "return", "requeue"} \cup Creating \cup Deleting

Running == pc["pg"] # "idle"

Held(o) == "pg" \in o.finalizers

Types ==
    /\ obj \in [{"pg"} -> PGObject]
    /\ seen \in [{"pg"} -> PGObject]
    /\ pc \in [{"pg"} -> Places]
    /\ scope \in [{"pg"} -> PGObject \cup {None}]
    /\ base \in [{"pg"} -> PGObject \cup {None}]
    /\ Running => scope["pg"] \in PGObject /\ base["pg"] \in PGObject
    /\ faults \in [{"pg"} -> SUBSET Faults]
    /\ pg \in [PGs -> Group]

\* An object with its finalizer exists; one that is gone was deleted.
Kept ==
    /\ Held(obj["pg"]) => obj["pg"].exists
    /\ ~obj["pg"].exists => obj["pg"].deleting

\* A deletion that the cache or a reconcile knows of has been asked for.  The
\* finalizer is only given up by a reconcile that knows of it, so where the
\* deletion is not known, a finalizer that was read is still there.
Known ==
    /\ seen["pg"].deleting => obj["pg"].deleting
    /\ ~seen["pg"].deleting /\ Held(seen["pg"]) => Held(obj["pg"])
    /\ Running =>
        /\ scope["pg"].exists = base["pg"].exists
        /\ scope["pg"].deleting = base["pg"].deleting
        /\ base["pg"].deleting => seen["pg"].deleting
        /\ pc["pg"] \in Creating => ~base["pg"].deleting
        /\ pc["pg"] \in Deleting => base["pg"].deleting
        /\ pc["pg"] \in {"credentials", "addFinalizer"} =>
              /\ scope["pg"].finalizers = base["pg"].finalizers
              /\ scope["pg"].id = base["pg"].id
        /\ pc["pg"] = "release" => scope["pg"].id = None
        /\ ~base["pg"].deleting =>
              /\ Held(base["pg"]) => Held(scope["pg"]) /\ Held(obj["pg"])
              /\ pc["pg"] \in Creating \ {"addFinalizer"} => Held(scope["pg"]) /\ Held(obj["pg"])

\* The reconcile creates a group only if there is none.
Alone == pc["pg"] = "create" => \A i \in PGs : ~LivePG(i)

Forgotten == ~Undisturbed("pg", {"lostReply", "lostPatch", "crash", "stale"})

\* Without one of the four faults, the stored object is as the reconcile read it,
\* and the only group is the one that the object, or the copy of the reconcile,
\* names; it is held by the finalizer.
Recorded ==
    ~Forgotten =>
        /\ Running => obj["pg"].id = base["pg"].id
        /\ Running /\ Held(base["pg"]) => Held(obj["pg"])
        /\ \A i \in PGs : LivePG(i) =>
              /\ Held(obj["pg"])
              /\ ~Running => obj["pg"].id = i
              /\ Running => scope["pg"].id = i /\ Held(scope["pg"])

IInv == Types /\ Kept /\ Known /\ Alone /\ Recorded
-----------------------------------------------------------------------------
(***************************************************************************)
(* What the API server makes of a patch.                                   *)
(***************************************************************************)
\* The object p is o with the finalizers and the id of s, if they are sent and
\* differ from those of b.
IsPatch(p, o, b, s, parts) ==
    /\ p \in PGObject
    /\ p.exists = o.exists /\ p.deleting = o.deleting
    /\ p.finalizers = IF "object" \in parts /\ b.finalizers # s.finalizers
                      THEN s.finalizers ELSE o.finalizers
    /\ p.id = IF "object" \in parts /\ b.id # s.id THEN s.id ELSE o.id

\* A patch that the controller sends changes neither the existence nor the
\* deletion of the object, and its finalizers and its id only if they differ from
\* those that the reconcile read.
LEMMA PatchedPG ==
  ASSUME NEW o \in PGObject, NEW b \in PGObject, NEW s \in PGObject, NEW parts,
         b.exists = s.exists, b.deleting = s.deleting
  PROVE  IsPatch(Patched(o, b, s, parts), o, b, s, parts)
<1> DEFINE p == Patched(o, b, s, parts)
<1>1. DOMAIN o = {"exists", "deleting", "finalizers", "ready", "id"}
  BY DEF PGObject
<1>2. /\ p.exists = o.exists /\ p.deleting = o.deleting
      /\ p.finalizers = IF "object" \in parts /\ b.finalizers # s.finalizers
                        THEN s.finalizers ELSE o.finalizers
      /\ p.id = IF "object" \in parts /\ b.id # s.id THEN s.id ELSE o.id
      /\ p.ready \in {s.ready, o.ready}
  BY <1>1 DEF Patched, PartOf, StatusFields
<1>3. p = [exists |-> p.exists, deleting |-> p.deleting, finalizers |-> p.finalizers,
           ready |-> p.ready, id |-> p.id]
  BY <1>1 DEF Patched
<1>4. /\ p.exists \in BOOLEAN /\ p.deleting \in BOOLEAN /\ p.finalizers \in SUBSET {"pg"}
      /\ p.ready \in BOOLEAN /\ p.id \in PGs \cup {None}
  BY <1>2 DEF PGObject
<1> HIDE DEF p
<1>5. p \in PGObject
  BY Zenon, <1>3, <1>4 DEF PGObject
<1> QED
  BY <1>2, <1>5 DEF p, IsPatch

\* An object is stored as it is, or goes with its last finalizer.
LEMMA StoredPG ==
  ASSUME NEW o \in PGObject
  PROVE  /\ Stored(o) \in PGObject
         /\ Stored(o).deleting = o.deleting
         /\ Stored(o).finalizers = o.finalizers
         /\ Stored(o).id = o.id
         /\ Stored(o).exists = (o.exists /\ ~(o.deleting /\ o.finalizers = {}))
BY Zenon DEF Stored, PGObject

\* The object t is s but for its finalizers, its id and whether it is ready.
Like(t, s, fs, i) ==
    /\ t \in PGObject
    /\ t.exists = s.exists /\ t.deleting = s.deleting
    /\ t.finalizers = fs
    /\ t.id = i

\* The updates that a reconcile makes to its copy.
LEMMA UpdatesPG ==
  ASSUME NEW s \in PGObject
  PROVE  /\ \A i \in PGs : Like([s EXCEPT !.id = i, !.ready = TRUE], s, s.finalizers, i)
         /\ Like([s EXCEPT !.ready = TRUE], s, s.finalizers, s.id)
         /\ \A r : Like([s EXCEPT !.ready = @ /\ ~r], s, s.finalizers, s.id)
         /\ Like([s EXCEPT !.id = None], s, s.finalizers, None)
         /\ Like([s EXCEPT !.finalizers = @ \cup {"pg"}], s, {"pg"}, s.id)
         /\ Like([s EXCEPT !.finalizers = @ \ {"pg"}], s, {}, s.id)
         /\ Like([s EXCEPT !.deleting = TRUE], [s EXCEPT !.deleting = TRUE], s.finalizers, s.id)
         /\ [s EXCEPT !.deleting = TRUE].exists = s.exists
         /\ [s EXCEPT !.deleting = TRUE].deleting = TRUE
<1>1. \A i \in PGs : Like([s EXCEPT !.id = i, !.ready = TRUE], s, s.finalizers, i)
  BY Zenon DEF Like, PGObject
<1>2. Like([s EXCEPT !.ready = TRUE], s, s.finalizers, s.id)
  BY Zenon DEF Like, PGObject
<1>3. \A r : Like([s EXCEPT !.ready = @ /\ ~r], s, s.finalizers, s.id)
  BY Zenon DEF Like, PGObject
<1>4. Like([s EXCEPT !.id = None], s, s.finalizers, None)
  BY DEF Like, PGObject
<1>5. Like([s EXCEPT !.finalizers = @ \cup {"pg"}], s, {"pg"}, s.id)
  BY DEF Like, PGObject
<1>6. Like([s EXCEPT !.finalizers = @ \ {"pg"}], s, {}, s.id)
  BY DEF Like, PGObject
<1>7. /\ Like([s EXCEPT !.deleting = TRUE], [s EXCEPT !.deleting = TRUE], s.finalizers, s.id)
      /\ [s EXCEPT !.deleting = TRUE].exists = s.exists
      /\ [s EXCEPT !.deleting = TRUE].deleting = TRUE
  BY Zenon DEF Like, PGObject
<1> QED
  BY Zenon, <1>1, <1>2, <1>3, <1>4, <1>5, <1>6, <1>7

-----------------------------------------------------------------------------
(***************************************************************************)
(* The invariant.                                                          *)
(***************************************************************************)
\* There is no group and no reconcile at the start.
LEMMA InitHolds == PGInit /\ ReconcilerInit({"pg"}, MaxFaults) => IInv
<1> SUFFICES ASSUME PGInit, ReconcilerInit({"pg"}, MaxFaults) PROVE IInv
  OBVIOUS
<1> USE DEF PGInit, NoPG, ReconcilerInit, Kinds, NewPG
<1>1. obj = [k \in {"pg"} |-> NewPG] /\ NewPG \in PGObject
  BY DEF PGObject
<1>2. Types
  BY <1>1 DEF Types, Running, Places, Group
<1>3. Kept /\ Known
  BY <1>1 DEF Kept, Known, Running, Held
<1>4. Alone /\ Recorded
  BY DEF Alone, Recorded, LivePG, Running
<1> QED
  BY <1>2, <1>3, <1>4 DEF IInv

\* The history of the faults only grows.
Grows == faults' \in [{"pg"} -> SUBSET Faults] /\ faults["pg"] \subseteq faults'["pg"]

\* A fault is added to it.
LEMMA FaultsGrow ==
  ASSUME Types, NEW f \in FaultKinds, Fault("pg", f)
  PROVE  Grows /\ f \in faults'["pg"]
BY ReconcilerAssumptions DEF Fault, Types, Grows

\* A call that fails before it was served is none.
LEMMA FaultsStay == Types /\ (CallFails \/ UNCHANGED histVars \/ UNCHANGED faults) => Grows
BY DEF CallFails, histVars, Types, Grows

\* The copy of the reconcile is replaced.
LEMMA CopySet ==
  ASSUME scope \in [{"pg"} -> PGObject], NEW t, Set("pg", t),
         NEW s, NEW fs, NEW i, Like(t, s, fs, i)
  PROVE  Like(scope'["pg"], s, fs, i) /\ scope' \in [{"pg"} -> PGObject]
BY DEF Set, Like

\* A step of a reconcile that stores nothing in the Kubernetes API.
Continues ==
    LET s == scope["pg"]
        t == scope'["pg"]
        l == pc'["pg"]
    IN
    /\ UNCHANGED <<obj, seen, base>> /\ Grows
    /\ pc' \in [{"pg"} -> Places \ {"idle"}]
    /\ scope' \in [{"pg"} -> PGObject]
    /\ pg' \in [PGs -> Group]
    /\ t.exists = s.exists /\ t.deleting = s.deleting
    /\ l \in Creating => ~s.deleting
    /\ l \in Deleting => s.deleting
    /\ l \in {"credentials", "addFinalizer"} => UNCHANGED scope /\ pc["pg"] = "credentials"
    /\ l \in Creating \ {"addFinalizer"} => Held(t) /\ Held(obj["pg"])
    /\ l = "release" => t.id = None
    /\ ~s.deleting /\ Held(s) => Held(t)
    /\ l = "create" => \A i \in PGs : pg'[i].state # "live"
    /\ ~Forgotten' => \A i \in PGs : pg'[i].state = "live" =>
                         t.id = i /\ Held(t) /\ Held(obj["pg"])

\* Such a step keeps the invariant.
LEMMA ContinuesKeeps == IInv /\ Running /\ Continues => IInv'
<1> SUFFICES ASSUME IInv, Running, Continues PROVE IInv'
  OBVIOUS
<1> USE PGAssumptions DEF IInv, Continues, Running
<1>1. Types'
  BY DEF Types, Grows
<1>2. Kept'
  BY DEF Kept, Held
<1>3. Known'
  BY DEF Known, Types, Held
<1>4. Alone'
  BY DEF Alone, LivePG
<1>5. Forgotten => Forgotten'
  BY DEF Forgotten, Undisturbed, Grows
<1>6. Recorded'
  BY <1>5 DEF Recorded, LivePG, Held
<1> QED
  BY <1>1, <1>2, <1>3, <1>4, <1>6

\* The steps of reconcile and reconcileCreate inside the reconcile.
LEMMA CreateSteps ==
  ASSUME IInv,
         SetCredentialRefTokenPG \/ UpdatePG \/ AddCredentialsRefFinalizerPG
         \/ reconcilePlacementGroup \/ CreatePlacementGroup
  PROVE  Running /\ Continues
<1> USE PGAssumptions DEF IInv
<1> DEFINE s == scope["pg"]
<1>r. ASSUME NEW l, AtPG(l), l \in Places \ {"idle"}
      PROVE  /\ Running /\ pc["pg"] = l
             /\ s \in PGObject /\ scope \in [{"pg"} -> PGObject]
             /\ s.deleting = base["pg"].deleting
             /\ l \in Creating => ~s.deleting
             /\ l \in Creating \ {"addFinalizer"} => Held(s) /\ Held(obj["pg"])
             /\ ~Forgotten => \A i \in PGs : pg[i].state = "live" =>
                                 s.id = i /\ Held(s) /\ Held(obj["pg"])
  BY <1>r DEF AtPG, Running, Types, Known, Recorded, LivePG
<1>f. Forgotten /\ Grows => Forgotten'
  BY DEF Forgotten, Undisturbed, Grows
<1>s. ASSUME NEW i \in PGs, s \in PGObject, scope \in [{"pg"} -> PGObject],
             Set("pg", [s EXCEPT !.id = i, !.ready = TRUE])
      PROVE  Like(scope'["pg"], s, s.finalizers, i) /\ scope' \in [{"pg"} -> PGObject]
  <2>1. Like([s EXCEPT !.id = i, !.ready = TRUE], s, s.finalizers, i)
    BY ONLY Zenon, <1>s, UpdatesPG
  <2> QED
    BY ONLY <1>s, <2>1, CopySet
<1>1. CASE SetCredentialRefTokenPG
  <2>1. AtPG("credentials") /\ UNCHANGED <<obj, seen, base, scope, pg>> /\ Grows
    BY <1>1, FaultsStay DEF SetCredentialRefTokenPG, PGUntouched, k8sVars, pgVars
  <2>2. pc' \in [{"pg"} -> {"requeue", IF s.deleting THEN "get" ELSE "addFinalizer"}]
    BY <1>1 DEF SetCredentialRefTokenPG, Goto, Types
  <2>3. pg \in [PGs -> Group]
    BY DEF Types
  <2> QED
    BY ONLY <2>1, <2>2, <2>3, <1>r, <1>f DEF Continues, Places, Creating, Deleting
<1>2. CASE UpdatePG
  <2>1. AtPG("update") /\ UNCHANGED <<obj, seen, base, pg>> /\ Grows
    BY <1>2, FaultsStay DEF UpdatePG, PGUntouched, k8sVars, pgVars
  <2>2. pc' \in [{"pg"} -> {"return"}] /\ pg \in [PGs -> Group]
    BY <1>2 DEF UpdatePG, Goto, Types
  <2>3. Like([s EXCEPT !.ready = TRUE], s, s.finalizers, s.id) /\ scope \in [{"pg"} -> PGObject]
    BY ONLY Zenon, <2>1, <1>r, UpdatesPG DEF Places, Creating
  <2>4. Like(scope'["pg"], s, s.finalizers, s.id) /\ scope' \in [{"pg"} -> PGObject]
    BY <1>2, <2>3, CopySet DEF UpdatePG
  <2> QED
    BY ONLY <2>1, <2>2, <2>4, <1>r, <1>f DEF Continues, Like, Places, Creating, Deleting, Held
<1>3. CASE AddCredentialsRefFinalizerPG
  <2>1. AtPG("addCredentials") /\ UNCHANGED <<obj, seen, base, scope, pg>> /\ Grows
    BY <1>3, FaultsStay DEF AddCredentialsRefFinalizerPG, TakeSecret, k8sVars, pgVars
  <2>2. pc' \in [{"pg"} -> {"requeue", "list"}] /\ pg \in [PGs -> Group]
    BY <1>3 DEF AddCredentialsRefFinalizerPG, TakeSecret, Goto, Types
  <2> QED
    BY ONLY <2>1, <2>2, <1>r, <1>f DEF Continues, Places, Creating, Deleting
<1>4. CASE reconcilePlacementGroup
  <2>1. AtPG("list") /\ UNCHANGED <<obj, seen, base, pg>> /\ Grows /\ pg \in [PGs -> Group]
    BY Zenon, <1>4, FaultsStay DEF reconcilePlacementGroup, PGUntouched, k8sVars, pgVars, Types
  <2>2. ASSUME NEW l \in {"create", "requeue"}, Goto("pg", l), UNCHANGED scope,
               l = "create" => \A i \in PGs : ~LivePG(i)
        PROVE  Continues
    <3>1. pc' \in [{"pg"} -> {l}] /\ (l = "create" => \A i \in PGs : pg[i].state # "live")
      BY <2>2 DEF Goto, Types, LivePG
    <3> QED
      BY ONLY <2>1, <2>2, <3>1, <1>r, <1>f DEF Continues, Places, Creating, Deleting
  <2>3. ASSUME NEW i \in PGs, LivePG(i), Set("pg", [s EXCEPT !.id = i, !.ready = TRUE]),
               Goto("pg", "return")
        PROVE  Continues
    <3>1. pc' \in [{"pg"} -> {"return"}] /\ pg[i].state = "live"
      BY <2>3 DEF Goto, Types, LivePG
    <3>2. Like(scope'["pg"], s, s.finalizers, i) /\ scope' \in [{"pg"} -> PGObject]
      BY ONLY Zenon, <2>1, <2>3, <1>r, <1>s DEF Places, Creating
    <3> QED
      BY ONLY <2>1, <3>1, <3>2, <1>r, <1>f, i \in PGs
      DEF Continues, Like, Places, Creating, Deleting, Held
  <2> QED
    BY Zenon, <1>4, <2>1, <2>2, <2>3, <1>r DEF reconcilePlacementGroup, Places, Creating
<1>5. CASE CreatePlacementGroup
  <2>1. AtPG("create") /\ UNCHANGED <<obj, seen, base>> /\ \A i \in PGs : pg[i].state # "live"
    BY Zenon, <1>5 DEF CreatePlacementGroup, PGUntouched, k8sVars, Alone, LivePG, AtPG
  <2>2. Held(s) /\ Held(obj["pg"])
    BY ONLY <2>1, <1>r DEF Places, Creating
  <2>3. ASSUME NEW i \in PGs, pg' = [pg EXCEPT ![i].state = "live"]
        PROVE  pg' \in [PGs -> Group] /\ \A j \in PGs : pg'[j].state = "live" => j = i
    BY <2>1, <2>3 DEF Types, Group
  <2>4. ASSUME NEW i \in PGs, pg' = [pg EXCEPT ![i].state = "live"], UNCHANGED histVars,
               Set("pg", [s EXCEPT !.id = i, !.ready = TRUE]), Goto("pg", "return")
        PROVE  Continues
    <3>1. pc' \in [{"pg"} -> {"return"}] /\ Grows
      BY <2>4, FaultsStay DEF Goto, Types
    <3>2. Like(scope'["pg"], s, s.finalizers, i) /\ scope' \in [{"pg"} -> PGObject]
      BY ONLY Zenon, <2>1, <2>4, <1>r, <1>s DEF Places, Creating
    <3>3. pg' \in [PGs -> Group] /\ \A j \in PGs : pg'[j].state = "live" => j = i
      BY Zenon, <2>3, <2>4
    <3> QED
      BY ONLY <2>1, <2>2, <3>1, <3>2, <3>3 DEF Continues, Like, Places, Creating, Deleting, Held
  <2>5. ASSUME NEW i \in PGs, pg' = [pg EXCEPT ![i].state = "live"], Fault("pg", "lostReply"),
               UNCHANGED scope, Goto("pg", "requeue")
        PROVE  Continues
    <3>1. Grows /\ Forgotten'
      BY Zenon, <2>5, FaultsGrow DEF Fault, Forgotten, Undisturbed
    <3>2. pc' \in [{"pg"} -> {"requeue"}]
      BY <2>5 DEF Goto, Types
    <3>3. pg' \in [PGs -> Group]
      BY Zenon, <2>3, <2>5
    <3> QED
      BY ONLY <2>1, <2>5, <3>1, <3>2, <3>3, <1>r DEF Continues, Places, Creating, Deleting
  <2>6. ASSUME CallFails, UNCHANGED <<pg, scope>>, Goto("pg", "requeue")
        PROVE  Continues
    <3>1. pc' \in [{"pg"} -> {"requeue"}] /\ Grows /\ pg \in [PGs -> Group]
      BY <2>6, FaultsStay DEF Goto, Types
    <3> QED
      BY ONLY <2>1, <2>6, <3>1, <1>r, <1>f DEF Continues, Places, Creating, Deleting
  <2> QED
    BY Zenon, <1>5, <2>1, <2>4, <2>5, <2>6, <1>r DEF CreatePlacementGroup, Places, Creating
<1> QED
  BY <1>1, <1>2, <1>3, <1>4, <1>5

\* The steps of reconcileDelete.
LEMMA DeleteSteps ==
  ASSUME IInv, GetPlacementGroup \/ DeletePlacementGroup \/ RemoveCredentialsRefFinalizerPG
  PROVE  Running /\ Continues
<1> USE PGAssumptions DEF IInv
<1> DEFINE s == scope["pg"]
<1>r. ASSUME NEW l, AtPG(l), l \in Deleting
      PROVE  /\ Running /\ pc["pg"] = l
             /\ s \in PGObject /\ scope \in [{"pg"} -> PGObject]
             /\ s.deleting
             /\ l = "release" => s.id = None
             /\ ~Forgotten => \A i \in PGs : pg[i].state = "live" =>
                                 s.id = i /\ Held(s) /\ Held(obj["pg"])
  BY <1>r DEF AtPG, Running, Types, Known, Recorded, LivePG, Deleting
<1>f. Forgotten /\ Grows => Forgotten'
  BY DEF Forgotten, Undisturbed, Grows
<1>s. ASSUME s \in PGObject, scope \in [{"pg"} -> PGObject], Set("pg", [s EXCEPT !.id = None])
      PROVE  Like(scope'["pg"], s, s.finalizers, None) /\ scope' \in [{"pg"} -> PGObject]
  <2>1. Like([s EXCEPT !.id = None], s, s.finalizers, None)
    BY ONLY Zenon, <1>s, UpdatesPG
  <2> QED
    BY ONLY <1>s, <2>1, CopySet
<1>1. CASE GetPlacementGroup
  <2>1. AtPG("get") /\ UNCHANGED <<obj, seen, base, pg>> /\ Grows
    BY <1>1, FaultsStay DEF GetPlacementGroup, PGUntouched, k8sVars
  <2>2. ASSUME NEW l \in {"delete", "requeue"}, Goto("pg", l), UNCHANGED scope
        PROVE  Continues
    <3>1. pc' \in [{"pg"} -> {l}]
      BY <2>2 DEF Goto, Types
    <3> QED
      BY <2>1, <2>2, <3>1, <1>r, <1>f DEF Continues, Places, Creating, Deleting, Types
  <2>3. ASSUME ~LivePG(s.id), Set("pg", [s EXCEPT !.id = None]), Goto("pg", "release")
        PROVE  Continues
    <3>1. pc' \in [{"pg"} -> {"release"}]
      BY <2>3 DEF Goto, Types
    <3>2. Like(scope'["pg"], s, s.finalizers, None) /\ scope' \in [{"pg"} -> PGObject]
      BY <2>1, <2>3, <1>r, <1>s DEF Deleting
    <3>3. ~Forgotten' => \A i \in PGs : pg'[i].state # "live"
      BY <2>1, <2>3, <1>r, <1>f DEF Deleting, LivePG
    <3> QED
      BY <2>1, <3>1, <3>2, <3>3, <1>r DEF Continues, Like, Places, Creating, Deleting, Types
  <2> QED
    BY <1>1, <2>1, <2>2, <2>3, <1>r DEF GetPlacementGroup, Deleting
<1>2. CASE DeletePlacementGroup
  <2>1. AtPG("delete") /\ UNCHANGED <<obj, seen, base>>
    BY <1>2 DEF DeletePlacementGroup, PGUntouched, k8sVars
  <2>2. ASSUME Goto("pg", "requeue"), UNCHANGED <<pg, scope>>, CallFails \/ UNCHANGED histVars
        PROVE  Continues
    <3>1. pc' \in [{"pg"} -> {"requeue"}] /\ Grows
      BY <2>2, FaultsStay DEF Goto, Types
    <3> QED
      BY <2>1, <2>2, <3>1, <1>r, <1>f DEF Continues, Places, Creating, Deleting, Types
  <2>3. ASSUME Set("pg", [s EXCEPT !.id = None]), Goto("pg", "release"), UNCHANGED histVars,
               \/ LivePG(s.id) /\ pg' = [pg EXCEPT ![s.id] = [state |-> "deleted", members |-> FALSE]]
               \/ ~LivePG(s.id) /\ UNCHANGED pg
        PROVE  Continues
    <3>1. pc' \in [{"pg"} -> {"release"}] /\ Grows
      BY <2>3, FaultsStay DEF Goto, Types
    <3>2. Like(scope'["pg"], s, s.finalizers, None) /\ scope' \in [{"pg"} -> PGObject]
      BY <2>1, <2>3, <1>r, <1>s DEF Deleting
    <3>3. pg' \in [PGs -> Group]
      <4>1. [state |-> "deleted", members |-> FALSE] \in Group
        BY ONLY DEF Group
      <4> HIDE DEF Group
      <4> QED
        BY ONLY <4>1, <2>3, Types DEF Types
    <3>4. ~Forgotten' => \A i \in PGs : pg'[i].state # "live"
      BY <2>1, <2>3, <3>1, <1>r, <1>f DEF Deleting, LivePG, Types
    <3> QED
      BY <2>1, <3>1, <3>2, <3>3, <3>4, <1>r DEF Continues, Like, Places, Creating, Deleting
  <2>4. ASSUME Fault("pg", "lostReply"), Goto("pg", "requeue"), UNCHANGED scope,
               pg' = [pg EXCEPT ![s.id] = [state |-> "deleted", members |-> FALSE]]
        PROVE  Continues
    <3>1. pc' \in [{"pg"} -> {"requeue"}] /\ pg' \in [PGs -> Group]
      BY Zenon, <2>4 DEF Goto, Types, Group
    <3>2. Grows /\ Forgotten'
      BY Zenon, <2>4, FaultsGrow DEF Fault, Forgotten, Undisturbed
    <3> QED
      BY <2>1, <2>4, <3>1, <3>2, <1>r DEF Continues, Places, Creating, Deleting
  <2> QED
    BY <1>2, <2>1, <2>2, <2>3, <2>4, <1>r DEF DeletePlacementGroup, Deleting
<1>3. CASE RemoveCredentialsRefFinalizerPG
  <2>1. AtPG("release") /\ UNCHANGED <<obj, seen, base, pg>> /\ Grows
    BY <1>3, FaultsStay DEF RemoveCredentialsRefFinalizerPG, ReleaseSecret, k8sVars, pgVars
  <2>2. CASE Goto("pg", "return") /\ Set("pg", [s EXCEPT !.finalizers = @ \ {"pg"}])
    <3>1. pc' \in [{"pg"} -> {"return"}]
      BY <2>2 DEF Goto, Types
    <3>2. Like([s EXCEPT !.finalizers = @ \ {"pg"}], s, {}, s.id)
      BY Zenon, <2>1, <1>r, UpdatesPG DEF Deleting
    <3>3. Like(scope'["pg"], s, {}, s.id) /\ scope' \in [{"pg"} -> PGObject]
      BY <2>1, <2>2, <3>2, <1>r, CopySet DEF Deleting
    <3>4. ~Forgotten' => \A i \in PGs : pg'[i].state # "live"
      BY <2>1, <1>r, <1>f DEF Deleting
    <3> QED
      BY <2>1, <3>1, <3>3, <3>4, <1>r DEF Continues, Like, Places, Creating, Deleting, Types
  <2>3. CASE Goto("pg", "requeue") /\ UNCHANGED scope
    <3>1. pc' \in [{"pg"} -> {"requeue"}]
      BY <2>3 DEF Goto, Types
    <3> QED
      BY <2>1, <2>3, <3>1, <1>r, <1>f DEF Continues, Places, Creating, Deleting, Types
  <2> QED
    BY <1>3, <2>1, <2>2, <2>3, <1>r DEF Deleting, RemoveCredentialsRefFinalizerPG, ReleaseSecret
<1> QED
  BY <1>1, <1>2, <1>3

\* A reconcile starts from the cached copy.
LEMMA BeginKeeps == IInv /\ ReconcilePG => IInv'
<1> SUFFICES ASSUME IInv, ReconcilePG PROVE IInv'
  OBVIOUS
<1> DEFINE c == seen["pg"]
<1>1. pc["pg"] = "idle" /\ UNCHANGED <<obj, seen, pg>> /\ Types /\ c \in PGObject
  BY DEF ReconcilePG, Begin, IInv, Types
<1>2. CASE ~c.exists
  <2>1. UNCHANGED <<obj, seen, pc, scope, base, faults, pg>>
    BY <1>1, <1>2 DEF ReconcilePG, Begin, ctrlVars, histVars
  <2> QED
    BY <2>1 DEF IInv, Types, Kept, Known, Alone, Recorded, Running, LivePG, Forgotten,
         Undisturbed
<1>3. CASE c.exists
  <2>1. /\ Goto("pg", "credentials")
        /\ base' = [base EXCEPT !["pg"] = c]
        /\ Set("pg", [c EXCEPT !.ready = @ /\ ~TRUE])
        /\ IF c = obj["pg"] THEN UNCHANGED histVars ELSE Fault("pg", "stale")
    BY <1>3 DEF ReconcilePG, Begin
  <2>2. pc' \in [{"pg"} -> {"credentials"}] /\ base' \in [{"pg"} -> PGObject] /\ base'["pg"] = c
    BY <1>1, <2>1 DEF Goto, Types
  <2>3. Like([c EXCEPT !.ready = @ /\ ~TRUE], c, c.finalizers, c.id)
    BY Zenon, <1>1, UpdatesPG
  <2>4. Like(scope'["pg"], c, c.finalizers, c.id) /\ scope' \in [{"pg"} -> PGObject]
    BY <1>1, <2>1, <2>3 DEF Set, Like, Types
  <2>5. Grows /\ (c = obj["pg"] \/ Forgotten')
    BY <1>1, <2>1, FaultsStay, FaultsGrow DEF Fault, Forgotten, Undisturbed
  <2>6. Forgotten => Forgotten'
    BY <2>5 DEF Forgotten, Undisturbed, Grows
  <2>7. Types'
    BY <1>1, <2>2, <2>4, <2>5 DEF Types, Running, Places, Grows
  <2>8. Kept' /\ Alone'
    BY <1>1, <2>2 DEF IInv, Kept, Alone, Held
  <2>9. Known'
    BY <1>1, <2>2, <2>4 DEF IInv, Known, Like, Held, Running, Creating, Deleting
  <2>10. Recorded'
    BY <1>1, <2>2, <2>4, <2>5, <2>6 DEF IInv, Recorded, Like, Held, Running, LivePG
  <2> QED
    BY <2>7, <2>8, <2>9, <2>10 DEF IInv
<1> QED
  BY <1>2, <1>3

\* AddFinalizer stores the finalizer, and nothing else that the reconcile has not read.
LEMMA AddFinalizerKeeps == IInv /\ AddFinalizerPG => IInv'
<1> SUFFICES ASSUME IInv, AddFinalizerPG PROVE IInv'
  OBVIOUS
<1> DEFINE s == scope["pg"]
           b == base["pg"]
           t == [s EXCEPT !.finalizers = @ \cup {"pg"}]
           p == Patched(obj["pg"], b, t, PatchParts)
           next == IF s.id # None THEN "update" ELSE "addCredentials"
<1>1. /\ Running /\ Types /\ pc["pg"] = "addFinalizer"
      /\ s \in PGObject /\ b \in PGObject /\ obj["pg"] \in PGObject
      /\ scope \in [{"pg"} -> PGObject]
      /\ ~s.deleting /\ ~b.deleting /\ s.deleting = b.deleting /\ s.exists = b.exists
      /\ s.finalizers = b.finalizers /\ s.id = b.id
      /\ UNCHANGED <<seen, base, pg>>
  BY DEF AddFinalizerPG, PatchFinalizer, AtPG, IInv, Types, Known, Running, Creating, pgVars
<1>2. Like(t, s, {"pg"}, s.id)
  BY Zenon, <1>1, UpdatesPG
<1> HIDE DEF t
<1>3. Like(scope'["pg"], s, {"pg"}, s.id) /\ scope' \in [{"pg"} -> PGObject]
  BY <1>1, <1>2, CopySet DEF AddFinalizerPG, PatchFinalizer, t
<1>4. Grows
  BY <1>1, FaultsStay DEF AddFinalizerPG, PatchFinalizer
<1>5. Forgotten => Forgotten'
  BY <1>4 DEF Forgotten, Undisturbed, Grows
<1>l. ~Forgotten' => \A i \in PGs : pg'[i].state = "live" => s.id = i /\ Held(s) /\ Held(obj["pg"])
  BY <1>1, <1>5, PGAssumptions DEF IInv, Recorded, LivePG
<1>p. pg' \in [PGs -> Group]
  BY <1>1 DEF Types
<1>6. CASE Held(s) /\ Goto("pg", next) /\ UNCHANGED obj
  <2>1. pc' \in [{"pg"} -> {"update", "addCredentials"}]
    BY <1>1, <1>6 DEF Goto, Types
  <2>2. Held(obj["pg"])
    BY <1>1, <1>6 DEF IInv, Known, Held
  <2>3. Continues
    BY ONLY <1>1, <1>3, <1>4, <1>l, <1>p, <1>6, <2>1, <2>2
    DEF Continues, Like, Held, Places, Creating, Deleting
  <2> QED
    BY <1>1, <2>3, ContinuesKeeps
<1>7. CASE ~Held(s) /\ Goto("pg", "requeue") /\ UNCHANGED obj
  <2>1. pc' \in [{"pg"} -> {"requeue"}]
    BY <1>1, <1>7 DEF Goto, Types
  <2>2. Continues
    BY ONLY <1>1, <1>3, <1>4, <1>l, <1>p, <1>7, <2>1
    DEF Continues, Like, Held, Places, Creating, Deleting
  <2> QED
    BY <1>1, <2>2, ContinuesKeeps
<1>8. CASE /\ ~Held(s) /\ obj["pg"].exists
           /\ obj' = [obj EXCEPT !["pg"] = p]
           /\ Goto("pg", next)
  <2>1. pc' \in [{"pg"} -> {"update", "addCredentials"}]
    BY <1>1, <1>8 DEF Goto, Types
  <2>2. Like(p, obj["pg"], {"pg"}, obj["pg"].id)
    <3>1. b.finalizers # {"pg"} /\ t.finalizers = {"pg"} /\ t \in PGObject /\ b.id = t.id
          /\ b.exists = t.exists /\ b.deleting = t.deleting
      BY <1>1, <1>2, <1>8 DEF Like, Held
    <3>2. IsPatch(p, obj["pg"], b, t, PatchParts)
      BY ONLY <1>1, <3>1, PatchedPG
    <3> HIDE DEF p
    <3> QED
      BY ONLY <3>1, <3>2 DEF Like, PatchParts, IsPatch
  <2>3. Like(obj'["pg"], obj["pg"], {"pg"}, obj["pg"].id) /\ obj' \in [{"pg"} -> PGObject]
    BY Zenon, <1>1, <1>8, <2>2 DEF Like, Types
  <2>4. Types'
    BY <1>1, <1>3, <1>4, <2>1, <2>3 DEF Types, Grows, Running, Places, Creating
  <2>5. Kept' /\ Alone'
    BY Zenon, <1>8, <2>1, <2>3 DEF Kept, Alone, Held, Like, IInv
  <2>6. Known'
    BY <1>1, <1>3, <2>1, <2>3 DEF IInv, Known, Like, Held, Running, Creating, Deleting
  <2>7. Recorded'
    BY <1>1, <1>3, <1>5, <2>1, <2>3 DEF IInv, Recorded, Like, Held, Running, LivePG
  <2> QED
    BY <2>4, <2>5, <2>6, <2>7 DEF IInv
<1> QED
  BY <1>6, <1>7, <1>8 DEF AddFinalizerPG, PatchFinalizer, Held, t

\* What Close stores: the object as it is, or the patched one.
LEMMA CloseStores ==
  ASSUME IInv, ClosePG
  PROVE  /\ Running /\ UNCHANGED <<seen, pg>> /\ Grows
         /\ pc' \in [{"pg"} -> {"idle"}]
         /\ scope' \in [{"pg"} -> {None}] /\ base' \in [{"pg"} -> {None}]
         /\ \/ UNCHANGED obj /\ ~obj["pg"].exists
            \/ \E parts, p :
                 /\ IsPatch(p, obj["pg"], base["pg"], scope["pg"], parts)
                 /\ obj["pg"].exists
                 /\ obj' = [obj EXCEPT !["pg"] = Stored(p)]
                 /\ \/ "object" \in parts
                    \/ Forgotten'
                    \/ /\ obj["pg"].deleting /\ ~Held(obj["pg"])
                       /\ UNCHANGED faults
<1> DEFINE s == scope["pg"]
           b == base["pg"]
           o == obj["pg"]
           p(parts) == Patched(o, b, s, parts)
           Finish(parts) == obj' = [obj EXCEPT !["pg"] = Stored(p(parts))]
<1>1. /\ Running /\ Types /\ s \in PGObject /\ b \in PGObject /\ o \in PGObject
      /\ b.exists = s.exists /\ b.deleting = s.deleting
  BY DEF IInv, Types, Known, Running, ClosePG, ClosePatch
<1>2. \A parts : IsPatch(p(parts), o, b, s, parts)
  BY ONLY <1>1, PatchedPG
<1>3. UNCHANGED <<seen, pg>> /\ pc' \in [{"pg"} -> {"idle"}]
      /\ scope' \in [{"pg"} -> {None}] /\ base' \in [{"pg"} -> {None}]
  BY <1>1 DEF ClosePG, ClosePatch, Goto, Types
<1>4. \/ ~o.exists /\ UNCHANGED <<obj, histVars>>
      \/ o.exists /\ Accepted(o, p(PatchParts)) /\ Finish(PatchParts) /\ UNCHANGED histVars
      \/ o.exists /\ ~Accepted(o, p(PatchParts)) /\ Finish({"status"}) /\ UNCHANGED histVars
      \/ \E parts : o.exists /\ Finish(parts) /\ Fault("pg", "lostPatch")
  BY DEF ClosePG, ClosePatch
<1> HIDE DEF p
<1>5. CASE ~o.exists /\ UNCHANGED <<obj, histVars>>
  BY <1>1, <1>3, <1>5, FaultsStay
<1>6. CASE o.exists /\ Accepted(o, p(PatchParts)) /\ Finish(PatchParts) /\ UNCHANGED histVars
  <2>1. IsPatch(p(PatchParts), o, b, s, PatchParts) /\ "object" \in PatchParts
    BY <1>2 DEF PatchParts
  <2> QED
    BY Zenon, <1>1, <1>3, <1>6, <2>1, FaultsStay
<1>7. CASE o.exists /\ ~Accepted(o, p(PatchParts)) /\ Finish({"status"}) /\ UNCHANGED histVars
  <2>1. IsPatch(p({"status"}), o, b, s, {"status"})
    BY <1>2
  <2>2. p(PatchParts).finalizers \subseteq {"pg"}
    BY <1>2 DEF IsPatch, PGObject
  <2>3. o.deleting /\ ~Held(o)
    BY <1>1, <1>7, <2>2 DEF Accepted, Held, PGObject
  <2> QED
    BY Zenon, <1>1, <1>3, <1>7, <2>1, <2>3, FaultsStay DEF histVars
<1>8. ASSUME NEW parts, o.exists, Finish(parts), Fault("pg", "lostPatch")
      PROVE  /\ Grows
             /\ \E q, r : /\ IsPatch(r, o, b, s, q) /\ o.exists
                          /\ obj' = [obj EXCEPT !["pg"] = Stored(r)]
                          /\ Forgotten'
  <2>1. Grows /\ Forgotten'
    BY Zenon, <1>1, <1>8, FaultsGrow DEF Fault, Forgotten, Undisturbed
  <2> QED
    BY Zenon, <1>2, <1>8, <2>1
<1> QED
  BY <1>1, <1>3, <1>4, <1>5, <1>6, <1>7, <1>8

\* Close keeps the invariant.
LEMMA CloseKeeps == IInv /\ ClosePG => IInv'
<1> SUFFICES ASSUME IInv, ClosePG PROVE IInv'
  OBVIOUS
<1> DEFINE s == scope["pg"]
           b == base["pg"]
           o == obj["pg"]
<1>1. /\ Running /\ UNCHANGED <<seen, pg>> /\ Grows
      /\ pc' \in [{"pg"} -> {"idle"}]
      /\ scope' \in [{"pg"} -> {None}] /\ base' \in [{"pg"} -> {None}]
  BY CloseStores
<1>2. Forgotten => Forgotten'
  BY <1>1 DEF Forgotten, Undisturbed, Grows
<1>3. CASE UNCHANGED obj /\ ~o.exists
  <2>1. Types' /\ Kept' /\ Known' /\ Alone'
    BY <1>1, <1>3 DEF IInv, Types, Kept, Known, Alone, Running, Places, Grows, Held
  <2>2. Recorded'
    BY <1>1, <1>2, <1>3 DEF IInv, Recorded, Kept, Running, Held, LivePG
  <2> QED
    BY <2>1, <2>2 DEF IInv
<1>4. ASSUME NEW parts, NEW p, IsPatch(p, o, b, s, parts), o.exists,
             obj' = [obj EXCEPT !["pg"] = Stored(p)],
             "object" \in parts \/ Forgotten' \/ (o.deleting /\ ~Held(o) /\ UNCHANGED faults)
      PROVE  IInv'
  <2>1. /\ Stored(p) \in PGObject /\ Stored(p).deleting = o.deleting
        /\ Stored(p).finalizers = p.finalizers /\ Stored(p).id = p.id
        /\ Stored(p).exists = ~(o.deleting /\ p.finalizers = {})
    BY Zenon, <1>4, StoredPG DEF IsPatch
  <2>2. obj'["pg"] = Stored(p) /\ obj' \in [{"pg"} -> PGObject]
    BY <1>4, <2>1 DEF IInv, Types
  <2>3. Held(s) /\ Held(o) => Held(p)
    BY <1>4 DEF IsPatch, Held
  <2>4. Types'
    BY <1>1, <2>2 DEF IInv, Types, Running, Places, Grows
  <2>5. Kept' /\ Alone'
    BY Zenon, <1>1, <1>4, <2>1, <2>2 DEF Kept, Alone, Held, IInv
  <2>6. Known'
    <3>1. obj'["pg"].deleting = o.deleting
      BY <2>1, <2>2
    <3>2. ~seen["pg"].deleting /\ Held(o) => Held(p)
      <4> SUFFICES ASSUME ~seen["pg"].deleting, Held(o), ~Held(s) PROVE Held(p)
        BY <2>3
      <4>1. ~b.deleting /\ ~Held(b)
        BY <1>1 DEF IInv, Known
      <4>2. b \in PGObject /\ s \in PGObject
        BY <1>1 DEF IInv, Types
      <4>3. b.finalizers = s.finalizers
        BY <4>1, <4>2 DEF Held, PGObject
      <4> QED
        BY <1>4, <4>3 DEF IsPatch, Held
    <3> QED
      BY <1>1, <2>1, <2>2, <3>1, <3>2 DEF IInv, Known, Running, Held
  <2>7. Recorded'
    <3> SUFFICES ASSUME ~Forgotten', NEW i \in PGs, LivePG(i)
                 PROVE  Held(p) /\ p.id = i
      BY <1>1, <2>1, <2>2 DEF Recorded, Running, Held, LivePG
    <3>1. s.id = i /\ Held(s) /\ Held(o) /\ o.id = b.id
      BY <1>1, <1>2 DEF IInv, Recorded
    <3>2. "object" \in parts
      BY <1>4, <3>1
    <3> QED
      BY <1>4, <2>3, <3>1, <3>2 DEF IsPatch
  <2> QED
    BY <2>4, <2>5, <2>6, <2>7 DEF IInv
<1> QED
  BY <1>3, <1>4, CloseStores

\* What happens around the controller keeps the invariant.
LEMMA EnvironmentKeeps == IInv /\ (PGEnvironment \/ (Environment /\ UNCHANGED pgVars)) => IInv'
<1> SUFFICES ASSUME IInv, PGEnvironment \/ (Environment /\ UNCHANGED pgVars) PROVE IInv'
  OBVIOUS
<1>k. Kinds = {"pg"}
  BY DEF Kinds, IInv, Types
<1>1. ASSUME NEW i \in PGs, Join(i) \/ Leave(i) \/ OutOfBandPG(i)
      PROVE  IInv'
  <2>1. UNCHANGED <<obj, seen, pc, scope, base>>
    BY <1>1 DEF Join, Leave, OutOfBandPG, reconcilerVars, k8sVars, ctrlVars
  <2>2. Grows
    BY <1>1, FaultsGrow, FaultsStay
    DEF IInv, Join, Leave, OutOfBandPG, reconcilerVars, histVars, Fault
  <2>3. pg' \in [PGs -> Group] /\ \A j \in PGs : LivePG(j)' => LivePG(j)
    <3>1. CASE OutOfBandPG(i)
      <4>1. pg' = [pg EXCEPT ![i] = [state |-> "deleted", members |-> FALSE]]
            /\ pg \in [PGs -> Group]
            /\ [state |-> "deleted", members |-> FALSE] \in Group
        BY <3>1 DEF IInv, Types, Group, OutOfBandPG
      <4> QED
        BY ONLY <4>1, i \in PGs DEF LivePG
    <3>2. CASE Join(i) \/ Leave(i)
      <4>1. PICK x \in BOOLEAN : pg' = [pg EXCEPT ![i].members = x]
        BY Zenon, <3>2 DEF Join, Leave
      <4>2. pg \in [PGs -> Group] /\ pg[i] \in Group
        BY DEF IInv, Types
      <4>3. [pg[i] EXCEPT !.members = x] \in Group
            /\ [pg[i] EXCEPT !.members = x].state = pg[i].state
        BY <4>2 DEF Group
      <4> QED
        BY <4>1, <4>2, <4>3 DEF LivePG
    <3> QED
      BY <1>1, <3>1, <3>2
  <2>4. Forgotten => Forgotten'
    BY <2>2 DEF Forgotten, Undisturbed, Grows
  <2>5. Types'
    BY <2>1, <2>2, <2>3 DEF IInv, Types, Running, Grows
  <2>6. Kept' /\ Known' /\ Alone'
    BY <2>1, <2>3 DEF IInv, Kept, Known, Alone, Running, Held
  <2>7. Recorded'
    BY <2>1, <2>3, <2>4 DEF IInv, Recorded, Running, Held
  <2> QED
    BY <2>5, <2>6, <2>7 DEF IInv
<1>2. CASE CacheSync("pg") /\ UNCHANGED pgVars
  <2>1. UNCHANGED <<obj, pc, scope, base, faults, pg>> /\ seen' = [seen EXCEPT !["pg"] = obj["pg"]]
    BY <1>2 DEF CacheSync, ctrlVars, histVars, pgVars
  <2>2. seen' \in [{"pg"} -> PGObject] /\ seen'["pg"] = obj["pg"]
    BY <2>1 DEF IInv, Types
  <2>3. Types' /\ Kept' /\ Alone' /\ Recorded'
    BY <2>1, <2>2 DEF IInv, Types, Kept, Alone, Recorded, Running, Held, LivePG, Forgotten,
         Undisturbed
  <2>4. Known'
    BY <2>1, <2>2 DEF IInv, Known, Running, Held
  <2> QED
    BY <2>3, <2>4 DEF IInv
<1>3. CASE (Wakeup("pg") \/ UserDeletesSecret) /\ UNCHANGED pgVars
  <2>1. UNCHANGED <<obj, seen, pc, scope, base, faults, pg>>
    BY <1>3 DEF Wakeup, UserDeletesSecret, k8sVars, ctrlVars, pgVars
  <2> QED
    BY <2>1 DEF IInv, Types, Kept, Known, Alone, Recorded, Running, LivePG, Forgotten,
         Undisturbed
<1>4. CASE UserDelete("pg") /\ UNCHANGED pgVars
  <2> DEFINE o == obj["pg"]
             u == [o EXCEPT !.deleting = TRUE]
  <2>1. UNCHANGED <<seen, pc, scope, base, faults, pg>> /\ o.exists /\ o \in PGObject
        /\ obj' = [obj EXCEPT !["pg"] = Stored(u)]
    BY <1>4 DEF IInv, Types, UserDelete, ctrlVars, histVars, pgVars
  <2>2. u \in PGObject /\ u.exists = o.exists /\ u.deleting = TRUE
        /\ u.finalizers = o.finalizers /\ u.id = o.id
    BY Zenon, <2>1, UpdatesPG DEF Like
  <2> HIDE DEF u
  <2>3. /\ Stored(u) \in PGObject /\ Stored(u).deleting = TRUE
        /\ Stored(u).finalizers = o.finalizers /\ Stored(u).id = o.id
        /\ Stored(u).exists = ~(o.finalizers = {})
    BY Zenon, <2>1, <2>2, StoredPG
  <2>4. obj' \in [{"pg"} -> PGObject] /\ obj'["pg"] = Stored(u)
    BY <2>1, <2>3 DEF IInv, Types
  <2>5. Types' /\ Kept' /\ Alone'
    BY Zenon, <2>1, <2>3, <2>4 DEF IInv, Types, Kept, Alone, Running, Held, LivePG
  <2>6. Known'
    BY <2>1, <2>3, <2>4 DEF IInv, Known, Running, Held
  <2>7. Recorded'
    BY <2>1, <2>3, <2>4 DEF IInv, Recorded, Running, Held, LivePG, Forgotten, Undisturbed
  <2> QED
    BY <2>5, <2>6, <2>7 DEF IInv
<1>5. CASE Crash /\ UNCHANGED pgVars
  <2>1. /\ UNCHANGED <<obj, pg>> /\ seen' = obj
        /\ pc' = [k \in {"pg"} |-> "idle"]
        /\ scope' = [k \in {"pg"} |-> None] /\ base' = [k \in {"pg"} |-> None]
        /\ faults' = [k \in {"pg"} |-> faults[k] \cup {"crash"}]
    BY <1>5, <1>k DEF Crash, pgVars
  <2>2. Forgotten' /\ faults' \in [{"pg"} -> SUBSET Faults]
    BY <2>1 DEF Forgotten, Undisturbed, Faults, IInv, Types
  <2>3. Types' /\ Kept' /\ Alone' /\ Recorded'
    BY <2>1, <2>2 DEF IInv, Types, Kept, Alone, Recorded, Running, Held, LivePG, Places
  <2>4. Known'
    BY <2>1 DEF IInv, Known, Running, Held
  <2> QED
    BY <2>3, <2>4 DEF IInv
<1> QED
  BY <1>k, <1>1, <1>2, <1>3, <1>4, <1>5 DEF PGEnvironment, Environment

\* The invariant holds throughout: the reconcile creates a group only when there is
\* none, and what is stored names and holds the group, unless a fault got in between.
THEOREM InvariantHolds == PGSpec => []IInv
<1>1. IInv /\ [PGNext]_controllerVars => IInv'
  <2> SUFFICES ASSUME IInv, [PGNext]_controllerVars PROVE IInv'
    OBVIOUS
  <2>1. CASE PGStep
    <3>1. CASE SetCredentialRefTokenPG \/ UpdatePG \/ AddCredentialsRefFinalizerPG
               \/ reconcilePlacementGroup \/ CreatePlacementGroup
      BY <3>1, CreateSteps, ContinuesKeeps
    <3>2. CASE GetPlacementGroup \/ DeletePlacementGroup \/ RemoveCredentialsRefFinalizerPG
      BY <3>2, DeleteSteps, ContinuesKeeps
    <3>3. CASE ReconcilePG \/ AddFinalizerPG \/ ClosePG
      BY <3>3, BeginKeeps, AddFinalizerKeeps, CloseKeeps
    <3> QED
      BY <2>1, <3>1, <3>2, <3>3 DEF PGStep
  <2>2. CASE PGEnvironment \/ (Environment /\ UNCHANGED pgVars)
    BY <2>2, EnvironmentKeeps DEF pgVars
  <2>3. CASE UNCHANGED controllerVars
    <3>1. UNCHANGED <<obj, seen, pc, scope, base, faults, pg>>
      BY <2>3 DEF controllerVars, reconcilerVars, k8sVars, ctrlVars, histVars, pgVars
    <3> QED
      BY <3>1 DEF IInv, Types, Kept, Known, Alone, Recorded, Running, LivePG, Forgotten,
           Undisturbed
  <2> QED
    BY <2>1, <2>2, <2>3 DEF PGNext
<1> QED
  BY <1>1, InitHolds, PTL DEF PGSpec

-----------------------------------------------------------------------------
(***************************************************************************)
(* The refinement.                                                         *)
(***************************************************************************)
\* The state of the object, as ManagedResource sees it.
State(o) == IF o.exists /\ ~o.deleting THEN "present" ELSE IF o.exists THEN "deleting" ELSE "gone"

Live == {i \in PGs : LivePG(i)}

\* What a step does that ManagedResource allows, without its flags.
Allowed ==
    LET o == obj["pg"] IN
    \/ UNCHANGED <<obj, pg>>
    \/ State(o)' = State(o) /\ Live' = Live
    \/ State(o)' = State(o) /\ State(o) # "gone" /\ Live = {} /\ \E i \in PGs : Live' = {i}
    \/ State(o)' = State(o) /\ \E i \in PGs : Live' = Live \ {i}
    \/ Live' = Live /\ State(o) = "present" /\ State(o)' = "deleting"
    \/ /\ Live' = Live /\ State(o) \in {"present", "deleting"} /\ State(o)' = "gone"
       /\ Live = {} \/ Forgotten

\* The steps of the reconcile.
LEMMA StepsAllowed ==
  ASSUME IInv, PGStep
  PROVE  Allowed /\ (Forgotten => Forgotten')
<1> DEFINE o == obj["pg"]
<1>g. Grows => (Forgotten => Forgotten')
  BY DEF Forgotten, Undisturbed, Grows
<1>1. CASE ReconcilePG
  <2>1. UNCHANGED <<obj, pg>>
    BY <1>1 DEF ReconcilePG, Begin
  <2>2. Grows
    BY <1>1, FaultsStay, FaultsGrow DEF ReconcilePG, Begin, Fault, IInv
  <2> QED
    BY <1>g, <2>1, <2>2 DEF Allowed
<1>2. CASE SetCredentialRefTokenPG \/ UpdatePG \/ AddCredentialsRefFinalizerPG
           \/ reconcilePlacementGroup
  <2>1. Continues
    BY <1>2, CreateSteps
  <2>2. UNCHANGED pg
    BY Zenon, <1>2 DEF SetCredentialRefTokenPG, UpdatePG, AddCredentialsRefFinalizerPG,
                reconcilePlacementGroup, pgVars
  <2> QED
    BY <1>g, <2>1, <2>2 DEF Allowed, Continues
<1>3. CASE CreatePlacementGroup
  <2>1. Continues /\ Running
    BY <1>3, CreateSteps
  <2>2. pc["pg"] = "create" /\ Held(o) /\ o.exists
    BY Zenon, <1>3, <2>1 DEF CreatePlacementGroup, AtPG, IInv, Known, Kept, Creating
  <2>3. Live = {}
    BY <2>2 DEF IInv, Alone, Live
  <2>4. UNCHANGED pg \/ \E i \in PGs : pg' = [pg EXCEPT ![i].state = "live"]
    BY Zenon, <1>3 DEF CreatePlacementGroup
  <2>5. CASE UNCHANGED pg
    BY <1>g, <2>1, <2>5 DEF Allowed, Continues
  <2>6. ASSUME NEW i \in PGs, pg' = [pg EXCEPT ![i].state = "live"] PROVE Live' = {i}
    BY <2>3, <2>6, PGAssumptions DEF Live, LivePG, IInv, Types, Group
  <2>7. State(o)' = State(o) /\ State(o) # "gone"
    BY <2>1, <2>2 DEF State, Continues
  <2> QED
    BY <1>g, <2>1, <2>3, <2>4, <2>5, <2>6, <2>7 DEF Allowed, Continues
<1>4. CASE GetPlacementGroup \/ RemoveCredentialsRefFinalizerPG
  <2>1. Continues
    BY <1>4, DeleteSteps
  <2>2. UNCHANGED pg
    BY <1>4 DEF GetPlacementGroup, RemoveCredentialsRefFinalizerPG, pgVars
  <2> QED
    BY <1>g, <2>1, <2>2 DEF Allowed, Continues
<1>5. CASE DeletePlacementGroup
  <2>1. Continues
    BY <1>5, DeleteSteps
  <2>2. UNCHANGED pg
        \/ \E i \in PGs : pg' = [pg EXCEPT ![i] = [state |-> "deleted", members |-> FALSE]]
    <3>1. scope["pg"] \in PGObject
      BY <1>5, DeleteSteps DEF IInv, Types
    <3>2. LivePG(scope["pg"].id) => scope["pg"].id \in PGs
      BY <3>1 DEF LivePG, PGObject
    <3> QED
      BY <1>5, <3>2 DEF DeletePlacementGroup
  <2>3. CASE UNCHANGED pg
    BY <1>g, <2>1, <2>3 DEF Allowed, Continues
  <2>4. ASSUME NEW i \in PGs, pg' = [pg EXCEPT ![i] = [state |-> "deleted", members |-> FALSE]]
        PROVE  Live' = Live \ {i}
    BY <2>4 DEF Live, LivePG, IInv, Types
  <2>5. State(o)' = State(o)
    BY <2>1 DEF State, Continues
  <2> QED
    BY <1>g, <2>1, <2>2, <2>3, <2>4, <2>5 DEF Allowed, Continues
<1>6. CASE AddFinalizerPG
  <2> DEFINE s == scope["pg"]
             b == base["pg"]
             t == [s EXCEPT !.finalizers = @ \cup {"pg"}]
             p == Patched(o, b, t, PatchParts)
  <2>1. UNCHANGED pg /\ Grows /\ (UNCHANGED obj \/ obj' = [obj EXCEPT !["pg"] = p])
    BY <1>6, FaultsStay DEF AddFinalizerPG, PatchFinalizer, pgVars, IInv
  <2>2. /\ s \in PGObject /\ b \in PGObject /\ o \in PGObject
        /\ s.deleting = b.deleting /\ s.exists = b.exists
    BY <1>6 DEF AddFinalizerPG, AtPG, IInv, Types, Known, Running
  <2>3. Like(t, s, {"pg"}, s.id)
    BY Zenon, <2>2, UpdatesPG
  <2> HIDE DEF t
  <2>4. IsPatch(p, o, b, t, PatchParts)
    BY <2>2, <2>3, PatchedPG DEF Like
  <2> HIDE DEF p
  <2>5. obj' = [obj EXCEPT !["pg"] = p] => State(o)' = State(o)
    BY <2>4 DEF IsPatch, State, IInv, Types
  <2>6. Live' = Live
    BY <2>1 DEF Live, LivePG
  <2> QED
    BY <1>g, <2>1, <2>5, <2>6 DEF Allowed
<1>7. CASE ClosePG
  <2>1. UNCHANGED pg /\ Grows /\ Running
    BY <1>7, CloseStores
  <2>2. CASE UNCHANGED obj
    BY <1>g, <2>1, <2>2 DEF Allowed
  <2>3. ASSUME NEW parts, NEW p, IsPatch(p, o, base["pg"], scope["pg"], parts), o.exists,
               obj' = [obj EXCEPT !["pg"] = Stored(p)]
        PROVE  Allowed
    <3>1. obj'["pg"].deleting = o.deleting /\ obj'["pg"].exists = ~(o.deleting /\ p.finalizers = {})
      BY Zenon, <2>3, StoredPG DEF IsPatch, IInv, Types
    <3>2. Live' = Live
      BY <2>1 DEF Live, LivePG
    <3>3. CASE ~(o.deleting /\ p.finalizers = {})
      BY Zenon, <2>3, <3>1, <3>2, <3>3 DEF Allowed, State
    <3>4. CASE o.deleting /\ p.finalizers = {}
      <4>1. State(o) = "deleting" /\ State(o)' = "gone"
        BY Zenon, <2>3, <3>1, <3>4 DEF State
      <4>2. ASSUME ~Forgotten, NEW i \in PGs, LivePG(i) PROVE FALSE
        <5>1. Held(o) /\ Held(scope["pg"])
          BY <2>1, <4>2 DEF IInv, Recorded
        <5> QED
          BY <2>3, <3>4, <5>1 DEF IsPatch, Held
      <4>3. Live = {} \/ Forgotten
        BY <4>2 DEF Live
      <4> QED
        BY <3>2, <4>1, <4>3 DEF Allowed
    <3> QED
      BY <3>3, <3>4
  <2> QED
    BY <1>7, <1>g, <2>1, <2>2, <2>3, CloseStores
<1> QED
  BY <1>1, <1>2, <1>3, <1>4, <1>5, <1>6, <1>7 DEF PGStep

\* The user and the API.
LEMMA EnvironmentAllowed ==
  ASSUME IInv, PGEnvironment \/ (Environment /\ UNCHANGED pgVars)
  PROVE  Allowed /\ (Forgotten => Forgotten')
<1> DEFINE o == obj["pg"]
<1>g. Grows => (Forgotten => Forgotten')
  BY DEF Forgotten, Undisturbed, Grows
<1>k. Kinds = {"pg"}
  BY DEF Kinds, IInv, Types
<1>1. ASSUME NEW i \in PGs, Join(i) \/ Leave(i) PROVE Allowed /\ Grows
  <2>1. UNCHANGED obj /\ UNCHANGED faults /\ \E x \in BOOLEAN : pg' = [pg EXCEPT ![i].members = x]
    BY Zenon, <1>1 DEF Join, Leave, reconcilerVars, k8sVars, histVars
  <2>2. Live' = Live
    BY <2>1 DEF Live, LivePG, IInv, Types, Group
  <2>3. State(o)' = State(o)
    BY <2>1 DEF State
  <2> QED
    BY <2>1, <2>2, <2>3, FaultsStay DEF Allowed, IInv
<1>2. ASSUME NEW i \in PGs, OutOfBandPG(i) PROVE Allowed /\ Grows
  <2>1. UNCHANGED obj /\ pg' = [pg EXCEPT ![i] = [state |-> "deleted", members |-> FALSE]]
    BY <1>2 DEF OutOfBandPG, k8sVars
  <2>2. Live' = Live \ {i}
    BY <2>1 DEF Live, LivePG, IInv, Types
  <2>3. State(o)' = State(o)
    BY <2>1 DEF State
  <2>4. Grows
    BY Zenon, <1>2, FaultsGrow DEF OutOfBandPG, Fault, IInv
  <2> QED
    BY <2>2, <2>3, <2>4 DEF Allowed
<1>3. CASE (CacheSync("pg") \/ Wakeup("pg") \/ UserDeletesSecret) /\ UNCHANGED pgVars
  <2>1. UNCHANGED <<obj, pg, faults>>
    BY <1>3 DEF CacheSync, Wakeup, UserDeletesSecret, k8sVars, histVars, pgVars
  <2> QED
    BY <1>g, <2>1, FaultsStay DEF Allowed, IInv
<1>4. CASE Crash /\ UNCHANGED pgVars
  <2>1. UNCHANGED <<obj, pg>> /\ faults' = [k \in {"pg"} |-> faults[k] \cup {"crash"}]
    BY <1>4, <1>k DEF Crash, pgVars
  <2> QED
    BY <2>1 DEF Allowed, Forgotten, Undisturbed
<1>5. CASE UserDelete("pg") /\ UNCHANGED pgVars
  <2> DEFINE u == [o EXCEPT !.deleting = TRUE]
  <2>1. UNCHANGED <<faults, pg>> /\ o.exists /\ ~o.deleting /\ o \in PGObject
        /\ obj' = [obj EXCEPT !["pg"] = Stored(u)]
    BY <1>5 DEF IInv, Types, UserDelete, histVars, pgVars
  <2>2. u \in PGObject /\ u.exists = o.exists /\ u.deleting = TRUE /\ u.finalizers = o.finalizers
    BY Zenon, <2>1, UpdatesPG DEF Like
  <2> HIDE DEF u
  <2>3. obj'["pg"].deleting = TRUE /\ obj'["pg"].exists = ~(o.finalizers = {})
    BY Zenon, <2>1, <2>2, StoredPG DEF IInv, Types
  <2>4. Live' = Live
    BY <2>1 DEF Live, LivePG
  <2>5. o.finalizers = {} => Live = {} \/ Forgotten
    BY DEF IInv, Recorded, Held, Live
  <2>6. State(o) = "present" /\ State(o)' = (IF o.finalizers = {} THEN "gone" ELSE "deleting")
    BY Zenon, <2>1, <2>3 DEF State
  <2> QED
    BY <1>g, <2>1, <2>4, <2>5, <2>6, FaultsStay DEF Allowed, IInv
<1> QED
  BY <1>g, <1>k, <1>1, <1>2, <1>3, <1>4, <1>5 DEF PGEnvironment, Environment

\* The LinodePlacementGroup controller implements ManagedResource (PGImplements), for
\* any number of ids, errors and faults: reconcileCreate makes no second group, and
\* reconcileDelete gives the finalizer up only when no group is left, except after a
\* lost reply, a lost patch, a crash or a reconcile of an outdated copy.
THEOREM PlacementGroupImplements == PGSpec => PGImplements
<1>1. PGInit /\ ReconcilerInit({"pg"}, MaxFaults) => PGResource!Init
  BY PGAssumptions
  DEF PGInit, NoPG, NewPG, ReconcilerInit, Kinds, LivePG, Undisturbed, PGResource!Init
<1>2. ASSUME IInv, IInv', Allowed, Forgotten => Forgotten' PROVE PGResource!Next
  <2> DEFINE o == obj["pg"]
  <2>1. Kinds = {"pg"} /\ Kinds' = {"pg"}
    BY <1>2 DEF Kinds, IInv, Types
  <2>2. PGResource!Disturbed
    BY <1>2, <2>1 DEF PGResource!Disturbed, Forgotten
  <2>3. CASE State(o)' = State(o) /\ Live' = Live
    BY <2>1, <2>2, <2>3 DEF PGResource!Next, State, Live
  <2>4. CASE UNCHANGED <<obj, pg>>
    <3>1. State(o)' = State(o) /\ Live' = Live
      BY <2>4 DEF State, Live, LivePG
    <3> QED
      BY <2>3, <3>1
  <2>5. ASSUME State(o)' = State(o), State(o) # "gone", Live = {}, NEW i \in PGs, Live' = {i}
        PROVE  PGResource!Next
    <3>1. PGResource!Provision(i)
      BY <2>1, <2>5 DEF PGResource!Provision, State, Live
    <3> QED
      BY <2>2, <3>1 DEF PGResource!Next
  <2>6. ASSUME State(o)' = State(o), NEW i \in PGs, Live' = Live \ {i}
        PROVE  PGResource!Next
    <3>1. PGResource!Destroy(i)
      BY <2>1, <2>6 DEF PGResource!Destroy, State, Live
    <3> QED
      BY <2>2, <3>1 DEF PGResource!Next
  <2>7. CASE Live' = Live /\ State(o) = "present" /\ State(o)' = "deleting"
    <3>1. PGResource!Delete
      BY <2>1, <2>7 DEF PGResource!Delete, State, Live
    <3> QED
      BY <2>2, <3>1 DEF PGResource!Next
  <2>8. CASE /\ Live' = Live /\ State(o) = "present" /\ State(o)' = "gone"
             /\ Live = {} \/ Forgotten
    <3>1. PGResource!Delete
      BY <2>1, <2>8 DEF PGResource!Delete, State, Live, Forgotten
    <3> QED
      BY <2>2, <3>1 DEF PGResource!Next
  <2>9. CASE /\ Live' = Live /\ State(o) = "deleting" /\ State(o)' = "gone"
             /\ Live = {} \/ Forgotten
    <3>1. PGResource!Release
      BY <2>1, <2>9 DEF PGResource!Release, State, Live, Forgotten
    <3> QED
      BY <2>2, <3>1 DEF PGResource!Next
  <2> QED
    BY <1>2, <2>3, <2>4, <2>5, <2>6, <2>7, <2>8, <2>9 DEF Allowed
<1>3. IInv /\ IInv' /\ [PGNext]_controllerVars => [PGResource!Next]_(PGResource!vars)
  <2> SUFFICES ASSUME IInv, IInv', [PGNext]_controllerVars PROVE [PGResource!Next]_(PGResource!vars)
    OBVIOUS
  <2>1. CASE PGStep
    BY <2>1, <1>2, StepsAllowed
  <2>2. CASE PGEnvironment \/ (Environment /\ UNCHANGED pgVars)
    BY <2>2, <1>2, EnvironmentAllowed
  <2>3. CASE UNCHANGED controllerVars
    <3>1. UNCHANGED <<obj, pg, faults>>
      BY <2>3 DEF controllerVars, reconcilerVars, k8sVars, histVars, pgVars
    <3> QED
      BY <3>1 DEF PGResource!vars, Kinds, LivePG, Undisturbed
  <2> QED
    BY <2>1, <2>2, <2>3 DEF PGNext
<1> QED
  BY <1>1, <1>3, InvariantHolds, PTL DEF PGSpec, PGImplements, PGResource!Spec

-----------------------------------------------------------------------------
(***************************************************************************)
(* The credentials Secret.                                                 *)
(***************************************************************************)
Holding == "pg" \in secret.held

UpToDate == Undisturbed("pg", {"stale"})

SecretTypes ==
    /\ secret \in [exists: BOOLEAN, deleting: BOOLEAN, held: SUBSET {"pg"}]
    /\ Holding => secret.exists /\ "pg" \in UsesCreds

\* The Secret is taken after the object got its finalizer, and released before the
\* object gives it up.
SecretFirst ==
    /\ Holding => Held(obj["pg"])
    /\ Running /\ Held(base["pg"]) /\ ~Held(scope["pg"]) => ~Holding

\* reconcileCreate looks for a group, and makes one, with the Secret; unless a reconcile
\* starts from an outdated copy, the group that the object names is the one that
\* reconcileDelete looks at, and the Secret is released only when there is none.
SecretForGroup ==
    "pg" \in UsesCreds =>
        /\ pc["pg"] \in {"list", "create"} => Holding
        /\ UpToDate =>
              /\ Running => obj["pg"].id = base["pg"].id
              /\ pc["pg"] \in {"get", "delete"} => scope["pg"].id = base["pg"].id
              /\ pc["pg"] = "release" => ~LivePG(obj["pg"].id)
              /\ LivePG(obj["pg"].id) => Holding
              /\ Running /\ LivePG(scope["pg"].id) => Holding

SecretInv == SecretTypes /\ SecretFirst /\ SecretForGroup

\* At the start the Secret is there and nobody holds it.
LEMMA SecretInitHolds == PGInit /\ ReconcilerInit({"pg"}, MaxFaults) => SecretInv
BY DEF PGInit, NoPG, NewPG, ReconcilerInit, Kinds, SecretInv, SecretTypes, SecretFirst,
       SecretForGroup, Holding, Held, Running, LivePG

\* A step of a reconcile that leaves the Secret and the object alone keeps the
\* invariant, if it does as said here with the copy and the groups.
LEMMA SecretStays ==
  ASSUME SecretInv, Running, Continues, UNCHANGED secret,
         Holding => (Held(scope["pg"]) => Held(scope'["pg"])),
         "pg" \in UsesCreds =>
            /\ pc'["pg"] \in {"list", "create"} => Holding
            /\ UpToDate =>
                  /\ pc'["pg"] \in {"get", "delete"} => scope'["pg"].id = base["pg"].id
                  /\ pc'["pg"] = "release" => ~LivePG(obj["pg"].id)'
                  /\ LivePG(obj["pg"].id)' => Holding
                  /\ LivePG(scope["pg"].id)' => Holding
  PROVE  SecretInv'
<1>1. UNCHANGED <<obj, base>> /\ (UpToDate' => UpToDate)
  BY DEF Continues, Grows, UpToDate, Undisturbed
<1>2. SecretTypes' /\ (Holding' <=> Holding)
  BY DEF SecretInv, SecretTypes, Holding
<1>3. SecretFirst'
  BY <1>1, <1>2 DEF SecretInv, SecretFirst, Running, Held
<1>4. SecretForGroup'
  BY <1>1, <1>2 DEF SecretInv, SecretForGroup
<1> QED
  BY <1>2, <1>3, <1>4 DEF SecretInv

\* reconcileCreate takes the Secret before it looks for a group.
LEMMA SecretCreateSteps ==
  ASSUME IInv, SecretInv,
         SetCredentialRefTokenPG \/ UpdatePG \/ AddCredentialsRefFinalizerPG
         \/ reconcilePlacementGroup \/ CreatePlacementGroup
  PROVE  SecretInv'
<1> DEFINE s == scope["pg"]
<1>c. Running /\ Continues
  BY CreateSteps
<1>s. s \in PGObject /\ scope \in [{"pg"} -> PGObject] /\ pc \in [{"pg"} -> Places]
  BY <1>c DEF IInv, Types, Running
<1>1. CASE SetCredentialRefTokenPG
  <2>1. pc["pg"] = "credentials" /\ UNCHANGED <<secret, scope, pg, obj>>
    BY <1>1 DEF SetCredentialRefTokenPG, AtPG, PGUntouched, k8sVars, pgVars
  <2>2. pc'["pg"] \in {"requeue", "get", "addFinalizer"}
    BY <1>1, <1>s DEF SetCredentialRefTokenPG, Goto
  <2>3. s.id = base["pg"].id
    BY <1>c, <2>1 DEF IInv, Known
  <2> QED
    BY <1>c, <2>1, <2>2, <2>3, SecretStays DEF SecretInv, SecretForGroup, LivePG
<1>2. CASE UpdatePG
  <2>1. UNCHANGED <<secret, pg, obj>> /\ pc'["pg"] = "return"
    BY <1>2, <1>s DEF UpdatePG, PGUntouched, k8sVars, pgVars, Goto
  <2>2. Like([s EXCEPT !.ready = TRUE], s, s.finalizers, s.id)
    BY Zenon, <1>s, UpdatesPG
  <2>3. Like(scope'["pg"], s, s.finalizers, s.id)
    BY <1>2, <1>s, <2>2, CopySet DEF UpdatePG
  <2> QED
    BY <1>c, <2>1, <2>3, SecretStays DEF Like, Held, SecretInv, SecretForGroup, LivePG
<1>3. CASE AddCredentialsRefFinalizerPG
  <2>1. /\ pc["pg"] = "addCredentials" /\ UNCHANGED <<scope, pg, obj>>
        /\ TakeSecret("pg", "list", "requeue")
    BY <1>3 DEF AddCredentialsRefFinalizerPG, AtPG, k8sVars, pgVars
  <2>2. /\ Held(s) /\ Held(obj["pg"])
        /\ pc'["pg"] \in {"list", "requeue"}
    BY <1>c, <1>s, <2>1 DEF IInv, Known, Creating, TakeSecret, Goto
  <2>3. CASE UNCHANGED secret /\ ("pg" \in UsesCreds /\ pc'["pg"] = "list" => Holding)
    BY <1>c, <2>1, <2>2, <2>3, SecretStays DEF SecretInv, SecretForGroup, LivePG
  <2>4. CASE /\ "pg" \in UsesCreds /\ secret.exists
             /\ secret' = [secret EXCEPT !.held = @ \cup {"pg"}]
    <3>1. SecretTypes' /\ Holding'
      BY <2>4 DEF SecretInv, SecretTypes, Holding
    <3>2. SecretFirst'
      BY <2>1, <2>2 DEF SecretFirst, Held
    <3>3. UNCHANGED base /\ (UpToDate' => UpToDate)
      BY <1>c DEF Continues, Grows, UpToDate, Undisturbed
    <3>4. SecretForGroup'
      BY <1>c, <2>1, <2>2, <3>1, <3>3 DEF SecretInv, SecretForGroup
    <3> QED
      BY <3>1, <3>2, <3>4 DEF SecretInv
  <2> QED
    BY <1>s, <2>1, <2>3, <2>4 DEF TakeSecret, Holding, Goto
<1>4. CASE reconcilePlacementGroup
  <2>1. pc["pg"] = "list" /\ UNCHANGED <<secret, pg, obj>>
    BY Zenon, <1>4 DEF reconcilePlacementGroup, AtPG, PGUntouched, k8sVars, pgVars
  <2>2. Held(scope'["pg"])
    BY <1>c, <2>1 DEF Continues, IInv, Known, Creating
  <2>3. pc'["pg"] \in {"return", "create", "requeue"}
    BY <1>4, <1>s DEF reconcilePlacementGroup, Goto
  <2> QED
    BY <1>c, <2>1, <2>2, <2>3, SecretStays DEF SecretInv, SecretForGroup
<1>5. CASE CreatePlacementGroup
  <2>1. pc["pg"] = "create" /\ UNCHANGED <<secret, obj>>
    BY Zenon, <1>5 DEF CreatePlacementGroup, AtPG, PGUntouched, k8sVars
  <2>2. Held(scope'["pg"])
    BY <1>c, <2>1 DEF Continues, IInv, Known, Creating
  <2>3. pc'["pg"] \in {"return", "requeue"}
    BY <1>5, <1>s DEF CreatePlacementGroup, Goto
  <2> QED
    BY <1>c, <2>1, <2>2, <2>3, SecretStays DEF SecretInv, SecretForGroup
<1> QED
  BY <1>1, <1>2, <1>3, <1>4, <1>5

\* reconcileDelete releases the Secret when the group that the object names is gone.
LEMMA SecretDeleteSteps ==
  ASSUME IInv, SecretInv,
         GetPlacementGroup \/ DeletePlacementGroup \/ RemoveCredentialsRefFinalizerPG
  PROVE  SecretInv'
<1> DEFINE s == scope["pg"]
<1>c. Running /\ Continues
  BY DeleteSteps
<1>s. /\ s \in PGObject /\ scope \in [{"pg"} -> PGObject] /\ pc \in [{"pg"} -> Places]
      /\ pg \in [PGs -> Group] /\ obj["pg"] \in PGObject
  BY <1>c DEF IInv, Types, Running
<1>n. ASSUME Set("pg", [s EXCEPT !.id = None]) PROVE Like(scope'["pg"], s, s.finalizers, None)
  <2>1. Like([s EXCEPT !.id = None], s, s.finalizers, None)
    BY Zenon, <1>s, UpdatesPG
  <2> QED
    BY <1>n, <1>s, <2>1, CopySet
<1>1. CASE GetPlacementGroup
  <2>1. pc["pg"] = "get" /\ UNCHANGED <<secret, pg, obj>>
    BY <1>1 DEF GetPlacementGroup, AtPG, PGUntouched, k8sVars
  <2>2. CASE pc'["pg"] \in {"delete", "requeue"} /\ UNCHANGED scope
    BY <1>c, <2>1, <2>2, SecretStays DEF SecretInv, SecretForGroup, LivePG
  <2>3. CASE ~LivePG(s.id) /\ Set("pg", [s EXCEPT !.id = None]) /\ pc'["pg"] = "release"
    BY <1>c, <1>n, <2>1, <2>3, SecretStays DEF Like, Held, SecretInv, SecretForGroup, LivePG
  <2> QED
    BY <1>1, <1>s, <2>2, <2>3 DEF GetPlacementGroup, Goto
<1>2. CASE DeletePlacementGroup
  <2>1. pc["pg"] = "delete" /\ UNCHANGED <<secret, obj>>
    BY <1>2 DEF DeletePlacementGroup, AtPG, PGUntouched, k8sVars
  <2>2. \A i : LivePG(i)' => LivePG(i)
    <3>1. LivePG(s.id) => s.id \in PGs
      BY <1>s DEF LivePG, PGObject
    <3>2. ASSUME s.id \in PGs, pg' = [pg EXCEPT ![s.id] = [state |-> "deleted", members |-> FALSE]],
                 NEW i, LivePG(i)'
          PROVE  LivePG(i)
      BY <1>s, <3>2 DEF LivePG
    <3> QED
      BY <1>2, <3>1, <3>2 DEF DeletePlacementGroup, LivePG
  <2>3. CASE pc'["pg"] = "requeue" /\ UNCHANGED scope
    BY <1>c, <2>1, <2>2, <2>3, SecretStays DEF SecretInv, SecretForGroup
  <2>4. CASE /\ s.id # None => pg'[s.id].state # "live"
             /\ Set("pg", [s EXCEPT !.id = None]) /\ pc'["pg"] = "release"
    <3>1. Like(scope'["pg"], s, s.finalizers, None)
      BY <1>n, <2>4
    <3>2. "pg" \in UsesCreds /\ UpToDate => s.id = obj["pg"].id
      BY <1>c, <2>1 DEF SecretInv, SecretForGroup
    <3> QED
      BY <1>c, <2>1, <2>2, <2>4, <3>1, <3>2, SecretStays DEF Like, Held, LivePG
  <2>5. LivePG(s.id) /\ pg' = [pg EXCEPT ![s.id] = [state |-> "deleted", members |-> FALSE]]
           => pg'[s.id].state # "live"
    BY <1>s DEF LivePG, PGObject
  <2> QED
    BY <1>2, <1>s, <2>3, <2>4, <2>5 DEF DeletePlacementGroup, Goto, LivePG
<1>3. CASE RemoveCredentialsRefFinalizerPG
  <2>1. pc["pg"] = "release" /\ UNCHANGED <<obj, base, pg>> /\ (UpToDate' => UpToDate)
    BY <1>3, <1>c
    DEF RemoveCredentialsRefFinalizerPG, AtPG, k8sVars, pgVars, Continues, Grows, UpToDate, Undisturbed
  <2>2. CASE pc'["pg"] = "requeue" /\ UNCHANGED <<scope, secret>>
    BY <1>c, <2>1, <2>2, SecretStays DEF SecretInv, SecretForGroup, LivePG
  <2>3. CASE /\ secret' = IF "pg" \in UsesCreds THEN Released("pg") ELSE secret
             /\ Set("pg", [s EXCEPT !.finalizers = @ \ {"pg"}])
             /\ pc'["pg"] = "return"
    <3>1. Like([s EXCEPT !.finalizers = @ \ {"pg"}], s, {}, s.id)
      BY Zenon, <1>s, UpdatesPG
    <3>2. Like(scope'["pg"], s, {}, None)
      BY <1>c, <1>s, <2>1, <2>3, <3>1, CopySet DEF IInv, Known
    <3>3. SecretTypes' /\ ~Holding'
      <4>1. CASE "pg" \notin UsesCreds
        BY <2>3, <4>1 DEF SecretInv, SecretTypes, Holding
      <4>2. CASE "pg" \in UsesCreds
        <5>1. /\ secret' \in [exists: BOOLEAN, deleting: BOOLEAN, held: SUBSET {"pg"}]
              /\ secret'.held = secret.held \ {"pg"}
          BY <2>3, <4>2 DEF SecretInv, SecretTypes, Released
        <5> QED
          BY <5>1 DEF SecretTypes, Holding
      <4> QED
        BY <4>1, <4>2
    <3>4. SecretFirst'
      BY <3>3 DEF SecretFirst
    <3>5. SecretForGroup'
      BY <1>c, <2>1, <2>3, <3>2 DEF Like, SecretInv, SecretForGroup, LivePG
    <3> QED
      BY <3>3, <3>4, <3>5 DEF SecretInv
  <2> QED
    BY <1>3, <1>s, <2>2, <2>3 DEF RemoveCredentialsRefFinalizerPG, ReleaseSecret, Goto
<1> QED
  BY <1>1, <1>2, <1>3

\* A reconcile starts with a copy that is up to date, or is noted as outdated.
LEMMA SecretBegin == IInv /\ SecretInv /\ ReconcilePG => SecretInv'
<1> SUFFICES ASSUME IInv, SecretInv, ReconcilePG PROVE SecretInv'
  OBVIOUS
<1> DEFINE c == seen["pg"]
<1>1. pc["pg"] = "idle" /\ UNCHANGED <<obj, seen, pg, secret>> /\ Types /\ c \in PGObject
  BY DEF ReconcilePG, Begin, IInv, Types
<1>2. CASE ~c.exists
  <2>1. UNCHANGED <<obj, pc, scope, base, faults, pg, secret>>
    BY <1>1, <1>2 DEF ReconcilePG, Begin, ctrlVars, histVars
  <2> QED
    BY <2>1 DEF SecretInv, SecretTypes, SecretFirst, SecretForGroup, Holding, Running, LivePG,
                UpToDate, Undisturbed
<1>3. CASE c.exists
  <2>1. /\ Goto("pg", "credentials")
        /\ base' = [base EXCEPT !["pg"] = c]
        /\ Set("pg", [c EXCEPT !.ready = @ /\ ~TRUE])
        /\ IF c = obj["pg"] THEN UNCHANGED histVars ELSE Fault("pg", "stale")
    BY <1>3 DEF ReconcilePG, Begin
  <2>2. pc'["pg"] = "credentials" /\ base'["pg"] = c
    BY <1>1, <2>1 DEF Goto, Types
  <2>3. Like([c EXCEPT !.ready = @ /\ ~TRUE], c, c.finalizers, c.id)
    BY Zenon, <1>1, UpdatesPG
  <2>4. Like(scope'["pg"], c, c.finalizers, c.id)
    BY <1>1, <2>1, <2>3 DEF Set, Like, Types
  <2>5. Grows /\ (c = obj["pg"] \/ ~UpToDate')
    BY <1>1, <2>1, FaultsStay, FaultsGrow DEF Fault, UpToDate, Undisturbed
  <2>6. UpToDate' => UpToDate
    BY <2>5 DEF UpToDate, Undisturbed, Grows
  <2>7. SecretTypes' /\ (Holding' <=> Holding)
    BY <1>1 DEF SecretInv, SecretTypes, Holding
  <2>8. SecretFirst'
    BY <1>1, <2>2, <2>4, <2>7 DEF SecretInv, SecretFirst, Like, Held
  <2>9. SecretForGroup'
    BY <1>1, <2>2, <2>4, <2>5, <2>6, <2>7 DEF SecretInv, SecretForGroup, Like, LivePG
  <2> QED
    BY <2>7, <2>8, <2>9 DEF SecretInv
<1> QED
  BY <1>2, <1>3

\* AddFinalizer stores nothing but the finalizer.
LEMMA SecretAddFinalizer == IInv /\ SecretInv /\ AddFinalizerPG => SecretInv'
<1> SUFFICES ASSUME IInv, SecretInv, AddFinalizerPG PROVE SecretInv'
  OBVIOUS
<1> DEFINE s == scope["pg"]
           b == base["pg"]
           o == obj["pg"]
           t == [s EXCEPT !.finalizers = @ \cup {"pg"}]
           p == Patched(o, b, t, PatchParts)
<1>1. /\ Running /\ Types /\ pc["pg"] = "addFinalizer"
      /\ s \in PGObject /\ b \in PGObject /\ o \in PGObject
      /\ scope \in [{"pg"} -> PGObject]
      /\ s.deleting = b.deleting /\ s.exists = b.exists
      /\ s.finalizers = b.finalizers /\ s.id = b.id
      /\ UNCHANGED <<base, pg, secret>>
  BY DEF AddFinalizerPG, PatchFinalizer, AtPG, IInv, Types, Known, Running, Creating, pgVars
<1>2. Like(t, s, {"pg"}, s.id)
  BY Zenon, <1>1, UpdatesPG
<1> HIDE DEF t
<1>3. Like(scope'["pg"], s, {"pg"}, s.id)
  BY <1>1, <1>2, CopySet DEF AddFinalizerPG, PatchFinalizer, t
<1>4. UpToDate' => UpToDate
  BY <1>1, FaultsStay DEF AddFinalizerPG, PatchFinalizer, UpToDate, Undisturbed, Grows
<1>5. UNCHANGED obj \/ obj' = [obj EXCEPT !["pg"] = p]
  BY DEF AddFinalizerPG, PatchFinalizer, t
<1>6. IsPatch(p, o, b, t, PatchParts)
  BY <1>1, <1>2, PatchedPG DEF Like
<1> HIDE DEF p
<1>7. obj'["pg"].id = o.id /\ (Held(o) => Held(obj'["pg"]))
  BY <1>1, <1>2, <1>5, <1>6 DEF IsPatch, Like, Held, Types
<1>8. pc'["pg"] \in {"update", "addCredentials", "requeue"}
  BY <1>1 DEF AddFinalizerPG, PatchFinalizer, Goto, Types
<1>9. SecretTypes' /\ (Holding' <=> Holding)
  BY <1>1 DEF SecretInv, SecretTypes, Holding
<1>10. SecretFirst'
  BY <1>3, <1>7, <1>9 DEF SecretInv, SecretFirst, Like, Held
<1>11. SecretForGroup'
  BY <1>1, <1>3, <1>4, <1>7, <1>8, <1>9 DEF SecretInv, SecretForGroup, Like, LivePG
<1> QED
  BY <1>9, <1>10, <1>11 DEF SecretInv

\* Close gives the finalizer of the object up only after the Secret was released.
LEMMA SecretClose == IInv /\ SecretInv /\ ClosePG => SecretInv'
<1> SUFFICES ASSUME IInv, SecretInv, ClosePG PROVE SecretInv'
  OBVIOUS
<1> DEFINE s == scope["pg"]
           b == base["pg"]
           o == obj["pg"]
<1>1. /\ Running /\ UNCHANGED <<pg, secret>> /\ Grows /\ ~Running'
      /\ pc'["pg"] = "idle"
  BY CloseStores DEF Running, ClosePG, ClosePatch
<1>2. UpToDate' => UpToDate
  BY <1>1 DEF UpToDate, Undisturbed, Grows
<1>3. SecretTypes' /\ (Holding' <=> Holding)
  BY <1>1 DEF SecretInv, SecretTypes, Holding
<1>4. obj'["pg"].id \in {o.id, s.id} /\ (Holding => Held(obj'["pg"]))
  <2>1. CASE UNCHANGED obj
    BY <2>1 DEF SecretInv, SecretFirst
  <2>2. ASSUME NEW parts, NEW p, IsPatch(p, o, b, s, parts),
               obj' = [obj EXCEPT !["pg"] = Stored(p)]
        PROVE  obj'["pg"].id \in {o.id, s.id} /\ (Holding => Held(obj'["pg"]))
    <3>1. obj'["pg"].id = p.id /\ obj'["pg"].finalizers = p.finalizers
      BY Zenon, <2>2, StoredPG DEF IsPatch, IInv, Types
    <3>2. s \in PGObject /\ b \in PGObject
      BY <1>1 DEF IInv, Types
    <3>3. ASSUME Holding PROVE Held(p)
      <4>1. Held(o) /\ (Held(b) => Held(s))
        BY <1>1, <3>3 DEF SecretInv, SecretFirst
      <4>2. Held(s) \/ b.finalizers = s.finalizers
        BY <4>1, <3>2 DEF Held, PGObject
      <4> QED
        BY <2>2, <4>1, <4>2 DEF IsPatch, Held
    <3> QED
      BY <2>2, <3>1, <3>3 DEF IsPatch, Held
  <2> QED
    BY <2>1, <2>2, CloseStores
<1>5. SecretFirst'
  BY <1>1, <1>3, <1>4 DEF SecretFirst
<1>6. SecretForGroup'
  BY <1>1, <1>2, <1>3, <1>4 DEF SecretInv, SecretForGroup, LivePG
<1> QED
  BY <1>3, <1>5, <1>6 DEF SecretInv

\* What happens around the controller: a Secret that is held outlives its deletion.
LEMMA SecretEnvironment ==
  IInv /\ SecretInv /\ (PGEnvironment \/ (Environment /\ UNCHANGED pgVars)) => SecretInv'
<1> SUFFICES ASSUME IInv, SecretInv, PGEnvironment \/ (Environment /\ UNCHANGED pgVars)
             PROVE  SecretInv'
  OBVIOUS
<1>k. Kinds = {"pg"}
  BY DEF Kinds, IInv, Types
<1>t. /\ obj \in [{"pg"} -> PGObject] /\ pg \in [PGs -> Group]
      /\ faults \in [{"pg"} -> SUBSET Faults]
  BY DEF IInv, Types
<1>1. ASSUME NEW i \in PGs, Join(i) \/ Leave(i) \/ OutOfBandPG(i)
      PROVE  SecretInv'
  <2>1. UNCHANGED <<obj, pc, scope, base, secret>>
    BY <1>1 DEF Join, Leave, OutOfBandPG, reconcilerVars, k8sVars, ctrlVars
  <2>2. Grows
    BY <1>1, FaultsGrow, FaultsStay
    DEF IInv, Join, Leave, OutOfBandPG, reconcilerVars, histVars, Fault
  <2>3. \A j : LivePG(j)' => LivePG(j)
    <3>1. CASE OutOfBandPG(i)
      <4>1. pg' = [pg EXCEPT ![i] = [state |-> "deleted", members |-> FALSE]]
        BY <3>1 DEF OutOfBandPG
      <4> QED
        BY <1>t, <4>1 DEF LivePG
    <3>2. CASE Join(i) \/ Leave(i)
      <4>1. PICK x \in BOOLEAN : pg' = [pg EXCEPT ![i].members = x]
        BY Zenon, <3>2 DEF Join, Leave
      <4>2. [pg[i] EXCEPT !.members = x].state = pg[i].state
        BY <1>t DEF Group
      <4> QED
        BY <1>t, <4>1, <4>2 DEF LivePG
    <3> QED
      BY <1>1, <3>1, <3>2
  <2>4. UpToDate' => UpToDate
    BY <2>2 DEF UpToDate, Undisturbed, Grows
  <2>5. SecretTypes' /\ SecretFirst' /\ (Holding' <=> Holding)
    BY <2>1 DEF SecretInv, SecretTypes, SecretFirst, Holding, Running, Held
  <2>6. SecretForGroup'
    BY <2>1, <2>3, <2>4, <2>5 DEF SecretInv, SecretForGroup, Running
  <2> QED
    BY <2>5, <2>6 DEF SecretInv
<1>2. CASE (CacheSync("pg") \/ Wakeup("pg")) /\ UNCHANGED pgVars
  <2>1. UNCHANGED <<obj, pc, scope, base, faults, pg, secret>>
    BY <1>2 DEF CacheSync, Wakeup, ctrlVars, histVars, pgVars
  <2> QED
    BY <2>1 DEF SecretInv, SecretTypes, SecretFirst, SecretForGroup, Holding, Held, Running,
                LivePG, UpToDate, Undisturbed
<1>3. CASE UserDeletesSecret /\ UNCHANGED pgVars
  <2>1. UNCHANGED <<obj, pc, scope, base, faults, pg>>
    BY <1>3 DEF UserDeletesSecret, k8sVars, ctrlVars, pgVars
  <2>2. SecretTypes' /\ (Holding' <=> Holding)
    BY <1>3 DEF UserDeletesSecret, SecretInv, SecretTypes, Holding
  <2>3. SecretFirst' /\ SecretForGroup'
    BY <2>1, <2>2 DEF SecretInv, SecretFirst, SecretForGroup, Held, Running, LivePG,
                      UpToDate, Undisturbed
  <2> QED
    BY <2>2, <2>3 DEF SecretInv
<1>4. CASE UserDelete("pg") /\ UNCHANGED pgVars
  <2> DEFINE o == obj["pg"]
             u == [o EXCEPT !.deleting = TRUE]
  <2>1. UNCHANGED <<pc, scope, base, faults, pg, secret>> /\ obj' = [obj EXCEPT !["pg"] = Stored(u)]
    BY <1>4 DEF UserDelete, ctrlVars, histVars, pgVars
  <2>2. u \in PGObject /\ u.finalizers = o.finalizers /\ u.id = o.id
    BY Zenon, <1>t, UpdatesPG DEF Like
  <2> HIDE DEF u
  <2>3. obj'["pg"].finalizers = o.finalizers /\ obj'["pg"].id = o.id
    BY Zenon, <1>t, <2>1, <2>2, StoredPG
  <2>4. SecretTypes' /\ (Holding' <=> Holding)
    BY <2>1 DEF SecretInv, SecretTypes, Holding
  <2>5. SecretFirst' /\ SecretForGroup'
    BY <2>1, <2>3, <2>4 DEF SecretInv, SecretFirst, SecretForGroup, Held, Running, LivePG,
                            UpToDate, Undisturbed
  <2> QED
    BY <2>4, <2>5 DEF SecretInv
<1>5. CASE Crash /\ UNCHANGED pgVars
  <2>1. /\ UNCHANGED <<obj, pg, secret>> /\ pc'["pg"] = "idle"
        /\ faults' = [k \in {"pg"} |->
                         IF pc[k] = "idle" THEN faults[k] ELSE faults[k] \cup {"crash"}]
    BY <1>5, <1>k DEF Crash, pgVars
  <2>2. UpToDate' => UpToDate
    BY <1>t, <2>1 DEF UpToDate, Undisturbed
  <2>3. SecretTypes' /\ (Holding' <=> Holding)
    BY <2>1 DEF SecretInv, SecretTypes, Holding
  <2>4. SecretFirst' /\ SecretForGroup'
    BY <2>1, <2>2, <2>3 DEF SecretInv, SecretFirst, SecretForGroup, Held, Running, LivePG
  <2> QED
    BY <2>3, <2>4 DEF SecretInv
<1> QED
  BY <1>k, <1>1, <1>2, <1>3, <1>4, <1>5 DEF PGEnvironment, Environment

\* The Secret with the token is held for as long as the object names a group that
\* exists (PGCredentials), whatever call fails and whenever the controller dies, unless
\* a reconcile starts from an outdated copy; and no object goes without releasing it
\* (SecretReleased): reconcileCreate takes it after the object's own finalizer and
\* before the group, reconcileDelete gives it back after the group and before the
\* object's finalizer.
THEOREM CredentialsHeldForGroup == PGSpec => [](PGCredentials /\ SecretReleased)
<1>1. IInv /\ SecretInv /\ [PGNext]_controllerVars => SecretInv'
  <2> SUFFICES ASSUME IInv, SecretInv, [PGNext]_controllerVars PROVE SecretInv'
    OBVIOUS
  <2>1. CASE PGStep
    BY <2>1, SecretCreateSteps, SecretDeleteSteps, SecretBegin, SecretAddFinalizer, SecretClose
    DEF PGStep
  <2>2. CASE PGEnvironment \/ (Environment /\ UNCHANGED pgVars)
    BY <2>2, SecretEnvironment
  <2>3. CASE UNCHANGED controllerVars
    <3>1. UNCHANGED <<obj, pc, scope, base, faults, pg, secret>>
      BY <2>3 DEF controllerVars, reconcilerVars, k8sVars, ctrlVars, histVars, pgVars
    <3> QED
      BY <3>1 DEF SecretInv, SecretTypes, SecretFirst, SecretForGroup, Holding, Held, Running,
                  LivePG, UpToDate, Undisturbed
  <2> QED
    BY <2>1, <2>2, <2>3 DEF PGNext
<1>2. IInv /\ SecretInv => PGCredentials /\ SecretReleased
  <2> SUFFICES ASSUME IInv, SecretInv PROVE PGCredentials /\ SecretReleased
    OBVIOUS
  <2>1. Kinds = {"pg"}
    BY DEF Kinds, IInv, Types
  <2>2. PGCredentials
    BY DEF SecretInv, SecretForGroup, SecretTypes, PGCredentials, Holding, UpToDate
  <2>3. SecretReleased
    BY <2>1 DEF IInv, Kept, SecretInv, SecretFirst, SecretReleased, Holding
  <2> QED
    BY <2>2, <2>3
<1> QED
  BY <1>1, <1>2, SecretInitHolds, InvariantHolds, PTL DEF PGSpec

=============================================================================
