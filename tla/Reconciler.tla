----------------------------- MODULE Reconciler -----------------------------
(***************************************************************************)
(* What the controllers of the smaller resources share: LinodeVPC,         *)
(* LinodePlacementGroup, LinodeFirewall, LinodeObjectStorageKey and        *)
(* LinodeObjectStorageBucket.  A reconcile copies the object from the      *)
(* informer cache into a scope, works on the copy one API call at a time   *)
(* and writes the difference back when it ends (Close of cloud/scope).     *)
(* The modules of the controllers extend this one with their own state and *)
(* steps; an object is named by its kind, since each controller is checked *)
(* with one object of its kind.                                            *)
(***************************************************************************)
EXTENDS Naturals, FiniteSets

CONSTANTS
    None,           \* a nil pointer
    UsesCreds,      \* the objects whose spec names a credentials Secret
    ErrorKinds,     \* API errors that may happen: "transient", "fatal"
    FaultKinds,     \* faults that may happen: see Faults
    MaxFaults       \* bound on errors, faults, out-of-band changes and Cluster events together

\* "lostReply": a request is served but the client gets an error; "lostPatch":
\* some of the requests of a patch fail; "crash": the controller dies; "stale":
\* a reconcile reads an outdated copy from the cache; "overlap": the user edits
\* the object while a reconcile of it runs; "outOfBand": someone changes the
\* resource without the controller; "lostEvent": an event is not mapped to the
\* object it concerns; "dropped": a reconcile fails and is not tried again;
\* "adoptedOld": a resource is adopted although it is not as the spec wants it;
\* "nested": the user edits an AddressSet that only a FirewallRule refers to;
\* "keptSecret": the object goes without releasing its Secret; "leaked": an
\* access key is left behind; "noKey", "noSecret": a LinodeObjectStorageKey is
\* deleted that has no access key, or whose Secret is missing.
Faults ==
    {"lostReply", "lostPatch", "crash", "stale", "overlap", "outOfBand", "lostEvent",
     "dropped", "adoptedOld", "nested", "keptSecret", "leaked", "noKey", "noSecret"}

ASSUME ReconcilerAssumptions ==
    /\ ErrorKinds \subseteq {"transient", "fatal"}
    /\ FaultKinds \subseteq Faults
    /\ MaxFaults \in Nat

VARIABLES
    obj,        \* the objects as stored by the Kubernetes API server, by kind
    seen,       \* the controllers' cached copies of them
    unseen,     \* objects with an undelivered update event that passes the event filter
    queue,      \* the controllers' work queues
    pc,         \* where the reconcile of an object is
    base,       \* the patch helper's copy, taken when the reconcile started
    scope,      \* the copy the reconcile works on
    secret,     \* the credentials Secret and the objects that hold a finalizer on it
    faults,     \* history: the faults that hit each object
    budget      \* how many more errors, faults and out-of-band changes may happen

Kinds == DOMAIN obj

k8sVars == <<obj, seen, unseen, queue>>
ctrlVars == <<pc, base, scope>>
histVars == <<faults, budget>>
reconcilerVars == <<k8sVars, ctrlVars, secret, histVars>>

\* An object is a record with the fields exists, deleting, finalizers and ready
\* and those of its kind; these belong to the status.
StatusFields == {"ready", "key", "last"}

ReconcilerInit(q, n) ==
    /\ seen = obj
    /\ unseen = {}
    /\ queue = q
    /\ pc = [k \in Kinds |-> "idle"]
    /\ base = [k \in Kinds |-> None]
    /\ scope = [k \in Kinds |-> None]
    /\ secret = [exists |-> TRUE, deleting |-> FALSE, held |-> {}]
    /\ faults = [k \in Kinds |-> {}]
    /\ budget = n

\* The part of the type invariant that does not depend on the kind.
ReconcilerTypeOK ==
    /\ unseen \subseteq Kinds
    /\ queue \subseteq Kinds
    /\ DOMAIN pc = Kinds
    /\ \A k \in Kinds : (pc[k] = "idle") <=> (scope[k] = None)
    /\ secret \in [exists: BOOLEAN, deleting: BOOLEAN, held: SUBSET Kinds]
    /\ faults \in [Kinds -> SUBSET Faults]
    /\ budget \in 0..MaxFaults

-----------------------------------------------------------------------------
(***************************************************************************)
(* Control flow of a reconcile.                                            *)
(***************************************************************************)
Goto(k, l) == pc' = [pc EXCEPT ![k] = l]

Set(k, o) == scope' = [scope EXCEPT ![k] = o]

Spend == budget > 0 /\ budget' = budget - 1

Fault(k, f) ==
    /\ f \in FaultKinds /\ Spend
    /\ faults' = [faults EXCEPT ![k] = @ \cup {f}]

\* What the code does is noted, without being a fault of its surroundings.
Note(k, f) == faults' = [faults EXCEPT ![k] = @ \cup {f}]

\* An API call fails and changes nothing.
CallFails == ErrorKinds # {} /\ Spend /\ UNCHANGED faults

\* ... and the code's answer to the error is noted.
CallFailsNoting(k, f) == ErrorKinds # {} /\ Spend /\ Note(k, f)

Undisturbed(k, fs) == faults[k] \cap fs = {}

\* The reconcile starts from the cached copy; most kinds reset Status.Ready.
Begin(k, first, reset) ==
    /\ pc[k] = "idle" /\ k \in queue
    /\ queue' = queue \ {k}
    /\ IF seen[k].exists
       THEN /\ Goto(k, first)
            /\ base' = [base EXCEPT ![k] = seen[k]]
            /\ Set(k, [seen[k] EXCEPT !.ready = @ /\ ~reset])
            /\ IF seen[k] = obj[k] THEN UNCHANGED histVars ELSE Fault(k, "stale")
       ELSE UNCHANGED <<ctrlVars, histVars>>
    /\ UNCHANGED <<obj, seen, unseen, secret>>

\* The token is read from the Secret that the spec names, if it names one.
TokenAvailable(k) == k \in UsesCreds => secret.exists

\* addCredentialsFinalizer: updates the Secret; one that is being deleted
\* takes no new finalizer.
TakeSecret(k, next, failed) ==
    \/ /\ k \notin UsesCreds \/ k \in secret.held
       /\ Goto(k, next)
       /\ UNCHANGED <<secret, histVars>>
    \/ /\ k \in UsesCreds /\ secret.exists /\ ~secret.deleting
       /\ secret' = [secret EXCEPT !.held = @ \cup {k}]
       /\ Goto(k, next)
       /\ UNCHANGED histVars
    \/ /\ k \in UsesCreds /\ k \notin secret.held
       /\ IF secret.exists /\ ~secret.deleting THEN CallFails ELSE UNCHANGED histVars
       /\ Goto(k, failed)
       /\ UNCHANGED secret

\* removeCredentialsFinalizer: a Secret that is gone is as good as released.
Released(k) ==
    [secret EXCEPT !.held = @ \ {k},
                   !.exists = @ /\ ~(secret.deleting /\ secret.held \subseteq {k})]

ReleaseSecret(k, next, s) ==
    \/ /\ secret' = IF k \in UsesCreds THEN Released(k) ELSE secret
       /\ Goto(k, next)
       /\ Set(k, s)
       /\ UNCHANGED histVars
    \/ /\ k \in UsesCreds /\ secret.exists
       /\ CallFails
       /\ Goto(k, "requeue")
       /\ UNCHANGED <<secret, scope>>

-----------------------------------------------------------------------------
(***************************************************************************)
(* The patch helper sends the fields that differ between its copy and the  *)
(* scope, in two requests: the object (metadata and spec) and the status.  *)
(* A list is sent as a whole.                                              *)
(***************************************************************************)
PatchParts == {"object", "status"}

PartOf(f) == IF f \in StatusFields THEN "status" ELSE "object"

Patched(o, b, s, parts) ==
    [f \in DOMAIN o |-> IF PartOf(f) \in parts /\ b[f] # s[f] THEN s[f] ELSE o[f]]

\* An object that is being deleted goes away with its last finalizer.
Stored(o) ==
    IF o.deleting /\ o.finalizers = {} THEN [o EXCEPT !.exists = FALSE, !.ready = FALSE] ELSE o

\* The API server takes no new finalizer for an object that is being deleted.
Accepted(o, p) == o.deleting => p.finalizers \subseteq o.finalizers

\* The generation grows when the spec changes or the deletion is requested; the
\* event of an object that goes is not filtered.  AnnotationChangedPredicate does
\* not concern the modelled fields.
GenerationChanged(o, p) ==
    \E f \in DOMAIN o \ (StatusFields \cup {"finalizers"}) : o[f] # p[f]

\* The event of a request reaches the cache, and the queue if it passes the
\* controller's filter.
Announce(k, passes) == unseen' = IF passes THEN unseen \cup {k} ELSE unseen

\* The deferred Close; a patch of an object that is gone is ignored.
ClosePatch(k) ==
    LET Finish(parts) ==
            obj' = [obj EXCEPT ![k] = Stored(Patched(obj[k], base[k], scope[k], parts))]
        accepted == Accepted(obj[k], Patched(obj[k], base[k], scope[k], PatchParts))
        Requeue == queue' = queue \cup {k}
        Requested == IF pc[k] = "requeue" THEN Requeue ELSE UNCHANGED queue
    IN
    /\ pc[k] \in {"return", "requeue"}
    /\ Goto(k, "idle")
    /\ scope' = [scope EXCEPT ![k] = None]
    /\ base' = [base EXCEPT ![k] = None]
    /\ \/ /\ ~obj[k].exists
          /\ Requested
          /\ UNCHANGED <<obj, histVars>>
       \/ /\ obj[k].exists
          /\ IF accepted
             THEN Finish(PatchParts) /\ Requested
             ELSE Finish({"status"}) /\ Requeue
          /\ UNCHANGED histVars
       \/ /\ obj[k].exists
          /\ \E parts \in {{}, {"object"}, {"status"}} :
                /\ "object" \in parts => accepted
                /\ Finish(parts)
          /\ Fault(k, "lostPatch")
          /\ Requeue
    /\ UNCHANGED <<seen, secret>>

\* AddFinalizer of a scope: the finalizer is stored at once with a patch of
\* its own, before anything is created.
PatchFinalizer(k, next, failed) ==
    LET s == [scope[k] EXCEPT !.finalizers = @ \cup {k}]
        p == Patched(obj[k], base[k], s, PatchParts)
    IN
    /\ Set(k, s)
    /\ \/ /\ k \in scope[k].finalizers
          /\ Goto(k, next)
          /\ UNCHANGED <<obj, histVars>>
       \/ /\ k \notin scope[k].finalizers
          /\ obj[k].exists /\ Accepted(obj[k], p)
          /\ obj' = [obj EXCEPT ![k] = p]
          /\ Goto(k, next)
          /\ UNCHANGED histVars
       \/ /\ k \notin scope[k].finalizers
          /\ IF obj[k].exists /\ Accepted(obj[k], p) THEN CallFails ELSE UNCHANGED histVars
          /\ Goto(k, failed)
          /\ UNCHANGED obj
    /\ UNCHANGED <<seen, queue, base, secret>>

-----------------------------------------------------------------------------
(***************************************************************************)
(* What happens around the controllers.                                    *)
(***************************************************************************)
\* The informer delivers what it has not delivered yet.
CacheSync(k) ==
    /\ seen[k] # obj[k]
    /\ seen' = [seen EXCEPT ![k] = obj[k]]
    /\ unseen' = unseen \ {k}
    /\ queue' = IF k \in unseen THEN queue \cup {k} ELSE queue
    /\ UNCHANGED <<obj, ctrlVars, secret, histVars>>

\* The manager dies; the next one lists all objects and queues them.
Crash ==
    /\ "crash" \in FaultKinds /\ Spend
    /\ \E k \in Kinds : pc[k] # "idle"
    /\ faults' = [k \in Kinds |->
                     IF pc[k] = "idle" THEN faults[k] ELSE faults[k] \cup {"crash"}]
    /\ pc' = [k \in Kinds |-> "idle"]
    /\ scope' = [k \in Kinds |-> None]
    /\ base' = [k \in Kinds |-> None]
    /\ seen' = obj
    /\ unseen' = {}
    /\ queue' = {k \in Kinds : obj[k].exists}
    /\ UNCHANGED <<obj, secret>>

\* An event of the watched Cluster; how many there are is bounded with the faults.
Wakeup(k) ==
    /\ k \notin queue
    /\ Spend
    /\ queue' = queue \cup {k}
    /\ UNCHANGED <<obj, seen, unseen, ctrlVars, secret, faults>>

UserDelete(k) ==
    /\ obj[k].exists /\ ~obj[k].deleting
    /\ obj' = [obj EXCEPT ![k] = Stored([@ EXCEPT !.deleting = TRUE])]
    /\ unseen' = unseen \cup {k}
    /\ UNCHANGED <<seen, queue, ctrlVars, secret, histVars>>

\* Nothing but the finalizers protects the Secret; without one its deletion is
\* bounded with the faults.
UserDeletesSecret ==
    /\ UsesCreds # {} /\ secret.exists /\ ~secret.deleting
    /\ secret' = [secret EXCEPT !.deleting = TRUE, !.exists = secret.held # {}]
    /\ IF secret.held = {} THEN Spend ELSE UNCHANGED budget
    /\ UNCHANGED <<k8sVars, ctrlVars, faults>>

Environment ==
    \/ \E k \in Kinds : CacheSync(k) \/ Wakeup(k) \/ UserDelete(k)
    \/ Crash
    \/ UserDeletesSecret

-----------------------------------------------------------------------------
\* An object that is gone holds no finalizer on the credentials Secret, which
\* could never be deleted otherwise; the exception is a LinodeFirewall that is
\* deleted before it has a FirewallID.
SecretReleased ==
    \A k \in Kinds : ~obj[k].exists /\ Undisturbed(k, {"keptSecret"}) => k \notin secret.held

=============================================================================
