--------------------------- MODULE BootstrapData ---------------------------
(***************************************************************************)
(* How the bootstrap data of a LinodeMachine reaches its instance          *)
(* (resolveBootstrapData, CreateObject) and is cleaned up again            *)
(* (deleteBootstrapData, DeleteObject): as user data if it fits,           *)
(* compressed if that is enabled and fits, else as an object in the first  *)
(* Cluster Object Store that takes it, of which the user data has the URL. *)
(* The object has the UID of the LinodeMachine as its key.                 *)
(***************************************************************************)
EXTENDS Naturals

CONSTANTS
    MetadataLimit,  \* maxBootstrapDataBytesCloudInit
    Sizes,          \* the sizes that bootstrap data, and what gzip makes of it, may have
    Pointer,        \* the size of a cloud-config with the URL of an object
    MaxStoreFaults, \* bound on failing calls and restarts
    MaxStoreEdits   \* bound on edits of the cluster's object store

ASSUME BootstrapAssumptions ==
    /\ MetadataLimit \in Nat /\ Sizes \subseteq Nat
    /\ Pointer \in Nat /\ Pointer < MetadataLimit
    /\ MaxStoreFaults \in Nat /\ MaxStoreEdits \in Nat

Stores == {1, 2}    \* credentialsRef and secondaryCredentialsRef

NoData == [size |-> 0, url |-> 0]

VARIABLES
    owner,      \* the LinodeMachine: "present", "deleting", "gone"
    joined,     \* the phase of its Machine is "Running"
    data,       \* the bootstrap data: its size, its compressed size, gzip enabled
    refs,       \* how many stores spec.objectStore names: 0, 1 or 2
    objects,    \* the stores that have the object
    instance,   \* the instance: its status and its user data
    phase,      \* where the reconcile is
    try,        \* the store it tries
    known,      \* refs, as the reconcile read it
    userData,   \* the user data it has for the instance
    waiting,    \* the LinodeMachine is in the work queue
    uncleaned,  \* history: a deletion of the object failed, or the stores were edited
    storeFaults, storeEdits

loopVars == <<phase, try, known, userData>>
bootVars == <<owner, joined, data, refs, objects, instance, loopVars, waiting, uncleaned,
              storeFaults, storeEdits>>

BootTypeOK ==
    /\ owner \in {"present", "deleting", "gone"}
    /\ joined \in BOOLEAN
    /\ data \in [size: Sizes, compressed: Sizes, gzip: BOOLEAN]
    /\ objects \subseteq Stores
    /\ refs \in 0..2 /\ known \in 0..2 /\ try \in 0..3
    /\ instance.status \in {"none", "booting", "running"}
    /\ instance.data.url \in 0..2
    /\ waiting \in BOOLEAN /\ uncleaned \in BOOLEAN

BootInit ==
    /\ owner = "present" /\ joined = FALSE
    /\ data \in [size: Sizes, compressed: Sizes, gzip: BOOLEAN]
    /\ refs \in 0..2
    /\ objects = {}
    /\ instance = [status |-> "none", data |-> NoData]
    /\ phase = "idle" /\ try = 0 /\ known = 0 /\ userData = NoData
    /\ waiting = TRUE
    /\ uncleaned = FALSE
    /\ storeFaults = MaxStoreFaults /\ storeEdits = MaxStoreEdits

-----------------------------------------------------------------------------
StoreFault == storeFaults > 0 /\ storeFaults' = storeFaults - 1

Done(again) ==
    /\ phase' = "idle" /\ try' = 0 /\ known' = 0 /\ userData' = NoData
    /\ waiting' = (waiting \/ again)

At(p, s, d) == phase' = p /\ try' = s /\ userData' = d /\ UNCHANGED <<known, waiting>>

\* A variant that cleans up as soon as the instance runs.
CleanupDue_Running == instance.status = "running"

\* reconcileUpdate cleans up when the node has joined: the phase of the Machine says so.
CleanupDue == instance.status = "running" /\ joined

ReconcileBootstrap ==
    /\ phase = "idle" /\ waiting /\ owner # "gone"
    /\ waiting' = FALSE
    /\ known' = refs
    /\ \/ owner = "deleting" /\ phase' = "purge" /\ try' = 1
       \/ owner = "present" /\ instance.status = "none" /\ phase' = "resolve" /\ UNCHANGED try
       \/ owner = "present" /\ CleanupDue /\ phase' = "cleanup" /\ try' = 1
       \/ /\ owner = "present" /\ instance.status # "none" /\ ~CleanupDue
          /\ UNCHANGED <<phase, try>>
    /\ UNCHANGED <<owner, joined, data, refs, objects, instance, userData, uncleaned,
                   storeFaults, storeEdits>>

\* A variant that takes data of exactly the limit.
Direct_AtLimit(size) == size <= MetadataLimit

Direct(size) == size < MetadataLimit

\* The delivery: direct, compressed, or by an object, for which there must be a store.
resolveBootstrapData ==
    /\ phase = "resolve"
    /\ \/ /\ Direct(data.size)
          /\ At("create", 0, [size |-> data.size, url |-> 0])
       \/ /\ ~Direct(data.size) /\ data.gzip /\ Direct(data.compressed)
          /\ At("create", 0, [size |-> data.compressed, url |-> 0])
       \/ /\ ~Direct(data.size) /\ ~(data.gzip /\ Direct(data.compressed))
          /\ IF known = 0 THEN Done(TRUE) ELSE At("upload", 1, NoData)
    /\ UNCHANGED <<owner, joined, data, refs, objects, instance, uncleaned, storeFaults, storeEdits>>

\* One attempt of CreateObject; a failing one may have put the object, and the next
\* store is tried.
createObjectWithCredentials ==
    /\ phase = "upload"
    /\ \/ /\ objects' = objects \cup {try}
          /\ At("create", 0, [size |-> Pointer, url |-> try])
          /\ UNCHANGED storeFaults
       \/ /\ StoreFault
          /\ objects' \in {objects, objects \cup {try}}
          /\ IF try < known THEN At("upload", try + 1, NoData) ELSE Done(TRUE)
    /\ UNCHANGED <<owner, joined, data, refs, instance, uncleaned, storeEdits>>

\* CreateInstance.  A lost reply is no other case: the next reconcile finds the instance
\* by its label.
CreateWithUserData ==
    /\ phase = "create"
    /\ \/ /\ instance' = [status |-> "booting", data |-> userData]
          /\ Done(TRUE)
          /\ UNCHANGED storeFaults
       \/ StoreFault /\ Done(TRUE) /\ UNCHANGED instance
    /\ UNCHANGED <<owner, joined, data, refs, objects, uncleaned, storeEdits>>

\* What follows the attempt to clean up one store, s, in reconcileDelete ("purge") and
\* in reconcileUpdate ("cleanup").
Cleaned(s) ==
    \/ s < known /\ At(phase, s + 1, NoData)
    \/ s >= known /\ phase = "purge" /\ At("delete", 0, NoData)
    \/ s >= known /\ phase = "cleanup" /\ Done(FALSE)

\* A variant that cleans up the first store only.
deleteObjectWithCredentials_First ==
    /\ phase \in {"cleanup", "purge"}
    /\ objects' = objects \ (IF try <= known THEN {try} ELSE {})
    /\ Cleaned(known)
    /\ UNCHANGED <<owner, joined, data, refs, instance, uncleaned, storeFaults, storeEdits>>

\* One attempt of DeleteObject, if there is a store: an object that is missing is no
\* error, and an error is only logged.
deleteObjectWithCredentials ==
    /\ phase \in {"cleanup", "purge"}
    /\ \/ /\ objects' = objects \ (IF try <= known THEN {try} ELSE {})
          /\ UNCHANGED <<uncleaned, storeFaults>>
       \/ /\ StoreFault /\ try <= known
          /\ objects' \in {objects, objects \ {try}}
          /\ uncleaned' = TRUE
    /\ Cleaned(try)
    /\ UNCHANGED <<owner, joined, data, refs, instance, storeEdits>>

\* The rest of reconcileDelete: the instance goes, and the finalizer.
DeleteWithUserData ==
    /\ phase = "delete"
    /\ \/ /\ instance' = [status |-> "none", data |-> NoData]
          /\ owner' = "gone"
          /\ Done(FALSE)
          /\ UNCHANGED storeFaults
       \/ StoreFault /\ Done(TRUE) /\ UNCHANGED <<owner, instance>>
    /\ UNCHANGED <<joined, data, refs, objects, uncleaned, storeEdits>>

BootStep ==
    \/ ReconcileBootstrap \/ resolveBootstrapData \/ createObjectWithCredentials
    \/ CreateWithUserData \/ deleteObjectWithCredentials \/ DeleteWithUserData

-----------------------------------------------------------------------------
(***************************************************************************)
(* The instance, the node, the user and restarts of the controller         *)
(***************************************************************************)
Observed == waiting' = TRUE /\ UNCHANGED <<data, loopVars, objects>>

InstanceRuns ==
    /\ instance.status = "booting"
    /\ instance' = [instance EXCEPT !.status = "running"]
    /\ Observed
    /\ UNCHANGED <<owner, joined, refs, uncleaned, storeFaults, storeEdits>>

\* cloud-init has got the bootstrap data, and the node has joined.
NodeJoins ==
    /\ instance.status = "running" /\ ~joined /\ owner = "present"
    /\ instance.data.url = 0 \/ instance.data.url \in objects
    /\ joined' = TRUE
    /\ Observed
    /\ UNCHANGED <<owner, refs, instance, uncleaned, storeFaults, storeEdits>>

UserDeletesMachine ==
    /\ owner = "present"
    /\ owner' = "deleting"
    /\ Observed
    /\ UNCHANGED <<joined, refs, instance, uncleaned, storeFaults, storeEdits>>

\* spec.objectStore may name fewer or more stores than before.
UserEditsStores ==
    /\ storeEdits > 0 /\ storeEdits' = storeEdits - 1
    /\ owner # "gone"
    /\ refs' \in (0..2) \ {refs}
    /\ uncleaned' = (uncleaned \/ refs' < refs)
    /\ Observed
    /\ UNCHANGED <<owner, joined, instance, storeFaults>>

RestartBootstrap ==
    /\ phase # "idle"
    /\ StoreFault
    /\ Done(TRUE)
    /\ UNCHANGED <<owner, joined, data, refs, objects, instance, uncleaned, storeEdits>>

BootEnvironment ==
    InstanceRuns \/ NodeJoins \/ UserDeletesMachine \/ UserEditsStores \/ RestartBootstrap

BootNext == BootStep \/ BootEnvironment

BootSpec == BootInit /\ [][BootNext]_bootVars

\* The controller works off its queue, an instance comes to run and cloud-init to fetch
\* the data.
BootFairness == WF_bootVars(BootStep) /\ WF_bootVars(InstanceRuns) /\ WF_bootVars(NodeJoins)

-----------------------------------------------------------------------------
(***************************************************************************)
(* Properties                                                              *)
(***************************************************************************)

\* User data that is longer than the metadata service takes is never sent: what
\* resolveBootstrapData returns, compressed or not, is below the limit.
UserDataFits == instance.status # "none" => instance.data.size < MetadataLimit

\* The object is there for as long as the instance may have to read it: whatever
\* attempts, retries and restarts there were, an instance with a URL in its user
\* data that has not joined and is not being deleted finds the object.
ObjectAvailable ==
    (instance.data.url # 0 /\ ~joined /\ owner = "present") => instance.data.url \in objects

\* An instance can use what resolveBootstrapData gave it: its user data is not too
\* long, and the object that it points to can be read.
UserDataUsable == UserDataFits /\ ObjectAvailable

\* No object outlives its LinodeMachine, not even one that a failed attempt left in the
\* store which was not used in the end, unless its deletion failed (deleteBootstrapData's
\* error is only logged) or the reference to its store was removed.
ObjectNotLeft == (owner = "gone" /\ ~uncleaned) => objects = {}

\* A machine with data that can be delivered comes to join, and the object goes then,
\* without waiting for the machine to be deleted.
EventuallyJoined ==
    <>[](owner = "present" /\ (refs # 0 \/ Direct(data.size)))
        => <>[](joined /\ (uncleaned \/ objects = {}))

=============================================================================
