--------------------------- MODULE ObjectStorage ---------------------------
(***************************************************************************)
(* The LinodeObjectStorageKey and LinodeObjectStorageBucket controllers    *)
(* (internal/controller/linodeobjectstorage*_controller.go), one object of *)
(* each.  The key controller makes and rotates an access key and keeps it  *)
(* in a generated Secret; the bucket controller makes a bucket and, with   *)
(* forceDeleteBucket, empties it with that access key and deletes it.  The *)
(* bucket's controller puts a finalizer of its own on the key object.      *)
(***************************************************************************)
EXTENDS Reconciler, TLC

CONSTANTS
    Keys,           \* ids of access keys
    Forms,          \* the bucket specs to start from: see NewBucket
    KeyForms,       \* the key specs to start from: see NewKey
    MaxChanges      \* bound on the changes of keyGeneration and of the bucket's acl

ASSUME StorageAssumptions ==
    /\ None \notin Keys
    /\ Forms \subseteq [ref: BOOLEAN, force: BOOLEAN]
    /\ KeyForms \subseteq [away: BOOLEAN, format: BOOLEAN]
    /\ MaxChanges \in Nat

VARIABLES
    issued,     \* the keyGeneration that an access key at the Linode API was made for
    keySecret,  \* the access key in the generated Secret; None without a Secret
    made,       \* keyForSecret of reconcileApply
    bucket,     \* the bucket at the Linode API
    s3key,      \* the access key of the S3 client of DeleteBucket
    changes     \* how many more times the specs may change

storageVars == <<issued, keySecret, made, bucket, s3key, changes>>

\* Whether the behaviour is about these two objects.
Storage == {"key", "bucket"} \subseteq Kinds

\* The access keys that exist at the Linode API.
live == {i \in Keys : issued[i] # None}

Revoke(i) == issued' = [j \in Keys |-> IF j = i THEN None ELSE issued[j]]

\* away: the Secret is in another namespace than the key; format: the spec has a format
\* for the Secret.
NewKey(form) ==
    [exists |-> TRUE, deleting |-> FALSE, finalizers |-> {}, ready |-> FALSE,
     gen |-> 0, away |-> form.away, format |-> form.format, key |-> None, last |-> None]

\* ref: the spec has an accessKeyRef; force: forceDeleteBucket.
NewBucket(form) ==
    [exists |-> TRUE, deleting |-> FALSE, finalizers |-> {}, ready |-> FALSE,
     ref |-> form.ref, force |-> form.force, acl |-> 0]

StorageTypeOK ==
    /\ issued \in [Keys -> {None} \cup 0..MaxChanges]
    /\ {keySecret, made, s3key} \subseteq Keys \cup {None}
    /\ bucket \in [state: {"none", "live"}, acl: 0..MaxChanges, data: BOOLEAN]
    /\ Storage => /\ obj["key"].key \in Keys \cup {None}
                  /\ obj["key"].finalizers \subseteq {"key", "bucket"}
                  /\ obj["key"].last \in {None} \cup 0..obj["key"].gen
    /\ changes \in 0..MaxChanges

NoBucket == [state |-> "none", acl |-> 0, data |-> FALSE]

NoStorage ==
    /\ issued = [i \in Keys |-> None]
    /\ keySecret = None /\ made = None /\ s3key = None
    /\ bucket = NoBucket
    /\ changes = 0

StorageInit(k, b, n) ==
    /\ obj = ("key" :> k) @@ ("bucket" :> b)
    /\ made = None
    /\ s3key = None
    /\ changes = n

-----------------------------------------------------------------------------
(***************************************************************************)
(* The key controller.  An error of any of its steps is returned, so that  *)
(* the work queue tries the object again.                                  *)
(***************************************************************************)
AtKey(l) == Storage /\ pc["key"] = l

KeyScope == scope["key"]

ReconcileKey ==
    /\ Storage
    /\ Begin("key", "credentials", FALSE)
    /\ made' = None
    /\ UNCHANGED <<issued, keySecret, bucket, s3key, changes>>

SetCredentialRefTokenKey ==
    /\ AtKey("credentials")
    /\ \/ /\ TokenAvailable("key")
          /\ Goto("key", IF KeyScope.deleting THEN "revoke" ELSE "addFinalizer")
          /\ UNCHANGED histVars
       \/ /\ ~TokenAvailable("key")
          /\ Goto("key", "requeue")
          /\ UNCHANGED histVars
       \/ /\ "key" \in UsesCreds /\ CallFails
          /\ Goto("key", "requeue")
    /\ UNCHANGED <<k8sVars, base, scope, secret, storageVars>>

\* The list of finalizers is patched as a whole: the one that the bucket's
\* controller added since the reconcile started is lost.
AddFinalizerKey ==
    /\ AtKey("addFinalizer")
    /\ PatchFinalizer("key", "apply", "requeue")
    /\ Announce("key", GenerationChanged(obj["key"], obj'["key"]))
    /\ UNCHANGED storageVars

ShouldInitKey(s) == s.last = None

\* A variant that never rotates.
ShouldRotateKey_Never(s) == FALSE

ShouldRotateKey(s) == s.last # None /\ s.gen # s.last

\* The ids that something still refers to; a key that nothing refers to is
\* beyond the code's reach and its id may stand for another one, so that few
\* ids are enough and any unreferenced one will do for a new key.
Referred ==
    LET of(o) == IF o = None THEN None ELSE o.key IN
    {keySecret, s3key, made, of(obj["key"]), of(seen["key"]), of(scope["key"]),
     of(base["key"])}

\* A key that the status refers to is forgotten when another one is made
\* because LastKeyGeneration is not set yet.
createObjectStorageKey ==
    LET s == [KeyScope EXCEPT !.ready = FALSE]
        new == CHOOSE i \in Keys : i \notin Referred
        Forgets == IF ShouldInitKey(s) /\ s.key \in live
                   THEN Note("key", "leaked") /\ UNCHANGED budget
                   ELSE UNCHANGED histVars
    IN
    /\ AtKey("apply") /\ (ShouldInitKey(s) \/ ShouldRotateKey(s))
    /\ \/ /\ issued' = [issued EXCEPT ![new] = s.gen]
          /\ \/ /\ made' = new
                /\ IF ShouldInitKey(s)
                   THEN Set("key", [s EXCEPT !.key = new]) /\ Goto("key", "generate")
                   ELSE Set("key", s) /\ Goto("key", "revokeOld")
                /\ Forgets
             \/ /\ Set("key", s) /\ Goto("key", "requeue")
                /\ Fault("key", "lostReply")
                /\ UNCHANGED made
       \/ /\ CallFails
          /\ Set("key", s) /\ Goto("key", "requeue")
          /\ UNCHANGED <<issued, made>>
    /\ UNCHANGED <<k8sVars, base, secret, keySecret, bucket, s3key, changes>>

\* A variant that keeps the replaced key.
RotateObjectStorageKey_Kept ==
    /\ AtKey("revokeOld")
    /\ Set("key", [KeyScope EXCEPT !.key = made])
    /\ Goto("key", "generate")
    /\ UNCHANGED <<k8sVars, base, secret, histVars, storageVars>>

\* RotateObjectStorageKey goes on when the replaced key cannot be revoked.
RotateObjectStorageKey ==
    /\ AtKey("revokeOld")
    /\ Set("key", [KeyScope EXCEPT !.key = made])
    /\ Goto("key", "generate")
    /\ \/ Revoke(KeyScope.key) /\ UNCHANGED histVars
       \/ CallFailsNoting("key", "leaked") /\ UNCHANGED issued
    /\ UNCHANGED <<k8sVars, base, secret, keySecret, made, bucket, s3key, changes>>

\* The Secret is checked when there is nothing to make; its content is not.
CheckKeySecret ==
    LET s == [KeyScope EXCEPT !.ready = FALSE] IN
    /\ AtKey("apply") /\ ~ShouldInitKey(s) /\ ~ShouldRotateKey(s)
    /\ \/ /\ s.key = None \/ keySecret # None
          /\ Set("key", [s EXCEPT !.ready = TRUE, !.last = s.gen])
          /\ Goto("key", "return")
          /\ UNCHANGED histVars
       \/ /\ s.key # None /\ keySecret = None
          /\ Set("key", s) /\ Goto("key", "restore")
          /\ UNCHANGED histVars
       \/ /\ CallFails
          /\ Set("key", s) /\ Goto("key", "requeue")
    /\ UNCHANGED <<k8sVars, base, secret, storageVars>>

GetObjectStorageKey ==
    /\ AtKey("restore")
    /\ \/ /\ KeyScope.key \in live
          /\ made' = KeyScope.key
          /\ Goto("key", "generate")
          /\ UNCHANGED histVars
       \/ /\ IF KeyScope.key \in live THEN CallFails ELSE UNCHANGED histVars
          /\ Goto("key", "requeue")
          /\ UNCHANGED made
    /\ UNCHANGED <<k8sVars, base, scope, secret, issued, keySecret, bucket, s3key, changes>>

\* With a format for the Secret, the bucket is read for its hostname.
GenerateKeySecret ==
    /\ AtKey("generate")
    /\ \/ /\ KeyScope.format => bucket.state = "live"
          /\ Goto("key", "applySecret")
          /\ UNCHANGED histVars
       \/ /\ KeyScope.format
          /\ IF bucket.state = "live" THEN CallFails ELSE UNCHANGED histVars
          /\ Goto("key", "requeue")
    /\ UNCHANGED <<k8sVars, base, scope, secret, storageVars>>

\* CreateOrUpdate of the Secret, which completes reconcileApply.
ApplyKeySecret ==
    /\ AtKey("applySecret")
    /\ \/ /\ keySecret' = made
          /\ Set("key", [KeyScope EXCEPT !.last = KeyScope.gen, !.ready = TRUE])
          /\ Goto("key", "return")
          /\ UNCHANGED histVars
       \/ /\ CallFails
          /\ Goto("key", "requeue")
          /\ UNCHANGED <<scope, keySecret>>
    /\ UNCHANGED <<k8sVars, base, secret, issued, made, bucket, s3key, changes>>

\* A finalizer that is not there (the bucket's one remained when the object was
\* finalised before) is an error.
FinalizeKey ==
    IF "key" \in KeyScope.finalizers
    THEN Set("key", [KeyScope EXCEPT !.finalizers = @ \ {"key"}]) /\ Goto("key", "return")
    ELSE UNCHANGED scope /\ Goto("key", "requeue")

\* A variant that takes the answer that there is no such key for a failure.
RevokeObjectStorageKey_NotFoundFails ==
    /\ AtKey("revoke")
    /\ \/ /\ KeyScope.key \in live
          /\ Revoke(KeyScope.key)
          /\ FinalizeKey
       \/ /\ KeyScope.key \notin live
          /\ Goto("key", "requeue")
          /\ UNCHANGED <<issued, scope>>
    /\ UNCHANGED <<k8sVars, base, secret, histVars, keySecret, made, bucket, s3key, changes>>

\* reconcileDelete revokes the key at once, whoever holds a finalizer; without
\* an AccessKeyRef it panics, which ends the reconcile like an error.
RevokeObjectStorageKey ==
    /\ AtKey("revoke")
    /\ \/ /\ KeyScope.key = None
          /\ Note("key", "noKey") /\ UNCHANGED <<budget, issued, scope>>
          /\ Goto("key", "requeue")
       \/ /\ KeyScope.key # None
          /\ Revoke(KeyScope.key)
          /\ \/ /\ IF KeyScope.away THEN Goto("key", "deleteSecret") /\ UNCHANGED scope
                                    ELSE FinalizeKey
                /\ UNCHANGED histVars
             \/ /\ Fault("key", "lostReply")
                /\ Goto("key", "requeue")
                /\ UNCHANGED scope
       \/ /\ KeyScope.key # None /\ CallFails
          /\ Goto("key", "requeue")
          /\ UNCHANGED <<issued, scope>>
    /\ UNCHANGED <<k8sVars, base, secret, keySecret, made, bucket, s3key, changes>>

\* A variant that leaves a Secret in another namespace behind.
DeleteKeySecret_Kept ==
    /\ AtKey("deleteSecret")
    /\ FinalizeKey
    /\ UNCHANGED <<k8sVars, base, secret, histVars, storageVars>>

\* A Secret in another namespace has no owner reference.  One that is missing
\* is an error.
DeleteKeySecret ==
    /\ AtKey("deleteSecret")
    /\ \/ /\ keySecret # None
          /\ keySecret' = None
          /\ FinalizeKey
          /\ UNCHANGED histVars
       \/ /\ IF keySecret # None
             THEN CallFails
             ELSE Note("key", "noSecret") /\ UNCHANGED budget
          /\ Goto("key", "requeue")
          /\ UNCHANGED <<keySecret, scope>>
    /\ UNCHANGED <<k8sVars, base, secret, issued, made, bucket, s3key, changes>>

CloseKey ==
    /\ Storage /\ ClosePatch("key")
    /\ Announce("key", GenerationChanged(obj["key"], obj'["key"]))
    /\ made' = None
    /\ UNCHANGED <<issued, keySecret, bucket, s3key, changes>>

-----------------------------------------------------------------------------
(***************************************************************************)
(* The bucket controller.  An error of reconcileDelete that is not one of  *)
(* the Linode API's retryable ones is dropped (retryIfTransient).          *)
(***************************************************************************)
AtBucket(l) == Storage /\ pc["bucket"] = l

BucketScope == scope["bucket"]

Dropped == Goto("bucket", "return") /\ UNCHANGED scope

DroppedHere == Note("bucket", "dropped") /\ UNCHANGED budget

ReconcileBucket ==
    /\ Storage
    /\ Begin("bucket", "credentials", FALSE)
    /\ s3key' = None
    /\ UNCHANGED <<issued, keySecret, made, bucket, changes>>

\* A variant that deletes the bucket whatever forceDeleteBucket says.
NewBucketScope_Force ==
    LET s == BucketScope IN
    /\ AtBucket("credentials")
    /\ Set("bucket", [s EXCEPT !.ready = @ /\ s.deleting])
    /\ Goto("bucket", IF s.deleting THEN "s3" ELSE IF s.ref THEN "addFinalizer" ELSE "get")
    /\ UNCHANGED <<k8sVars, base, secret, histVars, storageVars>>

\* NewObjectStorageBucketScope reads the token; reconcileApply resets Ready.
NewBucketScope ==
    LET s == BucketScope IN
    /\ AtBucket("credentials")
    /\ \/ /\ TokenAvailable("bucket") /\ ~s.deleting
          /\ Set("bucket", [s EXCEPT !.ready = FALSE])
          /\ Goto("bucket", IF s.ref THEN "addFinalizer" ELSE "get")
          /\ UNCHANGED histVars
       \/ /\ TokenAvailable("bucket") /\ s.deleting
          /\ Goto("bucket", IF s.force THEN "s3" ELSE IF s.ref THEN "leaveKey" ELSE "return")
          /\ UNCHANGED <<scope, histVars>>
       \/ /\ IF TokenAvailable("bucket")
             THEN "bucket" \in UsesCreds /\ CallFails
             ELSE UNCHANGED histVars
          /\ Goto("bucket", "requeue")
          /\ UNCHANGED scope
    /\ UNCHANGED <<k8sVars, base, secret, storageVars>>

AddFinalizerBucket ==
    /\ AtBucket("addFinalizer")
    /\ PatchFinalizer("bucket", "holdKey", "requeue")
    /\ Announce("bucket", GenerationChanged(obj["bucket"], obj'["bucket"]))
    /\ UNCHANGED storageVars

\* An Update of the cached key object.  It conflicts while the cache lags
\* behind, which the bound on faults limits, and is refused when the key is
\* being deleted.
AddAccessKeyRefFinalizer ==
    LET p == [obj["key"] EXCEPT !.finalizers = @ \cup {"bucket"}]
        current == seen["key"] = obj["key"]
        accepted == seen["key"].exists /\ Accepted(obj["key"], p)
    IN
    /\ AtBucket("holdKey")
    /\ \/ /\ current /\ accepted
          /\ obj' = [obj EXCEPT !["key"] = p]
          /\ Goto("bucket", "get")
          /\ UNCHANGED histVars
       \/ /\ CASE ~current -> Fault("bucket", "stale")
               [] current /\ accepted -> CallFails
               [] current /\ ~accepted -> UNCHANGED histVars
          /\ Goto("bucket", "requeue")
          /\ UNCHANGED obj
    /\ UNCHANGED <<seen, unseen, queue, base, scope, secret, issued, keySecret, made, bucket,
                   s3key, changes>>

BucketReady == Set("bucket", [BucketScope EXCEPT !.ready = TRUE]) /\ Goto("bucket", "return")

\* EnsureAndUpdateObjectStorageBucket: the bucket with the object's name is
\* created, or its access options are brought up to date.
GetObjectStorageBucket ==
    /\ AtBucket("get")
    /\ \/ /\ Goto("bucket", IF bucket.state = "live" THEN "access" ELSE "create")
          /\ UNCHANGED histVars
       \/ CallFails /\ Goto("bucket", "requeue")
    /\ UNCHANGED <<k8sVars, base, scope, secret, storageVars>>

CreateObjectStorageBucket ==
    /\ AtBucket("create")
    /\ \/ /\ bucket.state = "none"
          /\ bucket' = [state |-> "live", acl |-> BucketScope.acl, data |-> FALSE]
          /\ \/ BucketReady /\ UNCHANGED histVars
             \/ Fault("bucket", "lostReply") /\ Goto("bucket", "requeue") /\ UNCHANGED scope
       \/ /\ bucket.state = "none" /\ CallFails
          /\ Goto("bucket", "requeue")
          /\ UNCHANGED <<bucket, scope>>
    /\ UNCHANGED <<k8sVars, base, secret, issued, keySecret, made, s3key, changes>>

\* A variant that takes an existing bucket as it is.
GetObjectStorageBucketAccess_AsIs ==
    /\ AtBucket("access")
    /\ BucketReady
    /\ UNCHANGED <<k8sVars, base, secret, histVars, storageVars>>

GetObjectStorageBucketAccess ==
    /\ AtBucket("access")
    /\ \/ /\ bucket.state = "live" /\ bucket.acl = BucketScope.acl
          /\ BucketReady
          /\ UNCHANGED histVars
       \/ /\ bucket.state = "live" /\ bucket.acl # BucketScope.acl
          /\ Goto("bucket", "update")
          /\ UNCHANGED <<scope, histVars>>
       \/ /\ IF bucket.state = "live" THEN CallFails ELSE UNCHANGED histVars
          /\ Goto("bucket", "requeue")
          /\ UNCHANGED scope
    /\ UNCHANGED <<k8sVars, base, secret, storageVars>>

UpdateObjectStorageBucketAccess ==
    /\ AtBucket("update")
    /\ \/ /\ bucket.state = "live"
          /\ bucket' = [bucket EXCEPT !.acl = BucketScope.acl]
          /\ \/ BucketReady /\ UNCHANGED histVars
             \/ Fault("bucket", "lostReply") /\ Goto("bucket", "requeue") /\ UNCHANGED scope
       \/ /\ IF bucket.state = "live" THEN CallFails ELSE UNCHANGED histVars
          /\ Goto("bucket", "requeue")
          /\ UNCHANGED <<bucket, scope>>
    /\ UNCHANGED <<k8sVars, base, secret, issued, keySecret, made, s3key, changes>>

\* DeleteBucket: the S3 client takes the access key from the Secret in the key
\* object's namespace.
createS3ClientWithAccessKey ==
    /\ AtBucket("s3")
    /\ \/ /\ keySecret # None /\ ~obj["key"].away
          /\ s3key' = keySecret
          /\ Goto("bucket", "purge")
          /\ UNCHANGED <<scope, histVars>>
       \/ /\ IF keySecret # None /\ ~obj["key"].away
             THEN CallFailsNoting("bucket", "dropped")
             ELSE DroppedHere
          /\ Dropped
          /\ UNCHANGED s3key
    /\ UNCHANGED <<k8sVars, base, secret, issued, keySecret, made, bucket, changes>>

PurgeAllObjects ==
    LET possible == bucket.state = "live" /\ s3key \in live IN
    /\ AtBucket("purge")
    /\ \/ /\ possible
          /\ bucket' = [bucket EXCEPT !.data = FALSE]
          /\ Goto("bucket", "deleteBucket")
          /\ UNCHANGED <<scope, histVars>>
       \/ /\ IF possible THEN CallFailsNoting("bucket", "dropped") ELSE DroppedHere
          /\ Dropped
          /\ UNCHANGED bucket
    /\ UNCHANGED <<k8sVars, base, secret, issued, keySecret, made, s3key, changes>>

\* The API refuses to delete a bucket that is not empty.
DeleteObjectStorageBucket ==
    LET possible == bucket.state = "live" /\ ~bucket.data IN
    /\ AtBucket("deleteBucket")
    /\ \/ /\ possible
          /\ bucket' = [bucket EXCEPT !.state = "none"]
          /\ \/ /\ Goto("bucket", IF BucketScope.ref THEN "leaveKey" ELSE "return")
                /\ UNCHANGED histVars
             \/ Fault("bucket", "lostReply") /\ Goto("bucket", "requeue")
          /\ UNCHANGED scope
       \/ /\ possible /\ CallFails
          /\ Goto("bucket", "requeue")
          /\ UNCHANGED <<bucket, scope>>
       \/ /\ IF possible THEN CallFailsNoting("bucket", "dropped") ELSE DroppedHere
          /\ Dropped
          /\ UNCHANGED bucket
    /\ UNCHANGED <<k8sVars, base, secret, issued, keySecret, made, s3key, changes>>

\* A variant that does not remove the bucket's own finalizer.
RemoveAccessKeyRefFinalizer_OwnKept ==
    /\ AtBucket("leaveKey")
    /\ seen["key"].exists /\ seen["key"] = obj["key"]
    /\ obj' = [obj EXCEPT !["key"] = Stored([@ EXCEPT !.finalizers = @ \ {"bucket"}])]
    /\ Goto("bucket", "return")
    /\ UNCHANGED <<seen, unseen, queue, base, scope, secret, histVars, storageVars>>

\* RemoveAccessKeyRefFinalizer waits a little for the cache, with
\* RetryOnConflict; the bucket's own finalizer goes after it.
RemoveAccessKeyRefFinalizer ==
    LET p == [obj["key"] EXCEPT !.finalizers = @ \ {"bucket"}]
        current == seen["key"] = obj["key"]
    IN
    /\ AtBucket("leaveKey")
    /\ \/ /\ seen["key"].exists /\ current
          /\ obj' = [obj EXCEPT !["key"] = Stored(p)]
          /\ Set("bucket", [BucketScope EXCEPT !.finalizers = @ \ {"bucket"}])
          /\ Goto("bucket", "return")
          /\ UNCHANGED histVars
       \/ /\ seen["key"].exists
          /\ CallFailsNoting("bucket", "dropped")
          /\ Dropped
          /\ UNCHANGED obj
       \/ /\ ~seen["key"].exists
          /\ DroppedHere
          /\ Dropped
          /\ UNCHANGED obj
    /\ UNCHANGED <<seen, unseen, queue, base, secret, storageVars>>

CloseBucket ==
    /\ Storage /\ ClosePatch("bucket")
    /\ Announce("bucket", GenerationChanged(obj["bucket"], obj'["bucket"]))
    /\ s3key' = None
    /\ UNCHANGED <<issued, keySecret, made, bucket, changes>>

-----------------------------------------------------------------------------
(***************************************************************************)
(* What happens around the two controllers.                                *)
(***************************************************************************)
UserEdits(k, f) ==
    /\ changes > 0 /\ changes' = changes - 1
    /\ obj[k].exists /\ ~obj[k].deleting
    /\ obj' = [obj EXCEPT ![k][f] = @ + 1]
    /\ unseen' = unseen \cup {k}
    /\ UNCHANGED <<seen, queue, ctrlVars, secret, histVars, issued, keySecret, made, bucket,
                   s3key>>

\* The owner of the Secret learns that it is gone.
UserDeletesKeySecret ==
    /\ keySecret # None
    /\ IF obj["key"].away
       THEN Fault("key", "lostEvent") /\ UNCHANGED queue
       ELSE Spend /\ UNCHANGED faults /\ queue' = queue \cup {"key"}
    /\ keySecret' = None
    /\ UNCHANGED <<obj, seen, unseen, ctrlVars, secret, issued, made, bucket, s3key, changes>>

GarbageCollect ==
    /\ ~obj["key"].exists /\ ~obj["key"].away /\ keySecret # None
    /\ keySecret' = None
    /\ UNCHANGED <<reconcilerVars, issued, made, bucket, s3key, changes>>

\* A workload writes to the bucket with the key of the Secret.
Backup ==
    /\ bucket.state = "live" /\ ~bucket.data
    /\ keySecret \in live
    /\ bucket' = [bucket EXCEPT !.data = TRUE]
    /\ UNCHANGED <<reconcilerVars, issued, keySecret, made, s3key, changes>>

OutOfBandKey ==
    /\ obj["key"].key \in live
    /\ Fault("key", "outOfBand")
    /\ Revoke(obj["key"].key)
    /\ UNCHANGED <<k8sVars, ctrlVars, secret, keySecret, made, bucket, s3key, changes>>

OutOfBandBucket ==
    /\ bucket.state = "live"
    /\ Fault("bucket", "outOfBand")
    /\ bucket' = [bucket EXCEPT !.state = "none", !.data = FALSE]
    /\ UNCHANGED <<k8sVars, ctrlVars, secret, issued, keySecret, made, s3key, changes>>

KeyStep ==
    \/ ReconcileKey \/ SetCredentialRefTokenKey \/ AddFinalizerKey
    \/ createObjectStorageKey \/ RotateObjectStorageKey \/ CheckKeySecret
    \/ GetObjectStorageKey \/ GenerateKeySecret \/ ApplyKeySecret
    \/ RevokeObjectStorageKey \/ DeleteKeySecret \/ CloseKey

BucketStep ==
    \/ ReconcileBucket \/ NewBucketScope \/ AddFinalizerBucket \/ AddAccessKeyRefFinalizer
    \/ GetObjectStorageBucket \/ CreateObjectStorageBucket
    \/ GetObjectStorageBucketAccess \/ UpdateObjectStorageBucketAccess
    \/ createS3ClientWithAccessKey \/ PurgeAllObjects \/ DeleteObjectStorageBucket
    \/ RemoveAccessKeyRefFinalizer \/ CloseBucket

StorageEnvironment ==
    /\ Storage
    /\ \/ UserEdits("key", "gen") \/ UserEdits("bucket", "acl")
       \/ UserDeletesKeySecret \/ GarbageCollect \/ Backup \/ OutOfBandKey \/ OutOfBandBucket

-----------------------------------------------------------------------------
(***************************************************************************)
(* Properties.                                                             *)
(***************************************************************************)
\* Every access key at the API is the one that the object, or the reconcile at
\* work on it, refers to; a deleted object leaves none.  Rotation revokes the
\* key it replaces and deletion the last one.  The exceptions are a reply, a
\* patch or a process lost on the way, a revocation that failed during a
\* rotation, and a key made before a failed reconcile (see "leaked").
AccessKeysAccounted ==
    Storage /\ Undisturbed("key", {"lostReply", "lostPatch", "crash", "stale", "leaked"}) =>
        live \subseteq (IF obj["key"].exists THEN {obj["key"].key} ELSE {})
                       \cup {made} \cup (IF KeyScope = None THEN {} ELSE {KeyScope.key})

\* "CAPL will deprovision the access key and delete the managed secret": a key
\* object that is gone leaves no Secret in another namespace, where nothing but
\* reconcileDelete would remove it.
SecretNotLeft ==
    Storage /\ ~obj["key"].exists /\ obj["key"].away /\ Undisturbed("key", {"stale"}) =>
        keySecret = None

\* The key controller leaves no access key that nobody can revoke any more, and no
\* Secret that nobody will remove.
KeysAccounted == AccessKeysAccounted /\ SecretNotLeft

\* "It's critical to add the access key finalizer, or else the access key could be
\* deleted before the associated bucket with its contents deleted": a bucket that is
\* ready and has an accessKeyRef has an access key for as long as it is not deleted,
\* once one was made.  Not so: reconcileDelete of the key revokes it whoever holds a
\* finalizer, and the patch of the key's controller may lose the bucket's finalizer.
KeyOutlivesBucket ==
    LET b == obj["bucket"] IN
    (/\ Storage /\ b.exists /\ b.ready /\ b.ref /\ ~b.deleting
     /\ bucket.state = "live" /\ obj["key"].key # None) => live # {}

\* "CAPL will retain the underlying bucket to avoid unintended data loss unless
\* .spec.forceDeleteBucket is set": no step of the controllers deletes a bucket
\* or its objects before the deletion of a bucket object with that setting.
BucketRetained ==
    [][(bucket.state = "live" /\ bucket'.state = "none") \/ (bucket.data /\ ~bucket'.data)
       => \/ obj["bucket"].force /\ obj["bucket"].deleting
          \/ OutOfBandBucket]_storageVars

\* While the key object is not deleted, its Secret comes to hold the access key
\* made for the wanted generation, again and again.  The controller does not
\* notice a key revoked by someone else, nor that a Secret in another namespace
\* is missing.
KeyEventuallyUsable ==
    []<>(LET k == obj["key"] IN Storage =>
         \/ k.deleting \/ ~k.exists \/ ~TokenAvailable("key")
         \/ k.format /\ bucket.state # "live"
         \/ ~Undisturbed("key", {"outOfBand", "lostEvent"})
         \/ k.ready /\ k.last = k.gen /\ keySecret = k.key
            /\ k.key \in live /\ issued[k.key] = k.gen)

\* A key object does not stay behind its deletion, unless the bucket's finalizer
\* holds it, it has no access key, or its Secret in another namespace is missing.
KeyEventuallyGone ==
    []<>~(/\ Storage /\ obj["key"].exists /\ obj["key"].deleting /\ TokenAvailable("key")
          /\ "bucket" \notin obj["key"].finalizers
          /\ Undisturbed("key", {"noKey", "noSecret"}))

\* While the bucket object is not deleted, the bucket comes to have the access options
\* that the spec wants, again and again.  The controller waits for the key object, and
\* does not notice that someone else deletes the bucket.
BucketEventuallyReady ==
    []<>(LET b == obj["bucket"] IN Storage =>
         \/ b.deleting \/ ~b.exists \/ ~TokenAvailable("bucket")
         \/ b.ref /\ (obj["key"].deleting \/ ~obj["key"].exists)
         \/ ~Undisturbed("bucket", {"outOfBand"})
         \/ b.ready /\ bucket.state = "live" /\ bucket.acl = b.acl)

\* A bucket object does not stay behind its deletion, unless an error of
\* reconcileDelete was dropped.
BucketEventuallyGone ==
    []<>~(/\ Storage /\ obj["bucket"].exists /\ obj["bucket"].deleting /\ TokenAvailable("bucket")
          /\ Undisturbed("bucket", {"dropped"}))

=============================================================================
