---------------------------- MODULE MCResources ----------------------------
(***************************************************************************)
(* Instances of LinodeVPC, LinodePlacementGroup, LinodeFirewall and        *)
(* ObjectStorage for TLC.  The first three controllers share no state but  *)
(* the credentials Secret, so each behaviour runs one of them, or the two  *)
(* controllers of ObjectStorage together.                                  *)
(***************************************************************************)
EXTENDS LinodeVPC, LinodePlacementGroup, LinodeFirewall, ObjectStorage

CONSTANTS v1, v2, k1, k2, k3, k4

resourceVars == <<vpcVars, pgVars, fwVars>>

vars == <<reconcilerVars, resourceVars, storageVars>>

\* Both objects are new and nothing goes wrong.
BothNew ==
    /\ \E key \in KeyForms, form \in Forms : StorageInit(NewKey(key), NewBucket(form), 0)
    /\ bucket = NoBucket
    /\ issued = [i \in Keys |-> None] /\ keySecret = None
    /\ ReconcilerInit(Kinds, 0)

\* The key is new; its bucket was retained when the object of it was deleted.
KeyNew ==
    /\ \E key \in KeyForms :
          StorageInit(NewKey(key),
                      [NewBucket([ref |-> FALSE, force |-> FALSE]) EXCEPT
                          !.exists = FALSE, !.deleting = TRUE],
                      MaxChanges)
    /\ bucket = [NoBucket EXCEPT !.state = "live"]
    /\ issued = [i \in Keys |-> None] /\ keySecret = None
    /\ ReconcilerInit(Kinds, MaxFaults)

\* The bucket object is new; the key has been made.
BucketNew ==
    /\ \E key \in KeyForms, form \in Forms :
          ~key.away /\ key.format /\
          StorageInit([NewKey(key) EXCEPT
                          !.finalizers = {"key"}, !.ready = TRUE, !.key = k1, !.last = 0],
                      NewBucket(form), 0)
    /\ bucket \in {NoBucket, [NoBucket EXCEPT !.state = "live", !.acl = 1]}
    /\ issued = [i \in Keys |-> IF i = k1 THEN 0 ELSE None] /\ keySecret = k1
    /\ ReconcilerInit({"bucket"}, MaxFaults)

Init ==
    \/ /\ \/ VPCInit /\ NoPG /\ NoFW
          \/ PGInit /\ NoVPC /\ NoFW
          \/ FWInit /\ NoVPC /\ NoPG
       /\ NoStorage
       /\ ReconcilerInit(Kinds, MaxFaults)
    \/ (BothNew \/ KeyNew \/ BucketNew) /\ NoVPC /\ NoPG /\ NoFW

ReconcileStep ==
    \/ VPCStep /\ UNCHANGED <<pgVars, fwVars, storageVars>>
    \/ PGStep /\ UNCHANGED <<vpcVars, fwVars, storageVars>>
    \/ FWStep /\ UNCHANGED <<vpcVars, pgVars, storageVars>>
    \/ KeyStep /\ UNCHANGED resourceVars

ReconcileBucketStep == BucketStep /\ UNCHANGED resourceVars

Delivery(ks) == (\E k \in ks : CacheSync(k)) /\ UNCHANGED <<resourceVars, storageVars>>

Next ==
    \/ ReconcileStep
    \/ ReconcileBucketStep
    \/ VPCEnvironment /\ UNCHANGED <<pgVars, fwVars, storageVars>>
    \/ PGEnvironment /\ UNCHANGED <<vpcVars, fwVars, storageVars>>
    \/ FWEnvironment /\ UNCHANGED <<vpcVars, pgVars, storageVars>>
    \/ StorageEnvironment /\ UNCHANGED resourceVars
    \/ Environment /\ UNCHANGED <<resourceVars, storageVars>>

Spec == Init /\ [][Next]_vars

\* Each controller has its own worker, work queue and informer: the queue hands
\* out what is in it, a reconcile runs to its end, and the informer delivers.
\* The bucket is the second object of the behaviours that have two.  A key that
\* fails is retried after longer and longer delays, so the bucket controller
\* finds its cached copy of the key current sooner or later.
Fairness ==
    /\ WF_vars(ReconcileStep) /\ WF_vars(ReconcileBucketStep)
    /\ WF_vars(Delivery(Kinds \ {"bucket"})) /\ WF_vars(Delivery(Kinds \cap {"bucket"}))
    /\ SF_vars(AddAccessKeyRefFinalizer /\ UNCHANGED resourceVars)
    /\ SF_vars(RemoveAccessKeyRefFinalizer /\ UNCHANGED resourceVars)

FairSpec == Spec /\ Fairness

\* The state of the controllers has its type.
TypeOK == ReconcilerTypeOK /\ VPCTypeOK /\ PGTypeOK /\ FWTypeOK /\ StorageTypeOK

-----------------------------------------------------------------------------
(***************************************************************************)
(* Properties of all controllers.                                          *)
(***************************************************************************)
\* The controllers of VPCs, placement groups and firewalls implement the one
\* abstract specification: at most one resource is made for an object, and the
\* object does not go before it, except after the faults that each of them names.
ResourcesImplemented == VPCImplements /\ PGImplements /\ FWImplements

\* The credentials Secret is held for as long as reconcileDelete will need its
\* token, and released when the object goes.
CredentialsHeld == VPCCredentials /\ PGCredentials /\ FWCredentials /\ SecretReleased

\* What the user wants kept no reconcile deletes: a VPC or subnets marked as
\* retained, a VPC or a subnet that had an instance when the reconcile read it, and
\* a bucket without forceDeleteBucket.
Retained == VPCRetained /\ BucketRetained

\* While an object is not deleted and its credentials are there, the cloud comes to
\* have what its spec says, again and again: a failing call, a crash, a stale cache
\* and an event that the filter drops are made up for.  What the code does not make
\* up for each conjunct names: above all a resource deleted by someone else, for
\* firewalls a lost or unmapped event, an adopted firewall and an error that is not
\* retried, for keys a lost event, and for buckets a key object that goes.
EventuallyReady ==
    /\ VPCEventuallyReady /\ PGEventuallyReady /\ FWEventuallyCurrent
    /\ KeyEventuallyUsable /\ BucketEventuallyReady

\* An object that is deleted goes while its credentials are there: a failing call, a
\* crash or a resource that is already gone does not stop reconcileDelete for good.
\* Exceptions are a VPC or a placement group with an instance, a key that a bucket
\* holds or whose access key or Secret is missing, and a bucket whose deletion ended
\* in an error that is not retried.
EventuallyGone ==
    /\ VPCEventuallyGone /\ PGEventuallyGone /\ FWEventuallyGone
    /\ KeyEventuallyGone /\ BucketEventuallyGone

\* Three IPv4 hosts, one of them in two notations, and an IPv6 host.
IP(host, cidr, family) == [host |-> host, cidr |-> cidr, family |-> family]

EditChoices ==
    {{}, {IP("a", FALSE, "IPv4"), IP("a", TRUE, "IPv4"), IP("b", FALSE, "IPv4"),
          IP("c", TRUE, "IPv4"), IP("d", FALSE, "IPv6")}}

\* The Secret elsewhere, or without a format.
AllKeyForms ==
    {[away |-> FALSE, format |-> TRUE], [away |-> TRUE, format |-> TRUE],
     [away |-> FALSE, format |-> FALSE]}

\* Without an accessKeyRef there is nothing to force the deletion with.
AllForms ==
    {[ref |-> TRUE, force |-> TRUE], [ref |-> TRUE, force |-> FALSE],
     [ref |-> FALSE, force |-> FALSE]}

=============================================================================
