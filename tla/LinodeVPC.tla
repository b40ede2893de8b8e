------------------------------ MODULE LinodeVPC ------------------------------
(***************************************************************************)
(* The LinodeVPC controller (internal/controller/linodevpc_*.go): it       *)
(* creates or adopts a VPC, adopts or creates its subnets one by one, and  *)
(* deletes the VPC, or, when it is to be retained, the subnets that are    *)
(* not.  Instances attach to subnets and leave them meanwhile, and the     *)
(* user adds subnets to the spec.                                          *)
(***************************************************************************)
EXTENDS Reconciler

CONSTANTS
    VPCs,           \* the ids of VPCs
    Subnets,        \* subnet labels
    FirstSubnets,   \* the subnets of the spec at the start
    RetainedSubnets \* the subnets whose Retain is set

ASSUME VPCAssumptions ==
    /\ VPCs # {} /\ None \notin VPCs
    /\ FirstSubnets \subseteq Subnets
    /\ RetainedSubnets \subseteq Subnets

VARIABLES
    vpc,        \* the VPCs at the Linode API
    found,      \* what the running reconcile has read of a VPC
    wanted      \* history: the subnets the user has put into the spec

vpcVars == <<vpc, found, wanted>>

\* A LinodeVPC: subnets maps the labels of Spec.Subnets to whether the SubnetID
\* is set.
NewVPC(id, retain) ==
    [exists |-> TRUE, deleting |-> FALSE, finalizers |-> {}, ready |-> FALSE,
     id |-> id, retain |-> retain, subnets |-> [sn \in FirstSubnets |-> FALSE]]

\* named: the label of the VPC is the name of the LinodeVPC; own: a request of
\* the controller created it; nodes: the subnets with an instance.
UnusedVPC ==
    [state |-> "unused", named |-> FALSE, own |-> FALSE, subnets |-> {}, nodes |-> {}]

NothingFound == [subnets |-> {}, nodes |-> {}, done |-> {}]

LiveVPC(i) == i # None /\ vpc[i].state = "live"

VPCTypeOK ==
    /\ vpc \in [VPCs -> [state: {"unused", "live", "deleted"}, named: BOOLEAN, own: BOOLEAN,
                         subnets: SUBSET Subnets, nodes: SUBSET Subnets]]
    /\ found \in [subnets: SUBSET Subnets, nodes: SUBSET Subnets, done: SUBSET Subnets]
    /\ wanted \subseteq Subnets
    /\ \A i \in VPCs : vpc[i].nodes \subseteq vpc[i].subnets
    /\ "vpc" \in Kinds => obj["vpc"].id \in VPCs \cup {None}

NoVPC ==
    /\ vpc = [i \in VPCs |-> UnusedVPC]
    /\ found = NothingFound
    /\ wanted = FirstSubnets

\* The user starts from nothing, or with a VPC made by hand that the spec names
\* by its id or whose label is the object's name.
VPCInit ==
    \E retain \in BOOLEAN, by \in {"none", "id", "label"} :
        LET i == CHOOSE x \in VPCs : TRUE IN
        /\ obj = [k \in {"vpc"} |-> NewVPC(IF by = "id" THEN i ELSE None, retain)]
        /\ vpc = [x \in VPCs |->
                     IF x = i /\ by # "none"
                     THEN [UnusedVPC EXCEPT !.state = "live", !.named = by = "label"]
                     ELSE UnusedVPC]
        /\ found = NothingFound
        /\ wanted = FirstSubnets

-----------------------------------------------------------------------------
AtVPC(l) == "vpc" \in Kinds /\ pc["vpc"] = l

VPCUntouched == UNCHANGED <<k8sVars, base, secret>>

ReconcileVPC ==
    /\ "vpc" \in Kinds
    /\ Begin("vpc", "credentials", TRUE)
    /\ found' = NothingFound
    /\ UNCHANGED <<vpc, wanted>>

SetCredentialRefTokenVPC ==
    /\ AtVPC("credentials")
    /\ \/ /\ TokenAvailable("vpc")
          /\ Goto("vpc", IF scope["vpc"].deleting THEN "get" ELSE "addFinalizer")
          /\ UNCHANGED histVars
       \/ /\ ~TokenAvailable("vpc")
          /\ Goto("vpc", "requeue")
          /\ UNCHANGED histVars
       \/ /\ "vpc" \in UsesCreds /\ CallFails
          /\ Goto("vpc", "requeue")
    /\ VPCUntouched /\ UNCHANGED <<scope, vpcVars>>

\* The update event of the request that sets VPCID is dropped.
PassesVPC(o, p) == GenerationChanged(o, p) /\ ~(o.id = None /\ p.id # None)

AddFinalizerVPC ==
    /\ AtVPC("addFinalizer")
    /\ PatchFinalizer("vpc", IF scope["vpc"].id # None THEN "list" ELSE "addCredentials",
                      "requeue")
    /\ Announce("vpc", PassesVPC(obj["vpc"], obj'["vpc"]))
    /\ UNCHANGED vpcVars

\* A variant that forgets the credentials Secret.
AddCredentialsRefFinalizerVPC_Forgotten ==
    /\ AtVPC("addCredentials")
    /\ Goto("vpc", "list")
    /\ VPCUntouched /\ UNCHANGED <<scope, histVars, vpcVars>>

\* Only reconcileCreate holds the Secret, reconcileUpdate does not.
AddCredentialsRefFinalizerVPC ==
    /\ AtVPC("addCredentials")
    /\ TakeSecret("vpc", "list", "requeue")
    /\ UNCHANGED <<k8sVars, base, scope, vpcVars>>

\* A variant that takes the deletion as the only reason not to create.
Matching_LabelIgnored == {i \in VPCs : LiveVPC(i) /\ i = scope["vpc"].id}

\* What ListVPCs returns: the filter is the id if there is one, else the label.
Matching ==
    {i \in VPCs : LiveVPC(i) /\ IF scope["vpc"].id # None THEN i = scope["vpc"].id
                                                          ELSE vpc[i].named}

\* A variant that replaces the list of the spec by the one of the API.
Adopted_Replaced(s, labels) == [sn \in labels |-> TRUE]

\* The specification's subnets that the VPC has get their SubnetID.
Adopted(s, labels) == [sn \in DOMAIN s |-> s[sn] \/ sn \in labels]

\* reconcileVPC: what is found is adopted (UpdateVPC of the address ranges
\* changes nothing modelled but may fail), otherwise a VPC is created.
reconcileVPC ==
    LET s(i) == [scope["vpc"] EXCEPT !.id = i] IN
    /\ AtVPC("list")
    /\ \/ \E i \in Matching :
             \/ /\ Set("vpc", [s(i) EXCEPT !.subnets = Adopted(@, vpc[i].subnets)])
                /\ found' = [found EXCEPT !.subnets = vpc[i].subnets]
                /\ Goto("vpc", "subnets")
                /\ UNCHANGED histVars
             \/ /\ CallFails
                /\ Set("vpc", s(i))
                /\ Goto("vpc", "requeue")
                /\ UNCHANGED found
       \/ /\ Matching = {}
          /\ Goto("vpc", "create")
          /\ UNCHANGED <<scope, found, histVars>>
       \/ /\ CallFails
          /\ Goto("vpc", "requeue")
          /\ UNCHANGED <<scope, found>>
    /\ VPCUntouched /\ UNCHANGED <<vpc, wanted>>

CreateVPC ==
    LET s == scope["vpc"] IN
    /\ AtVPC("create")
    /\ \/ \E i \in VPCs :
             /\ vpc[i].state = "unused"
             /\ vpc' = [vpc EXCEPT ![i] = [UnusedVPC EXCEPT
                           !.state = "live", !.named = TRUE, !.own = TRUE,
                           !.subnets = DOMAIN s.subnets]]
             /\ \/ /\ Set("vpc", [s EXCEPT !.id = i, !.ready = TRUE,
                                           !.subnets = Adopted(@, DOMAIN @)])
                   /\ Goto("vpc", "return")
                   /\ UNCHANGED histVars
                \/ /\ Fault("vpc", "lostReply")
                   /\ Goto("vpc", "requeue")
                   /\ UNCHANGED scope
       \/ /\ CallFails
          /\ Goto("vpc", "requeue")
          /\ UNCHANGED <<vpc, scope>>
    /\ VPCUntouched /\ UNCHANGED <<found, wanted>>

\* The subnets of the spec without SubnetID; the ones that the list showed got
\* theirs with it.
Missing == {sn \in DOMAIN scope["vpc"].subnets : ~scope["vpc"].subnets[sn]}

\* A variant that stops at the first subnet it has created.
CreateVPCSubnet_First ==
    LET i == scope["vpc"].id IN
    /\ AtVPC("subnets")
    /\ \/ /\ Missing = {}
          /\ Set("vpc", [scope["vpc"] EXCEPT !.ready = TRUE])
          /\ UNCHANGED vpc
       \/ \E sn \in Missing :
             /\ LiveVPC(i)
             /\ vpc' = [vpc EXCEPT ![i].subnets = @ \cup {sn}]
             /\ Set("vpc", [scope["vpc"] EXCEPT !.ready = TRUE, !.subnets[sn] = TRUE])
    /\ Goto("vpc", "return")
    /\ VPCUntouched /\ UNCHANGED <<found, wanted, histVars>>

\* reconcileExistingVPC: the missing subnets are created one after the other.
CreateVPCSubnet ==
    LET i == scope["vpc"].id IN
    /\ AtVPC("subnets")
    /\ \/ /\ Missing = {}
          /\ Set("vpc", [scope["vpc"] EXCEPT !.ready = TRUE])
          /\ Goto("vpc", "return")
          /\ UNCHANGED <<vpc, histVars>>
       \/ \E sn \in Missing :
             /\ LiveVPC(i)
             /\ vpc' = [vpc EXCEPT ![i].subnets = @ \cup {sn}]
             /\ \/ /\ Set("vpc", [scope["vpc"] EXCEPT !.subnets[sn] = TRUE])
                   /\ UNCHANGED <<pc, histVars>>
                \/ /\ Fault("vpc", "lostReply")
                   /\ Goto("vpc", "requeue")
                   /\ UNCHANGED scope
       \/ /\ Missing # {}
          /\ IF LiveVPC(i) THEN CallFails ELSE UNCHANGED histVars
          /\ Goto("vpc", "requeue")
          /\ UNCHANGED <<vpc, scope>>
    /\ VPCUntouched /\ UNCHANGED <<found, wanted>>

-----------------------------------------------------------------------------
\* A variant that takes the answer that there is no such VPC for a failure.
getVPC_NotFoundFails ==
    LET s == scope["vpc"] IN
    /\ AtVPC("get")
    /\ found' = IF LiveVPC(s.id)
                THEN [subnets |-> vpc[s.id].subnets, nodes |-> vpc[s.id].nodes, done |-> {}]
                ELSE found
    /\ Goto("vpc", IF LiveVPC(s.id) THEN (IF s.retain THEN "deleteSubnets" ELSE "delete")
                   ELSE IF s.id = None THEN "release" ELSE "requeue")
    /\ VPCUntouched /\ UNCHANGED <<scope, histVars, vpc, wanted>>

\* A variant that deletes a VPC that is to be retained.
getVPC_RetainIgnored ==
    LET s == scope["vpc"] IN
    /\ AtVPC("get")
    /\ found' = IF LiveVPC(s.id)
                THEN [subnets |-> vpc[s.id].subnets, nodes |-> vpc[s.id].nodes, done |-> {}]
                ELSE found
    /\ Goto("vpc", IF LiveVPC(s.id) THEN "delete" ELSE "release")
    /\ VPCUntouched /\ UNCHANGED <<scope, histVars, vpc, wanted>>

\* getVPC of reconcileDelete: without an id, or without a VPC, there is nothing
\* to delete.  VPCID is cleared unless the VPC is retained.
getVPC ==
    LET s == scope["vpc"] IN
    /\ AtVPC("get")
    /\ \/ /\ LiveVPC(s.id)
          /\ found' = [subnets |-> vpc[s.id].subnets, nodes |-> vpc[s.id].nodes, done |-> {}]
          /\ Goto("vpc", IF s.retain THEN "deleteSubnets" ELSE "delete")
          /\ UNCHANGED <<scope, histVars>>
       \/ /\ ~LiveVPC(s.id)
          /\ Set("vpc", IF s.retain THEN s ELSE [s EXCEPT !.id = None])
          /\ Goto("vpc", "release")
          /\ UNCHANGED <<found, histVars>>
       \/ /\ s.id # None /\ CallFails
          /\ Goto("vpc", "requeue")
          /\ UNCHANGED <<scope, found>>
    /\ VPCUntouched /\ UNCHANGED <<vpc, wanted>>

Deleted(i) == [vpc EXCEPT ![i].state = "deleted", ![i].subnets = {}, ![i].nodes = {}]

\* deleteVPCResources: a VPC that was seen with instances is left alone, before
\* and after the timeout.
deleteVPCResources ==
    LET s == scope["vpc"]
        Done == Set("vpc", [s EXCEPT !.id = None]) /\ Goto("vpc", "release")
    IN
    /\ AtVPC("delete")
    /\ \/ /\ found.nodes # {}
          /\ Goto("vpc", "requeue")
          /\ UNCHANGED <<vpc, scope, histVars>>
       \/ /\ found.nodes = {} /\ LiveVPC(s.id)
          /\ vpc' = Deleted(s.id)
          /\ \/ Done /\ UNCHANGED histVars
             \/ Fault("vpc", "lostReply") /\ Goto("vpc", "requeue") /\ UNCHANGED scope
       \/ /\ found.nodes = {} /\ ~LiveVPC(s.id)
          /\ Done
          /\ UNCHANGED <<vpc, histVars>>
       \/ /\ found.nodes = {} /\ CallFails
          /\ Goto("vpc", "requeue")
          /\ UNCHANGED <<vpc, scope>>
    /\ VPCUntouched /\ UNCHANGED <<found, wanted>>

\* A variant that deletes the subnets the API shows, not those of the spec.
ToDelete_AllFound == found.subnets \ found.done

\* The subnets handleRetainedSubnets has still to go through.
ToDelete == (DOMAIN scope["vpc"].subnets \ RetainedSubnets) \ found.done

\* handleRetainedSubnets: stops at the first subnet that was seen with
\* instances; a subnet without SubnetID is not at the API under its id.
handleRetainedSubnets ==
    LET s == scope["vpc"] IN
    /\ AtVPC("deleteSubnets")
    /\ \/ \E sn \in ToDelete :
             \/ /\ sn \in found.nodes /\ s.subnets[sn]
                /\ Goto("vpc", "requeue")
                /\ UNCHANGED <<vpc, found, histVars>>
             \/ /\ ~(sn \in found.nodes /\ s.subnets[sn])
                /\ vpc' = IF s.subnets[sn]
                          THEN [vpc EXCEPT ![s.id].subnets = @ \ {sn}, ![s.id].nodes = @ \ {sn}]
                          ELSE vpc
                /\ \/ /\ found' = [found EXCEPT !.done = @ \cup {sn}]
                      /\ UNCHANGED <<pc, histVars>>
                   \/ /\ Fault("vpc", "lostReply")
                      /\ Goto("vpc", "requeue")
                      /\ UNCHANGED found
             \/ /\ CallFails
                /\ Goto("vpc", "requeue")
                /\ UNCHANGED <<vpc, found>>
       \/ /\ ToDelete = {}
          /\ Goto("vpc", "release")
          /\ UNCHANGED <<vpc, found, histVars>>
    /\ VPCUntouched /\ UNCHANGED <<scope, wanted>>

RemoveCredentialsRefFinalizerVPC ==
    /\ AtVPC("release")
    /\ ReleaseSecret("vpc", "return", [scope["vpc"] EXCEPT !.finalizers = @ \ {"vpc"}])
    /\ UNCHANGED <<k8sVars, base, vpcVars>>

CloseVPC ==
    /\ "vpc" \in Kinds
    /\ ClosePatch("vpc")
    /\ Announce("vpc", PassesVPC(obj["vpc"], obj'["vpc"]))
    /\ found' = NothingFound
    /\ UNCHANGED <<vpc, wanted>>

-----------------------------------------------------------------------------
(***************************************************************************)
(* Machines and users.                                                     *)
(***************************************************************************)
\* A machine that has read the id of the VPC joins a subnet, and leaves it.
Attach(i, sn) ==
    /\ "vpc" \in Kinds /\ obj["vpc"].id = i /\ obj["vpc"].ready
    /\ LiveVPC(i) /\ sn \in vpc[i].subnets \ vpc[i].nodes
    /\ vpc' = [vpc EXCEPT ![i].nodes = @ \cup {sn}]
    /\ UNCHANGED <<reconcilerVars, found, wanted>>

Detach(i, sn) ==
    /\ sn \in vpc[i].nodes
    /\ vpc' = [vpc EXCEPT ![i].nodes = @ \ {sn}]
    /\ UNCHANGED <<reconcilerVars, found, wanted>>

\* The user adds a subnet to the spec; a reconcile that runs meanwhile may
\* write the list it started with over it.
UserAddsSubnet(sn) ==
    /\ "vpc" \in Kinds /\ obj["vpc"].exists /\ ~obj["vpc"].deleting
    /\ sn \notin wanted
    /\ wanted' = wanted \cup {sn}
    /\ obj' = [obj EXCEPT !["vpc"].subnets =
                  [x \in DOMAIN @ \cup {sn} |-> IF x = sn THEN FALSE ELSE @[x]]]
    /\ unseen' = unseen \cup {"vpc"}
    /\ IF pc["vpc"] = "idle" THEN UNCHANGED faults ELSE Note("vpc", "overlap")
    /\ UNCHANGED <<seen, queue, ctrlVars, secret, budget, vpc, found>>

OutOfBandVPC(i) ==
    /\ "vpc" \in Kinds /\ LiveVPC(i)
    /\ Fault("vpc", "outOfBand")
    /\ vpc' = Deleted(i)
    /\ UNCHANGED <<k8sVars, ctrlVars, secret, found, wanted>>

VPCStep ==
    \/ ReconcileVPC \/ SetCredentialRefTokenVPC \/ AddFinalizerVPC
    \/ AddCredentialsRefFinalizerVPC \/ reconcileVPC \/ CreateVPC \/ CreateVPCSubnet
    \/ getVPC \/ deleteVPCResources \/ handleRetainedSubnets
    \/ RemoveCredentialsRefFinalizerVPC \/ CloseVPC

VPCEnvironment ==
    \/ \E i \in VPCs : OutOfBandVPC(i) \/ \E sn \in Subnets : Attach(i, sn) \/ Detach(i, sn)
    \/ \E sn \in Subnets : UserAddsSubnet(sn)

-----------------------------------------------------------------------------
(***************************************************************************)
(* Properties.                                                             *)
(***************************************************************************)
\* A LinodeVPC and the VPCs created for it, as a managed resource.
VPCResource ==
    INSTANCE ManagedResource WITH
        Resources <- VPCs,
        object <- IF "vpc" \notin Kinds \/ (obj["vpc"].exists /\ ~obj["vpc"].deleting)
                  THEN "present"
                  ELSE IF obj["vpc"].exists THEN "deleting" ELSE "gone",
        live <- {i \in VPCs : LiveVPC(i) /\ vpc[i].own},
        doubled <- "vpc" \in Kinds /\ ~Undisturbed("vpc", {"outOfBand"}),
        forgotten <-
            "vpc" \in Kinds /\
            (obj["vpc"].retain
             \/ ~Undisturbed("vpc", {"lostReply", "lostPatch", "crash", "stale", "outOfBand"}))

\* The controller does for a VPC that is not retained what ManagedResource
\* promises.  The list by label in front of CreateVPC is what makes a second
\* creation impossible after a lost reply, a lost patch or a crash.
VPCImplements == VPCResource!Spec

\* The controller deletes a VPC only once the object is deleted, only if it is not to
\* be retained, and only if it had no instance when the reconcile read it.  Of a VPC
\* that is retained it deletes no subnet that is to be retained, that the spec does
\* not list, or that had an instance then (deleteVPCResources, handleRetainedSubnets).
VPCRetained ==
    [][\A i \in VPCs : LiveVPC(i) /\ ~OutOfBandVPC(i) =>
          /\ LiveVPC(i)' \/ (obj["vpc"].deleting /\ ~obj["vpc"].retain /\ found.nodes = {})
          /\ \A sn \in vpc[i].subnets \ vpc'[i].subnets :
                 /\ obj["vpc"].deleting /\ sn \notin found.nodes
                 /\ obj["vpc"].retain => sn \in wanted \ RetainedSubnets]_vpc

\* A subnet that the user puts into the spec stays there, unless a reconcile
\* was running at that moment or started from an older copy: the patch of
\* Close sends the whole list of subnets.
SubnetsKept ==
    "vpc" \in Kinds /\ Undisturbed("vpc", {"overlap", "stale"}) =>
        wanted \subseteq DOMAIN obj["vpc"].subnets

\* The Secret with the token that deleting a VPC needs stays until the VPC is
\* gone, if the controller made the VPC: reconcileCreate takes the Secret's
\* finalizer first.  For a VPC that the spec named from the start it does not.
VPCCredentials ==
    "vpc" \in Kinds \cap UsesCreds /\ ~obj["vpc"].retain =>
        LET i == obj["vpc"].id IN
        LiveVPC(i) /\ vpc[i].own /\ Undisturbed("vpc", {"outOfBand", "stale"}) =>
            secret.exists /\ "vpc" \in secret.held

\* The object becomes ready with all its subnets at the API, again and again
\* while it is not deleted and its credentials are there: every error path
\* requeues, although the event filter drops most events.
VPCEventuallyReady ==
    []<>("vpc" \in Kinds =>
            LET o == obj["vpc"] IN
            \/ o.deleting \/ ~o.exists \/ ("vpc" \in UsesCreds /\ ~(secret.exists /\ ~secret.deleting))
            \/ ~Undisturbed("vpc", {"outOfBand"})
            \/ o.ready /\ LiveVPC(o.id) /\ DOMAIN o.subnets \subseteq vpc[o.id].subnets)

\* A deletion is never stuck while the credentials are there and no instance
\* is attached.
VPCEventuallyGone ==
    []<>~("vpc" \in Kinds /\ obj["vpc"].exists /\ obj["vpc"].deleting
          /\ TokenAvailable("vpc") /\ \A i \in VPCs : vpc[i].nodes = {})

=============================================================================
