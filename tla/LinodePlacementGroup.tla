------------------------ MODULE LinodePlacementGroup ------------------------
(***************************************************************************)
(* The LinodePlacementGroup controller                                     *)
(* (internal/controller/linodeplacementgroup_*.go): it creates or adopts a *)
(* placement group and deletes it when no instance is a member of it any   *)
(* more.                                                                   *)
(***************************************************************************)
EXTENDS Reconciler

CONSTANT PGs        \* the ids of placement groups

ASSUME PGAssumptions == None \notin PGs

VARIABLES
    pg,         \* the placement groups at the Linode API
    members     \* what GetPlacementGroup showed: whether there are members

pgVars == <<pg, members>>

NewPG ==
    [exists |-> TRUE, deleting |-> FALSE, finalizers |-> {}, ready |-> FALSE, id |-> None]

LivePG(i) == i # None /\ pg[i].state = "live"

PGTypeOK ==
    /\ pg \in [PGs -> [state: {"unused", "live", "deleted"}, members: BOOLEAN]]
    /\ members \in BOOLEAN
    /\ "pg" \in Kinds => obj["pg"].id \in PGs \cup {None}

NoPG ==
    /\ pg = [i \in PGs |-> [state |-> "unused", members |-> FALSE]]
    /\ members = FALSE

PGInit ==
    /\ obj = [k \in {"pg"} |-> NewPG]
    /\ NoPG

-----------------------------------------------------------------------------
AtPG(l) == "pg" \in Kinds /\ pc["pg"] = l

PGUntouched == UNCHANGED <<k8sVars, base, secret>>

ReconcilePG ==
    /\ "pg" \in Kinds
    /\ Begin("pg", "credentials", TRUE)
    /\ members' = FALSE
    /\ UNCHANGED pg

SetCredentialRefTokenPG ==
    /\ AtPG("credentials")
    /\ \/ /\ TokenAvailable("pg")
          /\ Goto("pg", IF scope["pg"].deleting THEN "get" ELSE "addFinalizer")
          /\ UNCHANGED histVars
       \/ /\ ~TokenAvailable("pg")
          /\ Goto("pg", "requeue")
          /\ UNCHANGED histVars
       \/ /\ "pg" \in UsesCreds /\ CallFails
          /\ Goto("pg", "requeue")
    /\ PGUntouched /\ UNCHANGED <<scope, pgVars>>

\* The update event of the request that sets PGID is dropped.
PassesPG(o, p) == GenerationChanged(o, p) /\ ~(o.id = None /\ p.id # None)

AddFinalizerPG ==
    /\ AtPG("addFinalizer")
    /\ PatchFinalizer("pg", IF scope["pg"].id # None THEN "update" ELSE "addCredentials",
                      "requeue")
    /\ Announce("pg", PassesPG(obj["pg"], obj'["pg"]))
    /\ UNCHANGED pgVars

\* An object with PGID is ready, whatever the API says: all of it is immutable.
UpdatePG ==
    /\ AtPG("update")
    /\ Set("pg", [scope["pg"] EXCEPT !.ready = TRUE])
    /\ Goto("pg", "return")
    /\ PGUntouched /\ UNCHANGED <<histVars, pgVars>>

\* A variant that forgets the credentials Secret.
AddCredentialsRefFinalizerPG_Forgotten ==
    /\ AtPG("addCredentials")
    /\ Goto("pg", "list")
    /\ UNCHANGED <<k8sVars, base, scope, secret, histVars, pgVars>>

AddCredentialsRefFinalizerPG ==
    /\ AtPG("addCredentials")
    /\ TakeSecret("pg", "list", "requeue")
    /\ UNCHANGED <<k8sVars, base, scope, pgVars>>

\* reconcilePlacementGroup: a group with the object's name is adopted.
reconcilePlacementGroup ==
    /\ AtPG("list")
    /\ \/ \E i \in PGs :
             /\ LivePG(i)
             /\ Set("pg", [scope["pg"] EXCEPT !.id = i, !.ready = TRUE])
             /\ Goto("pg", "return")
             /\ UNCHANGED histVars
       \/ /\ \A i \in PGs : ~LivePG(i)
          /\ Goto("pg", "create")
          /\ UNCHANGED <<scope, histVars>>
       \/ /\ CallFails
          /\ Goto("pg", "requeue")
          /\ UNCHANGED scope
    /\ PGUntouched /\ UNCHANGED pgVars

\* A variant that does not ask for another try when the creation fails.
CreatePlacementGroup_NoRetry ==
    /\ AtPG("create")
    /\ \/ \E i \in PGs :
             /\ pg[i].state = "unused"
             /\ pg' = [pg EXCEPT ![i].state = "live"]
             /\ Set("pg", [scope["pg"] EXCEPT !.id = i, !.ready = TRUE])
             /\ UNCHANGED histVars
       \/ CallFails /\ UNCHANGED <<pg, scope>>
    /\ Goto("pg", "return")
    /\ PGUntouched /\ UNCHANGED members

CreatePlacementGroup ==
    /\ AtPG("create")
    /\ \/ \E i \in PGs :
             /\ pg[i].state = "unused"
             /\ pg' = [pg EXCEPT ![i].state = "live"]
             /\ \/ /\ Set("pg", [scope["pg"] EXCEPT !.id = i, !.ready = TRUE])
                   /\ Goto("pg", "return")
                   /\ UNCHANGED histVars
                \/ /\ Fault("pg", "lostReply")
                   /\ Goto("pg", "requeue")
                   /\ UNCHANGED scope
       \/ /\ CallFails
          /\ Goto("pg", "requeue")
          /\ UNCHANGED <<pg, scope>>
    /\ PGUntouched /\ UNCHANGED members

-----------------------------------------------------------------------------
\* A variant that takes the answer that there is no such group for a failure.
GetPlacementGroup_NotFoundFails ==
    LET s == scope["pg"] IN
    /\ AtPG("get")
    /\ members' = (LivePG(s.id) /\ pg[s.id].members)
    /\ Goto("pg", IF LivePG(s.id) THEN "delete" ELSE IF s.id = None THEN "release" ELSE "requeue")
    /\ PGUntouched /\ UNCHANGED <<scope, histVars, pg>>

\* reconcileDelete reads the group before it deletes it; 404 means deleted.
GetPlacementGroup ==
    LET s == scope["pg"] IN
    /\ AtPG("get")
    /\ \/ /\ LivePG(s.id)
          /\ members' = pg[s.id].members
          /\ Goto("pg", "delete")
          /\ UNCHANGED <<scope, histVars>>
       \/ /\ ~LivePG(s.id)
          /\ Set("pg", [s EXCEPT !.id = None])
          /\ Goto("pg", "release")
          /\ UNCHANGED <<members, histVars>>
       \/ /\ s.id # None /\ CallFails
          /\ Goto("pg", "requeue")
          /\ UNCHANGED <<scope, members>>
    /\ PGUntouched /\ UNCHANGED pg

\* A variant that gives up on the members after the timeout and goes on.
DeletePlacementGroup_Timeout ==
    LET s == scope["pg"] IN
    /\ AtPG("delete")
    /\ pg' = IF LivePG(s.id) /\ ~members THEN [pg EXCEPT ![s.id].state = "deleted"] ELSE pg
    /\ Set("pg", [s EXCEPT !.id = None])
    /\ Goto("pg", "release")
    /\ PGUntouched /\ UNCHANGED <<members, histVars>>

\* A group that was seen with members is left alone, before and after the
\* timeout.
DeletePlacementGroup ==
    LET s == scope["pg"]
        Done == Set("pg", [s EXCEPT !.id = None]) /\ Goto("pg", "release")
    IN
    /\ AtPG("delete")
    /\ \/ /\ members
          /\ Goto("pg", "requeue")
          /\ UNCHANGED <<pg, scope, histVars>>
       \/ /\ ~members /\ LivePG(s.id)
          /\ pg' = [pg EXCEPT ![s.id] = [state |-> "deleted", members |-> FALSE]]
          /\ \/ Done /\ UNCHANGED histVars
             \/ Fault("pg", "lostReply") /\ Goto("pg", "requeue") /\ UNCHANGED scope
       \/ /\ ~members /\ ~LivePG(s.id)
          /\ Done
          /\ UNCHANGED <<pg, histVars>>
       \/ /\ ~members /\ CallFails
          /\ Goto("pg", "requeue")
          /\ UNCHANGED <<pg, scope>>
    /\ PGUntouched /\ UNCHANGED members

\* A variant that does not release the Secret.
RemoveCredentialsRefFinalizerPG_Kept ==
    /\ AtPG("release")
    /\ Set("pg", [scope["pg"] EXCEPT !.finalizers = @ \ {"pg"}])
    /\ Goto("pg", "return")
    /\ PGUntouched /\ UNCHANGED <<histVars, pgVars>>

RemoveCredentialsRefFinalizerPG ==
    /\ AtPG("release")
    /\ ReleaseSecret("pg", "return", [scope["pg"] EXCEPT !.finalizers = @ \ {"pg"}])
    /\ UNCHANGED <<k8sVars, base, pgVars>>

ClosePG ==
    /\ "pg" \in Kinds
    /\ ClosePatch("pg")
    /\ Announce("pg", PassesPG(obj["pg"], obj'["pg"]))
    /\ members' = FALSE
    /\ UNCHANGED pg

-----------------------------------------------------------------------------
\* A machine that has read the id of the group joins it, and leaves it.
Join(i) ==
    /\ "pg" \in Kinds /\ obj["pg"].id = i /\ obj["pg"].ready
    /\ LivePG(i) /\ ~pg[i].members
    /\ pg' = [pg EXCEPT ![i].members = TRUE]
    /\ UNCHANGED <<reconcilerVars, members>>

Leave(i) ==
    /\ pg[i].members
    /\ pg' = [pg EXCEPT ![i].members = FALSE]
    /\ UNCHANGED <<reconcilerVars, members>>

OutOfBandPG(i) ==
    /\ "pg" \in Kinds /\ LivePG(i)
    /\ Fault("pg", "outOfBand")
    /\ pg' = [pg EXCEPT ![i] = [state |-> "deleted", members |-> FALSE]]
    /\ UNCHANGED <<k8sVars, ctrlVars, secret, members>>

PGStep ==
    \/ ReconcilePG \/ SetCredentialRefTokenPG \/ AddFinalizerPG \/ UpdatePG
    \/ AddCredentialsRefFinalizerPG \/ reconcilePlacementGroup \/ CreatePlacementGroup
    \/ GetPlacementGroup \/ DeletePlacementGroup
    \/ RemoveCredentialsRefFinalizerPG \/ ClosePG

PGEnvironment == \E i \in PGs : Join(i) \/ Leave(i) \/ OutOfBandPG(i)

-----------------------------------------------------------------------------
(***************************************************************************)
(* Properties.                                                             *)
(***************************************************************************)
\* A LinodePlacementGroup and its placement groups, as a managed resource.
PGResource ==
    INSTANCE ManagedResource WITH
        Resources <- PGs,
        object <- IF "pg" \notin Kinds \/ (obj["pg"].exists /\ ~obj["pg"].deleting)
                  THEN "present"
                  ELSE IF obj["pg"].exists THEN "deleting" ELSE "gone",
        live <- {i \in PGs : LivePG(i)},
        doubled <- FALSE,
        forgotten <- "pg" \in Kinds
                     /\ ~Undisturbed("pg", {"lostReply", "lostPatch", "crash", "stale"})

\* The controller does for a placement group what ManagedResource promises;
\* in particular neither a timeout nor an error on the way of a deletion lets
\* the object go before the group.
PGImplements == PGResource!Spec

\* The Secret with the token that deleting a placement group needs stays until
\* the group is gone: reconcileCreate takes the Secret's finalizer first,
\* reconcileDelete gives it back last.
PGCredentials ==
    "pg" \in Kinds \cap UsesCreds =>
        (LivePG(obj["pg"].id) /\ Undisturbed("pg", {"stale"}) =>
            secret.exists /\ "pg" \in secret.held)

\* The object becomes ready, again and again while it is not deleted and its
\* credentials are there.
PGEventuallyReady ==
    []<>("pg" \in Kinds =>
            \/ obj["pg"].deleting \/ ~obj["pg"].exists \/ obj["pg"].ready
            \/ ("pg" \in UsesCreds /\ (secret.deleting \/ ~secret.exists)))

\* A deletion is never stuck while the credentials are there and no instance
\* is a member.
PGEventuallyGone ==
    []<>~("pg" \in Kinds /\ obj["pg"].exists /\ obj["pg"].deleting
          /\ TokenAvailable("pg") /\ \A i \in PGs : ~pg[i].members)

=============================================================================
