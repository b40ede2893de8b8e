--------------------------- MODULE LinodeFirewall ---------------------------
(***************************************************************************)
(* The LinodeFirewall controller (internal/controller/linodefirewall_*.go) *)
(* with the rules it assembles: an inbound rule of the spec with addresses *)
(* of its own and an AddressSet, and a FirewallRule that the spec refers   *)
(* to for outbound traffic and that refers to an AddressSet in turn.  The  *)
(* user edits all four; the controller watches what the spec refers to.    *)
(***************************************************************************)
EXTENDS Reconciler, FirewallRules

CONSTANTS
    FWs,            \* the ids of firewalls
    IPChoices,      \* the sets of addresses that the user may put into each of the four
    MaxEdits        \* bound on the edits of the user

ASSUME FWAssumptions ==
    /\ None \notin FWs
    /\ MaxEdits \in Nat

VARIABLES
    fw,         \* the firewalls at the Linode API
    acl,        \* the addresses in the objects that the spec leads to
    fwConfig,   \* the rules the running reconcile has assembled
    edits       \* how often the user has edited the rules

fwVars == <<fw, acl, fwConfig, edits>>

\* A LinodeFirewall; direct are the addresses of its own inbound rule.
NewFW ==
    [exists |-> TRUE, deleting |-> FALSE, finalizers |-> {}, ready |-> FALSE, id |-> None,
     direct |-> {}]

\* set is the AddressSet of the inbound rule, rule the FirewallRule, nested the
\* AddressSet of the FirewallRule.
Referenced == {"set", "rule", "nested"}

UnusedFW == [state |-> "unused", rules |-> <<>>, enabled |-> FALSE]

LiveFW(i) == i # None /\ fw[i].state = "live"

\* The rules that the user's objects ask for, the spec being o.
Assembled(o) == processACL(o.direct \cup acl["set"], acl["rule"] \cup acl["nested"])

FWTypeOK ==
    /\ \A i \in FWs :
          /\ fw[i].state \in {"unused", "live", "deleted"}
          /\ WithinLimits(fw[i].rules)
    /\ DOMAIN acl = Referenced
    /\ edits \in 0..MaxEdits
    /\ "fw" \in Kinds => obj["fw"].id \in FWs \cup {None}

NoFW ==
    /\ fw = [i \in FWs |-> UnusedFW]
    /\ acl = [p \in Referenced |-> {}]
    /\ fwConfig = <<>>
    /\ edits = 0

FWInit ==
    /\ \E ips \in IPChoices :
          /\ obj = [k \in {"fw"} |-> [NewFW EXCEPT !.direct = ips]]
          /\ acl = [p \in Referenced |-> IF p = "nested" THEN {} ELSE ips]
    /\ fw = [i \in FWs |-> UnusedFW]
    /\ fwConfig = <<>>
    /\ edits = 0

-----------------------------------------------------------------------------
AtFW(l) == "fw" \in Kinds /\ pc["fw"] = l

FWUntouched == UNCHANGED <<k8sVars, base, secret, acl, edits>>

ReconcileFW ==
    /\ "fw" \in Kinds
    /\ Begin("fw", "credentials", TRUE)
    /\ UNCHANGED fwVars

SetCredentialRefTokenFW ==
    /\ AtFW("credentials")
    /\ \/ /\ TokenAvailable("fw")
          /\ Goto("fw", IF scope["fw"].deleting THEN "checkID" ELSE "addFinalizer")
          /\ UNCHANGED histVars
       \/ /\ ~TokenAvailable("fw")
          /\ Goto("fw", "requeue")
          /\ UNCHANGED histVars
       \/ /\ "fw" \in UsesCreds /\ CallFails
          /\ Goto("fw", "requeue")
    /\ FWUntouched /\ UNCHANGED <<scope, fw, fwConfig>>

\* The update event of the request that sets FirewallID is dropped.
PassesFW(o, p) == GenerationChanged(o, p) /\ ~(o.id = None /\ p.id # None)

AddFinalizerFW ==
    /\ AtFW("addFinalizer")
    /\ PatchFinalizer("fw", IF scope["fw"].id # None THEN "acl" ELSE "addCredentials",
                      "dropped")
    /\ Announce("fw", PassesFW(obj["fw"], obj'["fw"]))
    /\ UNCHANGED fwVars

\* A variant that forgets the credentials Secret.
AddCredentialsRefFinalizerFW_Forgotten ==
    /\ AtFW("addCredentials")
    /\ Goto("fw", "acl")
    /\ FWUntouched /\ UNCHANGED <<scope, fw, fwConfig, histVars>>

AddCredentialsRefFinalizerFW ==
    /\ AtFW("addCredentials")
    /\ TakeSecret("fw", "acl", "dropped")
    /\ UNCHANGED <<k8sVars, base, scope, fwVars>>

\* When one of the two finalizers cannot be stored, reconcile returns neither
\* an error nor a delay.
DroppedFW ==
    /\ AtFW("dropped")
    /\ Note("fw", "dropped")
    /\ Goto("fw", "return")
    /\ FWUntouched /\ UNCHANGED <<scope, fw, fwConfig, budget>>

\* reconcileFirewall, first part: processACL reads the objects the spec leads
\* to.  Too many addresses wait for an edit, other errors are tried again.
AssembleRules ==
    /\ AtFW("acl")
    /\ \/ /\ Assembled(scope["fw"]) = TooManyIPs
          /\ Goto("fw", "return")
          /\ UNCHANGED <<fwConfig, histVars>>
       \/ /\ Assembled(scope["fw"]) # TooManyIPs
          /\ fwConfig' = Assembled(scope["fw"])
          /\ Goto("fw", IF scope["fw"].id = None THEN "create" ELSE "update")
          /\ UNCHANGED histVars
       \/ /\ CallFails
          /\ Goto("fw", "requeue")
          /\ UNCHANGED fwConfig
    /\ FWUntouched /\ UNCHANGED <<scope, fw>>

\* createFirewall: labels are unique, so a firewall that an earlier attempt has
\* left is refused a second time, listed and adopted with the rules it has.
createFirewall ==
    LET taken == {i \in FWs : LiveFW(i)} IN
    /\ AtFW("create")
    /\ \/ \E i \in FWs :
             /\ taken = {} /\ fw[i].state = "unused"
             /\ fw' = [fw EXCEPT ![i] = [UnusedFW EXCEPT !.state = "live", !.rules = fwConfig]]
             /\ \/ /\ Set("fw", [scope["fw"] EXCEPT !.id = i])
                   /\ Goto("fw", "status")
                   /\ UNCHANGED histVars
                \/ /\ Fault("fw", "lostReply")
                   /\ Goto("fw", "requeue")
                   /\ UNCHANGED scope
       \/ \E i \in taken :
             /\ Set("fw", [scope["fw"] EXCEPT !.id = i])
             /\ Goto("fw", "status")
             /\ IF fw[i].rules = fwConfig THEN UNCHANGED faults ELSE Note("fw", "adoptedOld")
             /\ UNCHANGED <<fw, budget>>
       \/ /\ CallFails
          /\ Goto("fw", "requeue")
          /\ UNCHANGED <<fw, scope>>
    /\ FWUntouched /\ UNCHANGED fwConfig

\* updateFirewall: a firewall that is gone is an error.
updateFirewall ==
    LET i == scope["fw"].id IN
    /\ AtFW("update")
    /\ \/ /\ LiveFW(i)
          /\ fw' = [fw EXCEPT ![i].rules = fwConfig]
          /\ \/ Goto("fw", "status") /\ UNCHANGED histVars
             \/ Fault("fw", "lostReply") /\ Goto("fw", "requeue")
       \/ /\ IF LiveFW(i) THEN CallFails ELSE UNCHANGED histVars
          /\ Goto("fw", "requeue")
          /\ UNCHANGED fw
    /\ FWUntouched /\ UNCHANGED <<scope, fwConfig>>

\* reconcileFirewall, last part: the firewall is enabled as the spec says.
UpdateFirewallStatus ==
    LET i == scope["fw"].id IN
    /\ AtFW("status")
    /\ \/ /\ LiveFW(i)
          /\ fw' = [fw EXCEPT ![i].enabled = TRUE]
          /\ Set("fw", [scope["fw"] EXCEPT !.ready = TRUE])
          /\ Goto("fw", "return")
          /\ UNCHANGED histVars
       \/ /\ IF LiveFW(i) THEN CallFails ELSE UNCHANGED histVars
          /\ Goto("fw", "requeue")
          /\ UNCHANGED <<fw, scope>>
    /\ FWUntouched /\ UNCHANGED fwConfig

-----------------------------------------------------------------------------
\* reconcileDelete: without an id the object goes and the Secret stays held;
\* with one the Secret is released before the firewall is deleted.
reconcileDeleteFW ==
    /\ AtFW("checkID")
    /\ IF scope["fw"].id = None
       THEN /\ Set("fw", [scope["fw"] EXCEPT !.finalizers = @ \ {"fw"}])
            /\ Goto("fw", "return")
            /\ IF "fw" \in secret.held THEN Note("fw", "keptSecret") ELSE UNCHANGED faults
       ELSE /\ Goto("fw", "release")
            /\ UNCHANGED <<scope, faults>>
    /\ FWUntouched /\ UNCHANGED <<fw, fwConfig, budget>>

RemoveCredentialsRefFinalizerFW ==
    /\ AtFW("release")
    /\ ReleaseSecret("fw", "delete", scope["fw"])
    /\ UNCHANGED <<k8sVars, base, fwVars>>

\* A variant that takes an error of DeleteFirewall for success.
DeleteFirewall_ErrorIgnored ==
    LET s == scope["fw"] IN
    /\ AtFW("delete")
    /\ \/ /\ fw' = IF LiveFW(s.id) THEN [fw EXCEPT ![s.id] = [UnusedFW EXCEPT !.state = "deleted"]]
                                    ELSE fw
          /\ UNCHANGED histVars
       \/ CallFails /\ UNCHANGED fw
    /\ Set("fw", [s EXCEPT !.finalizers = @ \ {"fw"}]) /\ Goto("fw", "return")
    /\ FWUntouched /\ UNCHANGED fwConfig

\* A variant that takes the answer that there is no such firewall for a failure.
DeleteFirewall_NotFoundFails ==
    LET s == scope["fw"] IN
    /\ AtFW("delete")
    /\ \/ /\ LiveFW(s.id)
          /\ fw' = [fw EXCEPT ![s.id] = [UnusedFW EXCEPT !.state = "deleted"]]
          /\ Set("fw", [s EXCEPT !.finalizers = @ \ {"fw"}]) /\ Goto("fw", "return")
       \/ ~LiveFW(s.id) /\ Goto("fw", "requeue") /\ UNCHANGED <<fw, scope>>
    /\ FWUntouched /\ UNCHANGED <<fwConfig, histVars>>

DeleteFirewall ==
    LET s == scope["fw"]
        Done == Set("fw", [s EXCEPT !.finalizers = @ \ {"fw"}]) /\ Goto("fw", "return")
    IN
    /\ AtFW("delete")
    /\ \/ /\ LiveFW(s.id)
          /\ fw' = [fw EXCEPT ![s.id] = [UnusedFW EXCEPT !.state = "deleted"]]
          /\ \/ Done /\ UNCHANGED histVars
             \/ Fault("fw", "lostReply") /\ Goto("fw", "requeue") /\ UNCHANGED scope
       \/ /\ ~LiveFW(s.id)
          /\ Done
          /\ UNCHANGED <<fw, histVars>>
       \/ /\ CallFails
          /\ Goto("fw", "requeue")
          /\ UNCHANGED <<fw, scope>>
    /\ FWUntouched /\ UNCHANGED fwConfig

CloseFW ==
    /\ "fw" \in Kinds
    /\ ClosePatch("fw")
    /\ Announce("fw", PassesFW(obj["fw"], obj'["fw"]))
    /\ fwConfig' = <<>>
    /\ UNCHANGED <<fw, acl, edits>>

-----------------------------------------------------------------------------
\* The user edits the spec.
UserEditsFirewall(ips) ==
    /\ "fw" \in Kinds /\ obj["fw"].exists /\ ~obj["fw"].deleting
    /\ edits < MaxEdits /\ ips # obj["fw"].direct
    /\ edits' = edits + 1
    /\ obj' = [obj EXCEPT !["fw"].direct = ips]
    /\ unseen' = unseen \cup {"fw"}
    /\ UNCHANGED <<seen, queue, ctrlVars, secret, histVars, fw, acl, fwConfig>>

\* A variant that looks at the rules of the spec only.
buildRequests_RulesOnly(p) == IF p = "set" THEN {"fw"} ELSE {}

\* buildRequests: the firewalls whose spec refers to an object.  An AddressSet
\* that only a FirewallRule refers to is not found.
buildRequests(p) == IF p \in {"set", "rule"} THEN {"fw"} ELSE {}

\* The user edits an AddressSet or a FirewallRule; findObjectsForObject maps
\* the event, or cannot list the firewalls and drops it.
UserEditsReferenced(p, ips) ==
    /\ "fw" \in Kinds
    /\ edits < MaxEdits /\ ips # acl[p]
    /\ edits' = edits + 1
    /\ acl' = [acl EXCEPT ![p] = ips]
    /\ \/ /\ queue' = queue \cup buildRequests(p)
          /\ IF p = "nested" THEN Note("fw", "nested") ELSE UNCHANGED faults
          /\ UNCHANGED budget
       \/ /\ Fault("fw", "lostEvent")
          /\ UNCHANGED queue
    /\ UNCHANGED <<obj, seen, unseen, ctrlVars, secret, fw, fwConfig>>

\* Someone deletes the firewall at the API.
OutOfBandFW(i) ==
    /\ "fw" \in Kinds /\ LiveFW(i)
    /\ Fault("fw", "outOfBand")
    /\ fw' = [fw EXCEPT ![i] = [UnusedFW EXCEPT !.state = "deleted"]]
    /\ UNCHANGED <<k8sVars, ctrlVars, secret, acl, fwConfig, edits>>

FWStep ==
    \/ ReconcileFW \/ SetCredentialRefTokenFW \/ AddFinalizerFW
    \/ AddCredentialsRefFinalizerFW \/ DroppedFW \/ AssembleRules \/ createFirewall
    \/ updateFirewall \/ UpdateFirewallStatus \/ reconcileDeleteFW
    \/ RemoveCredentialsRefFinalizerFW \/ DeleteFirewall \/ CloseFW

FWEnvironment ==
    \/ \E ips \in IPChoices :
          UserEditsFirewall(ips) \/ \E p \in Referenced : UserEditsReferenced(p, ips)
    \/ \E i \in FWs : OutOfBandFW(i)

-----------------------------------------------------------------------------
(***************************************************************************)
(* Properties.                                                             *)
(***************************************************************************)
\* A LinodeFirewall and its firewalls, as a managed resource.
FWResource ==
    INSTANCE ManagedResource WITH
        Resources <- FWs,
        object <- IF "fw" \notin Kinds \/ (obj["fw"].exists /\ ~obj["fw"].deleting)
                  THEN "present"
                  ELSE IF obj["fw"].exists THEN "deleting" ELSE "gone",
        live <- {i \in FWs : LiveFW(i)},
        doubled <- FALSE,
        forgotten <- "fw" \in Kinds
                     /\ ~Undisturbed("fw", {"lostReply", "lostPatch", "crash", "stale"})

\* The controller does for a firewall what ManagedResource promises: unique
\* labels keep a second one from being created.
FWImplements == FWResource!Spec

\* As long as a firewall is not to be deleted, the Secret that deleting it
\* needs is held.
FWCredentials ==
    "fw" \in Kinds \cap UsesCreds =>
        (LiveFW(obj["fw"].id) /\ ~obj["fw"].deleting => secret.exists /\ "fw" \in secret.held)

\* The rules of the API let through what the user's objects ask for, within the
\* limits of the API, again and again, once the edits are over: an edit of any of
\* them leads to a reconcile.
\* Exceptions are an AddressSet behind a FirewallRule, an event that could not
\* be mapped, an adopted firewall with older rules, a reconcile that gave up
\* on a finalizer, and a firewall deleted by someone else.
FWEventuallyCurrent ==
    []<>("fw" \in Kinds =>
            LET o == obj["fw"] IN
            \/ o.deleting \/ ~o.exists
            \/ ("fw" \in UsesCreds /\ (secret.deleting \/ ~secret.exists))
            \/ ~Undisturbed("fw", {"nested", "lostEvent", "adoptedOld", "dropped", "outOfBand"})
            \/ Assembled(o) = TooManyIPs
            \/ /\ o.ready /\ LiveFW(o.id) /\ fw[o.id].enabled
               /\ WithinLimits(fw[o.id].rules)
               /\ Covered(fw[o.id].rules, "inbound") = Hosts(o.direct \cup acl["set"])
               /\ Covered(fw[o.id].rules, "outbound") = Hosts(acl["rule"] \cup acl["nested"]))

\* A deletion is never stuck while the credentials are there.
FWEventuallyGone ==
    []<>~("fw" \in Kinds /\ obj["fw"].exists /\ obj["fw"].deleting /\ TokenAvailable("fw"))

=============================================================================
