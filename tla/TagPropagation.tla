--------------------------- MODULE TagPropagation ---------------------------
(***************************************************************************)
(* How the tags and the firewall of a LinodeMachineTemplate reach the      *)
(* Linode instances: the template controller copies them to the            *)
(* LinodeMachines that were cloned from the template                       *)
(* (linodemachinetemplate_controller.go), and the update loop of each      *)
(* LinodeMachine brings them to its instance (reconcileUpdate, getTags and *)
(* reconcileFirewallID), merging the tags with those a user put on it.     *)
(***************************************************************************)
EXTENDS Naturals, FiniteSets

CONSTANTS
    Clones,         \* the LinodeMachines cloned from the template
    Tags,           \* the tags a template may list
    AutoGenTags,    \* GetAutoGenTags: the name of the cluster
    ManualTags,     \* tags that are put on an instance by hand
    FirewallIDs,    \* the ids a template may name; 0 is none
    Contents,       \* the tags and firewalls a template may be given together
    MaxTemplateEdits, MaxTagFaults

ASSUME TagAssumptions ==
    /\ 0 \in FirewallIDs
    /\ Contents \subseteq [tags: SUBSET Tags, firewall: FirewallIDs]
    /\ Tags \cap AutoGenTags = {} /\ (Tags \cup AutoGenTags) \cap ManualTags = {}
    /\ MaxTemplateEdits \in Nat /\ MaxTagFaults \in Nat

\* What can go wrong for a machine: "failed", the API refuses a call; "lost", it
\* serves the call and the reply is lost; "patch", a write of Kubernetes fails;
\* "crash", the controller restarts; "unrecorded", the machine is cloned while
\* the status of the template does not say what the machine gets; "dropped", the
\* last reconcile ended with an error that is not retried.
TagFaults == {"failed", "lost", "patch", "crash", "unrecorded", "dropped"}

VARIABLES
    template,   \* the LinodeMachineTemplate: spec and status
    lm,         \* the LinodeMachines
    linode,     \* the instances
    work,       \* the reconcile of the template
    loop,       \* the reconciles of the LinodeMachines
    pending,    \* the work queues: "template" and LinodeMachines
    tagFaults,  \* history: what went wrong for each machine
    edits, chances

tagVars == <<template, lm, linode, work, loop, pending, tagFaults, edits, chances>>

Content == [tags: SUBSET Tags, firewall: FirewallIDs]

NoTags == [tags |-> {}, firewall |-> 0]

Clone == [exists: BOOLEAN, spec: Content, status: SUBSET Tags]

LinodeInstance ==
    [exists: BOOLEAN, tags: SUBSET (Tags \cup AutoGenTags \cup ManualTags), firewall: FirewallIDs]

NoClone == [exists |-> FALSE, spec |-> NoTags, status |-> {}]

NoLinode == [exists |-> FALSE, tags |-> {}, firewall |-> 0]

IdleWork == [at |-> "idle", spec |-> NoTags, status |-> NoTags, list |-> {},
             found |-> FALSE, copy |-> [m \in Clones |-> NoClone]]

IdleLoop == [at |-> "idle", copy |-> NoClone, read |-> {}, again |-> FALSE]

TagTypeOK ==
    /\ template \in [spec: Content, status: Content]
    /\ lm \in [Clones -> Clone]
    /\ linode \in [Clones -> LinodeInstance]
    /\ work.list \subseteq Clones
    /\ pending \subseteq Clones \cup {"template"}
    /\ tagFaults \in [Clones -> SUBSET TagFaults]

TagInit ==
    /\ template \in [spec: Contents, status: {NoTags}]
    /\ lm = [m \in Clones |-> NoClone]
    /\ linode = [m \in Clones |-> NoLinode]
    /\ work = IdleWork
    /\ loop = [m \in Clones |-> IdleLoop]
    /\ pending = {"template"}
    /\ tagFaults = [m \in Clones |-> {}]
    /\ edits = MaxTemplateEdits /\ chances = MaxTagFaults

-----------------------------------------------------------------------------
TagFault(f, ms) ==
    /\ chances > 0 /\ chances' = chances - 1
    /\ tagFaults' = [m \in Clones |-> tagFaults[m] \cup (IF m \in ms THEN {f} ELSE {})]

NoFault == UNCHANGED <<tagFaults, chances>>

Existing == {m \in Clones : lm[m].exists}

(***************************************************************************)
(* LinodeMachineTemplateReconciler                                         *)
(***************************************************************************)
ReconcileTemplate ==
    /\ work.at = "idle" /\ "template" \in pending
    /\ work' = [at |-> "machines", spec |-> template.spec, status |-> template.status,
                list |-> Existing, found |-> FALSE, copy |-> lm]
    /\ pending' = pending \ {"template"}
    /\ NoFault
    /\ UNCHANGED <<template, lm, linode, loop, edits>>

TemplateFails(patched) ==
    /\ work' = IdleWork
    /\ pending' = pending \cup {"template"} \cup patched
    /\ UNCHANGED template

\* A patch writes only the fields in which the new copy differs from the one that was read.
Patched(stored, copy, spec) ==
    [stored EXCEPT !.spec.tags = IF spec.tags # copy.spec.tags THEN spec.tags ELSE @,
                   !.spec.firewall =
                       IF spec.firewall # copy.spec.firewall THEN spec.firewall ELSE @]

\* A variant that pushes only the tags.
Needed_TagsOnly(m) ==
    [tags |-> IF work.spec.tags # work.status.tags THEN work.spec.tags
              ELSE work.copy[m].spec.tags,
     firewall |-> work.copy[m].spec.firewall]

\* What the template's status says that a machine of the list needs.
Needed(m) ==
    [tags |-> IF work.spec.tags # work.status.tags THEN work.spec.tags
              ELSE work.copy[m].spec.tags,
     firewall |-> IF work.spec.firewall # work.status.firewall THEN work.spec.firewall
                  ELSE work.copy[m].spec.firewall]

\* reconcileTags and reconcileFirewallID of one machine, a patch each; an error ends
\* the reconcile and may leave the machine with the tags only, or with both.
reconcileMachine(m) ==
    /\ work.at = "machines" /\ m \in work.list
    /\ \/ /\ lm[m].exists
          /\ lm' = [lm EXCEPT ![m] = Patched(@, work.copy[m], Needed(m))]
          /\ work' = [work EXCEPT !.list = @ \ {m}, !.found = TRUE]
          /\ pending' = pending \cup {m}
          /\ NoFault
          /\ UNCHANGED template
       \/ ~lm[m].exists /\ TemplateFails({}) /\ NoFault /\ UNCHANGED lm
       \/ /\ lm[m].exists /\ TagFault("patch", Clones)
          /\ LET copy == work.copy[m]
                 tagsOnly == [Needed(m) EXCEPT !.firewall = copy.spec.firewall]
             IN  \E spec \in {copy.spec, tagsOnly, Needed(m)} :
                    lm' = [lm EXCEPT ![m] = Patched(@, copy, spec)]
          /\ TemplateFails(IF lm' = lm THEN {} ELSE {m})
    /\ UNCHANGED <<linode, loop, edits>>

\* The status that the template gets.
Recorded == [template EXCEPT !.status = IF work.found THEN work.spec ELSE @]

\* The status gets what was pushed, unless there was no machine to push it to.  The
\* patch also has the time of the reconcile as that of the Ready condition, an
\* event of the template unless the second is the same.  An error of the patch is
\* logged and not returned.
CloseTemplate ==
    /\ work.at = "machines" /\ work.list = {}
    /\ \/ /\ template' = Recorded
          /\ work' = IdleWork
          /\ \/ pending' = pending \cup {"template"}
             \/ Recorded = template /\ UNCHANGED pending
          /\ NoFault
          /\ UNCHANGED lm
       \/ /\ TagFault("patch", Clones)
          /\ work' = IdleWork
          /\ UNCHANGED <<template, lm, pending>>
    /\ UNCHANGED <<linode, loop, edits>>

-----------------------------------------------------------------------------
(***************************************************************************)
(* The tags and the firewall of an instance: the LinodeMachine controller  *)
(***************************************************************************)
\* A variant that sets the tags to those of the spec.
getTags_SpecOnly(copy, instanceTags) == copy.spec.tags \cup AutoGenTags

\* A variant that takes no tag off an instance.
getTags_AddOnly(copy, instanceTags) == instanceTags \cup copy.spec.tags \cup AutoGenTags

\* The tags an instance is to have: its own, those of the spec and the generated
\* ones, without those that the status lists and the spec does not.
getTags(copy, instanceTags) ==
    (instanceTags \cup copy.spec.tags \cup AutoGenTags) \ (copy.status \ copy.spec.tags)

\* A reconcile that creates the instance, or reads it.  An error of GetInstance ends it,
\* and with it the work item if the error is not retryable.
ReconcileMachine(m) ==
    /\ loop[m].at = "idle" /\ m \in pending /\ lm[m].exists
    /\ \/ /\ loop' = [loop EXCEPT ![m] =
                          [at |-> IF linode[m].exists THEN "tags" ELSE "create",
                           copy |-> lm[m], read |-> linode[m].tags, again |-> FALSE]]
          /\ pending' = pending \ {m}
          /\ tagFaults' = [tagFaults EXCEPT ![m] = @ \ {"dropped"}]
          /\ UNCHANGED chances
       \/ /\ linode[m].exists /\ UNCHANGED loop
          /\ \/ TagFault("failed", {}) /\ UNCHANGED pending
             \/ TagFault("dropped", {m}) /\ pending' = pending \ {m}
    /\ UNCHANGED <<template, lm, linode, work, edits>>

Go(m, at, again) == loop' = [loop EXCEPT ![m].at = at, ![m].again = again]

\* The instance is created with the tags and the firewall of the spec.
CreateTagged(m) ==
    /\ loop[m].at = "create"
    /\ \/ /\ linode' = [linode EXCEPT ![m] =
                            [exists |-> TRUE, tags |-> getTags(loop[m].copy, {}),
                             firewall |-> loop[m].copy.spec.firewall]]
          /\ Go(m, "close", TRUE)
          /\ NoFault
       \/ TagFault("failed", {}) /\ Go(m, "close", TRUE) /\ UNCHANGED linode
    /\ UNCHANGED <<template, lm, work, pending, edits>>

\* getTags has set Status.Tags in the copy before the call that may fail.
UpdateInstance(m) ==
    /\ loop[m].at = "tags" /\ linode[m].exists
    /\ LET updated == [linode EXCEPT ![m].tags = getTags(loop[m].copy, loop[m].read)] IN
       \/ linode' = updated /\ Go(m, "firewall", FALSE) /\ NoFault
       \/ TagFault("failed", {m}) /\ Go(m, "close", TRUE) /\ UNCHANGED linode
       \/ TagFault("lost", {m}) /\ Go(m, "close", TRUE) /\ linode' = updated
    /\ UNCHANGED <<template, lm, work, pending, edits>>

\* The firewalls that are attached are listed and, if they differ, replaced.
reconcileFirewallID(m) ==
    /\ loop[m].at = "firewall" /\ linode[m].exists
    /\ \/ /\ linode' = [linode EXCEPT ![m].firewall = loop[m].copy.spec.firewall]
          /\ Go(m, "close", FALSE)
          /\ NoFault
       \/ TagFault("failed", {}) /\ Go(m, "close", TRUE) /\ UNCHANGED linode
    /\ UNCHANGED <<template, lm, work, pending, edits>>

Requeued(m, again) ==
    /\ loop' = [loop EXCEPT ![m] = IdleLoop]
    /\ pending' = IF again THEN pending \cup {m} ELSE pending

\* The deferred patch: of the fields here only Status.Tags differs from what was read.
CloseMachine(m) ==
    /\ loop[m].at = "close"
    /\ LET copy == loop[m].copy
           new == [lm[m] EXCEPT !.status =
                       IF copy.spec.tags # copy.status THEN copy.spec.tags ELSE @]
       IN  \/ /\ lm[m].exists /\ new # lm[m]
              /\ lm' = [lm EXCEPT ![m] = new] /\ Requeued(m, TRUE) /\ NoFault
           \/ /\ ~lm[m].exists \/ new = lm[m]
              /\ Requeued(m, loop[m].again) /\ NoFault
              /\ UNCHANGED lm
           \/ /\ TagFault("patch", {m}) /\ Requeued(m, TRUE)
              /\ UNCHANGED lm
    /\ UNCHANGED <<template, linode, work, edits>>

TagStep ==
    \/ ReconcileTemplate \/ CloseTemplate
    \/ \E m \in Clones :
          \/ reconcileMachine(m)
          \/ ReconcileMachine(m) \/ CreateTagged(m) \/ UpdateInstance(m)
          \/ reconcileFirewallID(m) \/ CloseMachine(m)

-----------------------------------------------------------------------------
(***************************************************************************)
(* The user, Cluster API, and restarts of the controller                   *)
(***************************************************************************)
UserEditsTemplate ==
    /\ edits > 0 /\ edits' = edits - 1
    /\ \E w \in Contents \ {template.spec} : template' = [template EXCEPT !.spec = w]
    /\ pending' = pending \cup {"template"}
    /\ NoFault
    /\ UNCHANGED <<lm, linode, work, loop>>

\* Cluster API clones a machine from the template.
CloneCreated(m) ==
    /\ ~lm[m].exists /\ ~linode[m].exists
    /\ lm' = [lm EXCEPT ![m] = [exists |-> TRUE, spec |-> template.spec, status |-> {}]]
    /\ pending' = pending \cup {m}
    /\ tagFaults' = [tagFaults EXCEPT ![m] =
                         IF template.spec = template.status THEN @ ELSE @ \cup {"unrecorded"}]
    /\ UNCHANGED <<template, linode, work, loop, edits, chances>>

\* A machine and its instance are deleted.
CloneRemoved(m) ==
    /\ lm[m].exists /\ loop[m] = IdleLoop
    /\ lm' = [lm EXCEPT ![m] = NoClone]
    /\ linode' = [linode EXCEPT ![m] = NoLinode]
    /\ NoFault
    /\ UNCHANGED <<template, work, loop, pending, edits>>

UserTagsInstance(m) ==
    /\ linode[m].exists
    /\ \E t \in ManualTags \ linode[m].tags :
          linode' = [linode EXCEPT ![m].tags = @ \cup {t}]
    /\ NoFault
    /\ UNCHANGED <<template, lm, work, loop, pending, edits>>

Restart ==
    /\ work # IdleWork \/ \E m \in Clones : loop[m] # IdleLoop
    /\ TagFault("crash", Clones)
    /\ work' = IdleWork
    /\ loop' = [m \in Clones |-> IdleLoop]
    /\ pending' = {"template"} \cup Existing
    /\ UNCHANGED <<template, lm, linode, edits>>

TagEnvironment ==
    \/ UserEditsTemplate \/ Restart
    \/ \E m \in Clones : CloneCreated(m) \/ CloneRemoved(m) \/ UserTagsInstance(m)

TagNext == TagStep \/ TagEnvironment

\* Both controllers work off their queues.
TagFairness ==
    /\ WF_tagVars(ReconcileTemplate \/ CloseTemplate \/ \E m \in Clones : reconcileMachine(m))
    /\ \A m \in Clones :
          WF_tagVars(\/ ReconcileMachine(m) \/ CreateTagged(m) \/ UpdateInstance(m)
                     \/ reconcileFirewallID(m) \/ CloseMachine(m))

-----------------------------------------------------------------------------
(***************************************************************************)
(* Properties                                                              *)
(***************************************************************************)

\* Tags that were put on an instance by hand stay: UpdateInstance replaces the whole
\* list, but with one that has every such tag that GetInstance returned.
ManualTagsKept ==
    [][\A m \in Clones : \A t \in ManualTags :
          (linode'[m].exists /\ t \in linode[m].tags \ linode'[m].tags)
             => t \notin loop[m].read]_linode

Current(m) ==
    /\ lm[m].spec = template.spec
    /\ template.spec.tags \cup AutoGenTags \subseteq linode[m].tags
    /\ linode[m].firewall = template.spec.firewall

\* What the template lists reaches every instance: a machine comes to have the tags and
\* the firewall of the template after every later edit, and so does its instance,
\* whichever calls to create the instance, to read it, to update its tags or to attach its
\* firewall failed or lost their reply on the way.  Not so if it was cloned while the
\* status of the template lagged behind, if a patch failed or the controller restarted
\* between two patches, or if the last GetInstance failed for good (retryIfTransient).
TagsPropagated ==
    \A m \in Clones :
        <>[](lm[m].exists /\ tagFaults[m] \subseteq {"failed", "lost"}) => <>[]Current(m)

\* What the template does not list any more is taken off such an instance again, if
\* no call to update its tags failed either: Status.Tags has forgotten them then.
TagsRemoved ==
    \A m \in Clones :
        <>[](lm[m].exists /\ tagFaults[m] = {})
            => <>[](linode[m].tags \cap Tags = template.spec.tags)

\* An instance follows its template, but for the faults that the conjuncts name: what the
\* template lists is added, and what it does not list any more is taken off.
TagsFollow == TagsPropagated /\ TagsRemoved

=============================================================================
