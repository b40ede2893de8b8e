-------------------------- MODULE ManagedResource --------------------------
(***************************************************************************)
(* What a resource controller promises of an object and the cloud resource *)
(* it stands for: nothing is created for an object that is gone, at most   *)
(* one resource is created for it, and the object goes away only when its  *)
(* resource is gone.  The two flags record the disturbances that the code  *)
(* does not make good: after "doubled" a second resource may be created,   *)
(* after "forgotten" the object may go away and leave its resource behind. *)
(***************************************************************************)
CONSTANT Resources      \* the ids of the resources the API can create

VARIABLES
    object,         \* "present", "deleting" or "gone"
    live,           \* the resources created for the object that exist
    doubled,        \* a disturbance after which a second one may be created
    forgotten       \* a disturbance after which one may be left behind

vars == <<object, live, doubled, forgotten>>

Init ==
    /\ object = "present"
    /\ live = {}
    /\ {doubled, forgotten} \subseteq BOOLEAN

Provision(r) ==
    /\ object # "gone"
    /\ live = {} \/ doubled
    /\ live' = live \cup {r}
    /\ UNCHANGED object

Destroy(r) ==
    /\ live' = live \ {r}
    /\ UNCHANGED object

\* The user asks for the deletion; an object without finalizer goes at once.
Delete ==
    /\ object = "present"
    /\ object' \in {"deleting", "gone"}
    /\ object' = "gone" => live = {} \/ forgotten
    /\ UNCHANGED live

\* The last finalizer is removed.
Release ==
    /\ object = "deleting"
    /\ live = {} \/ forgotten
    /\ object' = "gone"
    /\ UNCHANGED live

Disturbed ==
    /\ doubled => doubled'
    /\ forgotten => forgotten'
    /\ {doubled', forgotten'} \subseteq BOOLEAN

Next ==
    /\ \/ \E r \in Resources : Provision(r) \/ Destroy(r)
       \/ Delete \/ Release
       \/ UNCHANGED <<object, live>>
    /\ Disturbed

Spec == Init /\ [][Next]_vars

=============================================================================
