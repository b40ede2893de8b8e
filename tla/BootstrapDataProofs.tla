------------------------ MODULE BootstrapDataProofs ------------------------
(***************************************************************************)
(* Proofs about BootstrapData, for every limit, every size of the          *)
(* bootstrap data and any number of failing calls, restarts and edits of   *)
(* the cluster's object store.                                             *)
(***************************************************************************)
EXTENDS BootstrapData, TLAPS

UserDataRecord == [size: Nat, url: 0..2]

\* The types that the proofs need, those of the running reconcile included.
Types ==
    /\ owner \in {"present", "deleting", "gone"}
    /\ data \in [size: Sizes, compressed: Sizes, gzip: BOOLEAN]
    /\ refs \in 0..2 /\ known \in 0..2 /\ try \in 0..3
    /\ objects \subseteq Stores
    /\ instance \in [status: {"none", "booting", "running"}, data: UserDataRecord]
    /\ userData \in UserDataRecord
    /\ phase \in {"idle", "resolve", "upload", "create", "cleanup", "purge", "delete"}

\* What the phases of the reconcile say about the machine: objects are only
\* removed when the node has joined or the machine is being deleted, and a
\* LinodeMachine that is gone is not reconciled.
Phases ==
    /\ phase = "cleanup" => joined
    /\ phase \in {"purge", "delete"} => owner = "deleting"
    /\ owner = "gone" => phase = "idle"
    /\ phase = "upload" => try \in 1..known
    /\ phase \in {"cleanup", "purge"} => try \in 1..3

\* The user data, on its way and at the instance, is below the limit.
Fits ==
    /\ userData.size < MetadataLimit
    /\ instance.data.size < MetadataLimit

\* The URL in the user data is that of an object that is there.
Available ==
    /\ phase = "create" /\ userData.url # 0 => userData.url \in objects
    /\ ObjectAvailable

\* Unless something was left behind on purpose or by an error, every object is in
\* a store that the cluster names, and the pass of reconcileDelete over the
\* stores leaves none behind it.
Swept ==
    ~uncleaned =>
        /\ objects \subseteq 1..refs
        /\ phase # "idle" => known <= refs
        /\ phase = "purge" => objects \subseteq try..known
        /\ phase = "delete" => objects = {}
        /\ owner = "gone" => objects = {}

IInv == Types /\ Phases /\ Fits /\ Available /\ Swept

-----------------------------------------------------------------------------
\* The invariant holds before the first reconcile.
LEMMA InitHolds == BootInit => IInv
<1> SUFFICES ASSUME BootInit PROVE IInv
  OBVIOUS
<1> USE BootstrapAssumptions DEF BootInit, NoData, UserDataRecord, Stores
<1>1. Types
  BY DEF Types
<1>2. Phases
  BY DEF Phases
<1>3. Fits
  BY DEF Fits
<1>4. Available
  BY DEF Available, ObjectAvailable
<1>5. Swept
  BY DEF Swept
<1> QED
  BY <1>1, <1>2, <1>3, <1>4, <1>5 DEF IInv

\* The types are kept.
LEMMA TypeStep == Types /\ Phases /\ [BootNext]_bootVars => Types'
<1> SUFFICES ASSUME Types, Phases, [BootNext]_bootVars PROVE Types'
  OBVIOUS
<1> USE BootstrapAssumptions DEF Types, Phases, UserDataRecord, Stores
<1>1. CASE ReconcileBootstrap
  BY <1>1 DEF ReconcileBootstrap, CleanupDue
<1>2. CASE resolveBootstrapData
  <2> USE <1>2 DEF resolveBootstrapData, At, Done, NoData
  <2>1. data.size \in Nat /\ data.compressed \in Nat
    BY DEF Types
  <2>2. userData' \in UserDataRecord
    BY <2>1
  <2>3. phase' \in {"create", "idle", "upload"} /\ try' \in 0..3 /\ known' \in 0..2
    OBVIOUS
  <2> QED
    BY <2>2, <2>3
<1>3. CASE createObjectWithCredentials
  <2> USE <1>3 DEF createObjectWithCredentials, At, Done, NoData
  <2>1. try \in Stores
    OBVIOUS
  <2>2. objects' \subseteq Stores
    BY <2>1
  <2>3. userData' \in UserDataRecord
    BY <2>1
  <2>4. phase' \in {"create", "idle", "upload"} /\ try' \in 0..3 /\ known' \in 0..2
    OBVIOUS
  <2> QED
    BY <2>2, <2>3, <2>4
<1>4. CASE CreateWithUserData
  BY <1>4 DEF CreateWithUserData, StoreFault, Done, NoData
<1>5. CASE deleteObjectWithCredentials
  <2> USE <1>5 DEF deleteObjectWithCredentials, Cleaned, At, Done, NoData
  <2>1. objects' \subseteq Stores
    OBVIOUS
  <2>2. userData' \in UserDataRecord
    OBVIOUS
  <2>3. phase' \in {"cleanup", "purge", "delete", "idle"} /\ try' \in 0..3 /\ known' \in 0..2
    OBVIOUS
  <2> QED
    BY <2>1, <2>2, <2>3
<1>6. CASE DeleteWithUserData
  BY <1>6 DEF DeleteWithUserData, StoreFault, Done, NoData
<1>7. CASE InstanceRuns
  BY <1>7 DEF InstanceRuns, Observed, loopVars
<1>8. CASE NodeJoins
  BY <1>8 DEF NodeJoins, Observed, loopVars
<1>9. CASE UserDeletesMachine
  BY <1>9 DEF UserDeletesMachine, Observed, loopVars
<1>10. CASE UserEditsStores
  BY <1>10 DEF UserEditsStores, Observed, loopVars
<1>11. CASE RestartBootstrap
  BY <1>11 DEF RestartBootstrap, StoreFault, Done, NoData
<1>12. CASE UNCHANGED bootVars
  BY <1>12 DEF bootVars, loopVars
<1> QED
  BY <1>1, <1>2, <1>3, <1>4, <1>5, <1>6, <1>7, <1>8, <1>9, <1>10, <1>11, <1>12
  DEF BootNext, BootStep, BootEnvironment

\* What the phases say is kept.
LEMMA PhaseStep == Types /\ Phases /\ [BootNext]_bootVars => Phases'
<1> SUFFICES ASSUME Types, Phases, [BootNext]_bootVars PROVE Phases'
  OBVIOUS
<1> USE BootstrapAssumptions DEF Types, Phases
<1>1. CASE ReconcileBootstrap
  BY <1>1 DEF ReconcileBootstrap, CleanupDue
<1>2. CASE resolveBootstrapData
  BY <1>2 DEF resolveBootstrapData, Direct, At, Done, NoData
<1>3. CASE createObjectWithCredentials
  BY <1>3 DEF createObjectWithCredentials, StoreFault, At, Done, NoData
<1>4. CASE CreateWithUserData
  BY <1>4 DEF CreateWithUserData, StoreFault, Done, NoData
<1>5. CASE deleteObjectWithCredentials
  BY <1>5 DEF deleteObjectWithCredentials, Cleaned, StoreFault, At, Done, NoData
<1>6. CASE DeleteWithUserData
  BY <1>6 DEF DeleteWithUserData, StoreFault, Done, NoData
<1>7. CASE InstanceRuns
  BY <1>7 DEF InstanceRuns, Observed, loopVars
<1>8. CASE NodeJoins
  BY <1>8 DEF NodeJoins, Observed, loopVars
<1>9. CASE UserDeletesMachine
  BY <1>9 DEF UserDeletesMachine, Observed, loopVars
<1>10. CASE UserEditsStores
  BY <1>10 DEF UserEditsStores, Observed, loopVars
<1>11. CASE RestartBootstrap
  BY <1>11 DEF RestartBootstrap, StoreFault, Done, NoData
<1>12. CASE UNCHANGED bootVars
  BY <1>12 DEF bootVars, loopVars
<1> QED
  BY <1>1, <1>2, <1>3, <1>4, <1>5, <1>6, <1>7, <1>8, <1>9, <1>10, <1>11, <1>12
  DEF BootNext, BootStep, BootEnvironment

\* What is sent stays below the limit: each of the three ways of delivery checks it.
LEMMA FitsStep == Types /\ Fits /\ [BootNext]_bootVars => Fits'
<1> SUFFICES ASSUME Types, Fits, [BootNext]_bootVars PROVE Fits'
  OBVIOUS
<1> USE BootstrapAssumptions DEF Types, Fits, UserDataRecord
<1>1. CASE ReconcileBootstrap
  BY <1>1 DEF ReconcileBootstrap, CleanupDue
<1>2. CASE resolveBootstrapData
  BY <1>2 DEF resolveBootstrapData, Direct, At, Done, NoData
<1>3. CASE createObjectWithCredentials
  BY <1>3 DEF createObjectWithCredentials, StoreFault, At, Done, NoData
<1>4. CASE CreateWithUserData
  BY <1>4 DEF CreateWithUserData, StoreFault, Done, NoData
<1>5. CASE deleteObjectWithCredentials
  BY <1>5 DEF deleteObjectWithCredentials, Cleaned, StoreFault, At, Done, NoData
<1>6. CASE DeleteWithUserData
  BY <1>6 DEF DeleteWithUserData, StoreFault, Done, NoData
<1>7. CASE InstanceRuns
  BY <1>7 DEF InstanceRuns, Observed, loopVars
<1>8. CASE NodeJoins
  BY <1>8 DEF NodeJoins, Observed, loopVars
<1>9. CASE UserDeletesMachine
  BY <1>9 DEF UserDeletesMachine, Observed, loopVars
<1>10. CASE UserEditsStores
  BY <1>10 DEF UserEditsStores, Observed, loopVars
<1>11. CASE RestartBootstrap
  BY <1>11 DEF RestartBootstrap, StoreFault, Done, NoData
<1>12. CASE UNCHANGED bootVars
  BY <1>12 DEF bootVars, loopVars
<1> QED
  BY <1>1, <1>2, <1>3, <1>4, <1>5, <1>6, <1>7, <1>8, <1>9, <1>10, <1>11, <1>12
  DEF BootNext, BootStep, BootEnvironment

\* No step takes away an object that an instance still has to read.
LEMMA AvailableStep == Types /\ Phases /\ Available /\ [BootNext]_bootVars => Available'
<1> SUFFICES ASSUME Types, Phases, Available, [BootNext]_bootVars PROVE Available'
  OBVIOUS
<1> USE BootstrapAssumptions DEF Types, Phases, Available, ObjectAvailable, UserDataRecord
<1>1. CASE ReconcileBootstrap
  BY <1>1 DEF ReconcileBootstrap, CleanupDue
<1>2. CASE resolveBootstrapData
  BY <1>2 DEF resolveBootstrapData, Direct, At, Done, NoData
<1>3. CASE createObjectWithCredentials
  BY <1>3 DEF createObjectWithCredentials, StoreFault, At, Done, NoData
<1>4. CASE CreateWithUserData
  BY <1>4 DEF CreateWithUserData, StoreFault, Done, NoData
<1>5. CASE deleteObjectWithCredentials
  BY <1>5 DEF deleteObjectWithCredentials, Cleaned, StoreFault, At, Done, NoData
<1>6. CASE DeleteWithUserData
  BY <1>6 DEF DeleteWithUserData, StoreFault, Done, NoData
<1>7. CASE InstanceRuns
  BY <1>7 DEF InstanceRuns, Observed, loopVars
<1>8. CASE NodeJoins
  BY <1>8 DEF NodeJoins, Observed, loopVars
<1>9. CASE UserDeletesMachine
  BY <1>9 DEF UserDeletesMachine, Observed, loopVars
<1>10. CASE UserEditsStores
  BY <1>10 DEF UserEditsStores, Observed, loopVars
<1>11. CASE RestartBootstrap
  BY <1>11 DEF RestartBootstrap, StoreFault, Done, NoData
<1>12. CASE UNCHANGED bootVars
  BY <1>12 DEF bootVars, loopVars
<1> QED
  BY <1>1, <1>2, <1>3, <1>4, <1>5, <1>6, <1>7, <1>8, <1>9, <1>10, <1>11, <1>12
  DEF BootNext, BootStep, BootEnvironment

\* The sweep of reconcileDelete misses no store.
LEMMA SweptStep == Types /\ Phases /\ Swept /\ [BootNext]_bootVars => Swept'
<1> SUFFICES ASSUME Types, Phases, Swept, [BootNext]_bootVars PROVE Swept'
  OBVIOUS
<1> USE BootstrapAssumptions DEF Types, Phases, Swept, Stores
<1>1. CASE ReconcileBootstrap
  BY <1>1 DEF ReconcileBootstrap, CleanupDue
<1>2. CASE resolveBootstrapData
  BY <1>2 DEF resolveBootstrapData, Direct, At, Done, NoData
<1>3. CASE createObjectWithCredentials
  <2> USE <1>3 DEF createObjectWithCredentials
  <2>1. owner' # "gone" /\ uncleaned' = uncleaned /\ refs' = refs
    OBVIOUS
  <2>2. ~uncleaned => try \in 1..refs
    OBVIOUS
  <2>3. ~uncleaned => objects' \subseteq 1..refs
    BY <2>2
  <2>4. phase' \in {"create", "upload", "idle"} /\ (phase' # "idle" => known' = known)
    BY DEF At, Done
  <2> QED
    BY <2>1, <2>3, <2>4
<1>4. CASE CreateWithUserData
  BY <1>4 DEF CreateWithUserData, StoreFault, Done, NoData
<1>5. CASE deleteObjectWithCredentials
  <2> USE <1>5 DEF deleteObjectWithCredentials
  <2>1. owner' # "gone" /\ refs' = refs /\ objects' \subseteq objects
    OBVIOUS
  <2>2. SUFFICES ASSUME ~uncleaned' PROVE Swept'
    BY DEF Swept
  <2>3. ~uncleaned /\ objects' = objects \ (IF try <= known THEN {try} ELSE {})
    BY <2>2
  <2>4. phase = "purge" => objects' \subseteq (try + 1)..known
    BY <2>3
  <2>5. CASE try < known
    <3>1. phase' = phase /\ try' = try + 1 /\ known' = known
      <4>1. ~(try >= known)
        BY <2>5
      <4>2. Cleaned(try)
        BY Zenon
      <4> QED
        BY ONLY <4>1, <4>2, Zenon DEF Cleaned, At
    <3>2. objects \subseteq 1..refs /\ known <= refs
      BY <2>3
    <3>3. objects' \subseteq 1..refs' /\ known' <= refs'
      BY ONLY <2>1, <3>1, <3>2
    <3>4. phase' = "purge" => objects' \subseteq try'..known'
      BY ONLY <2>4, <3>1
    <3>5. phase' # "delete"
      BY <3>1
    <3> QED
      BY ONLY <2>1, <3>3, <3>4, <3>5 DEF Swept
  <2>6. CASE try >= known
    <3>1. phase = "purge" => objects' = {}
      BY <2>4, <2>6
    <3> QED
      BY <2>1, <2>3, <2>6, <3>1 DEF Cleaned, At, Done
  <2> QED
    BY <2>5, <2>6
<1>6. CASE DeleteWithUserData
  BY <1>6 DEF DeleteWithUserData, StoreFault, Done, NoData
<1>7. CASE InstanceRuns
  BY <1>7 DEF InstanceRuns, Observed, loopVars
<1>8. CASE NodeJoins
  BY <1>8 DEF NodeJoins, Observed, loopVars
<1>9. CASE UserDeletesMachine
  BY <1>9 DEF UserDeletesMachine, Observed, loopVars
<1>10. CASE UserEditsStores
  <2>1. ~uncleaned' => ~uncleaned /\ ~(refs' < refs)
    BY <1>10, Zenon DEF UserEditsStores
  <2>2. refs' \in 0..2 /\ objects' = objects /\ owner' = owner
    BY <1>10 DEF UserEditsStores, Observed
  <2>3. phase' = phase /\ try' = try /\ known' = known
    BY <1>10 DEF UserEditsStores, Observed, loopVars
  <2> QED
    BY <2>1, <2>2, <2>3
<1>11. CASE RestartBootstrap
  BY <1>11 DEF RestartBootstrap, StoreFault, Done, NoData
<1>12. CASE UNCHANGED bootVars
  BY <1>12 DEF bootVars, loopVars
<1> QED
  BY <1>1, <1>2, <1>3, <1>4, <1>5, <1>6, <1>7, <1>8, <1>9, <1>10, <1>11, <1>12
  DEF BootNext, BootStep, BootEnvironment

\* The invariant is inductive.
LEMMA Inductive == IInv /\ [BootNext]_bootVars => IInv'
  BY TypeStep, PhaseStep, FitsStep, AvailableStep, SweptStep DEF IInv

\* The invariant holds in every state.
LEMMA Invariance == BootSpec => []IInv
  BY InitHolds, Inductive, PTL DEF BootSpec

-----------------------------------------------------------------------------
\* For every limit and all bootstrap data, resolveBootstrapData never has the
\* instance created with user data that the metadata service would refuse.
THEOREM DeliveredDataFits == BootSpec => []UserDataFits
<1>1. IInv => UserDataFits
  BY DEF IInv, Fits, UserDataFits
<1> QED
  BY <1>1, Invariance, PTL

\* However often CreateObject, the creation of the instance and the controller
\* fail, and whatever the user edits, an instance that has to read an object
\* finds it until its node has joined or its machine is deleted.
THEOREM DataStaysAvailable == BootSpec => []ObjectAvailable
<1>1. IInv => ObjectAvailable
  BY DEF IInv, Available
<1> QED
  BY <1>1, Invariance, PTL

\* So the instance can use its user data, for every limit and all bootstrap data.
THEOREM UserDataStaysUsable == BootSpec => []UserDataUsable
  BY DeliveredDataFits, DataStaysAvailable, PTL DEF UserDataUsable

\* reconcileDelete leaves no object behind, in whichever stores failed attempts
\* put it, unless a deletion failed or a store was taken out of the spec.
THEOREM DataIsSwept == BootSpec => []ObjectNotLeft
<1>1. IInv => ObjectNotLeft
  BY DEF IInv, Swept, ObjectNotLeft
<1> QED
  BY <1>1, Invariance, PTL

=============================================================================
