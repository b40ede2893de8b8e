--------------------------- MODULE DomainRecords ---------------------------
(***************************************************************************)
(* DNS load balancing of the control plane (cloud/services/domains.go): a  *)
(* reconcile of a LinodeCluster with LoadBalancerType "dns" brings the     *)
(* A, AAAA and TXT records of its subdomain up to date, at Linode Domains  *)
(* or at Akamai Edge DNS.  Machines come and go, and turn ready and        *)
(* unready, between any two API calls.                                     *)
(***************************************************************************)
EXTENDS Naturals, FiniteSets, SequencesExt

CONSTANTS
    NumMachines,    \* control plane machines, numbered by their creation
    Providers,      \* the values of dnsProvider
    MaxFlaps,       \* bound on how often machines turn ready or unready
    MaxErrors       \* bound on failing API calls

ASSUME DNSAssumptions ==
    /\ NumMachines \in Nat \ {0}
    /\ Providers \subseteq {"linode", "akamai"}
    /\ MaxFlaps \in Nat /\ MaxErrors \in Nat

Nodes == 1..NumMachines

\* A record of the subdomain: an address of a machine, or the TXT record with
\* the name of the cluster.
TXT == [type |-> "TXT", target |-> 0]

Address(type, m) == [type |-> type, target |-> m]

Records == {TXT} \cup {Address(t, m) : t \in {"A", "AAAA"}, m \in Nodes}

VARIABLES
    machines,   \* the LinodeMachines with their owner Machines
    records,    \* the records at the provider
    cluster,    \* the LinodeCluster: "present", "deleting", "gone"
    queued,     \* the LinodeCluster is in the work queue
    step,       \* where its reconcile is
    operation,  \* "create" or "delete"
    listed,     \* the LinodeMachines that the reconcile listed
    entries,    \* dnsEntries: the records still to ensure, in order
    stale,      \* the records deleteStaleLinodeEntries has still to delete
    provider,   \* dnsProvider
    dropped,    \* the last reconcile ended in an error and no other try
    flaps, errors

controlVars == <<step, operation, listed, entries, stale>>
worldVars == <<machines, flaps>>
dnsVars == <<worldVars, records, cluster, queued, controlVars, provider, dropped, errors>>

DNSTypeOK ==
    /\ machines \in [Nodes -> [life: {"none", "up", "deleting", "gone"},
                                  addresses: BOOLEAN, ready: BOOLEAN]]
    /\ records \subseteq Records
    /\ cluster \in {"present", "deleting", "gone"}
    /\ operation \in {"create", "delete"}
    /\ listed \subseteq Nodes
    /\ stale \subseteq Records \ {TXT}
    /\ \A i \in DOMAIN entries : entries[i] = TXT <=> i = Len(entries)

DNSInit(p) ==
    /\ machines = [m \in Nodes |-> [life |-> "none", addresses |-> FALSE, ready |-> FALSE]]
    /\ records = {}
    /\ cluster = "present"
    /\ queued = TRUE
    /\ step = "idle" /\ operation = "create"
    /\ listed = {} /\ entries = <<>> /\ stale = {}
    /\ provider = p
    /\ dropped = FALSE
    /\ flaps = MaxFlaps /\ errors = MaxErrors

-----------------------------------------------------------------------------
(***************************************************************************)
(* The reconcile.  Only it writes the records, so that a lookup and the    *)
(* call that depends on it are one step, which may fail before or after    *)
(* the write.                                                              *)
(***************************************************************************)
Present == {m \in Nodes : machines[m].life \in {"up", "deleting"}}

Finish(again) ==
    /\ step' = "idle"
    /\ listed' = {} /\ entries' = <<>> /\ stale' = {}
    /\ queued' = (queued \/ again)
    /\ UNCHANGED operation

\* A variant that treats an error of reconcileDelete like one of addMachineToLB.
Abort_Dropped(retryable) == Finish(retryable) /\ dropped' = ~retryable

\* An error: reconcileDelete is tried again in any case, addMachineToLB only
\* after an error of the Linode API that is retryable.
Abort(retryable) ==
    LET again == operation = "delete" \/ retryable IN
    Finish(again) /\ dropped' = ~again

\* The errors that the provider may answer with.
Retryable == IF provider = "akamai" THEN {FALSE} ELSE BOOLEAN

\* A call that is to make the records `after' fails, with or without having done so.
CallFails(after) ==
    /\ errors > 0 /\ errors' = errors - 1
    /\ records' \in {records, after}
    /\ \E retryable \in Retryable : Abort(retryable)

\* A call that makes the records `after'; the reconcile goes on at s.
Call(after, s) ==
    /\ records' = after
    /\ step' = s
    /\ UNCHANGED <<queued, dropped, errors>>

\* reconcile lists the machines, and stops before addMachineToLB while one of
\* them has no address.
ReconcileDNS ==
    /\ step = "idle" /\ queued /\ cluster # "gone"
    /\ queued' = FALSE
    /\ dropped' = FALSE
    /\ operation' = IF cluster = "deleting" THEN "delete" ELSE "create"
    /\ IF cluster = "present" /\ \E m \in Present : ~machines[m].addresses
       THEN UNCHANGED <<step, listed>>
       ELSE step' = "entries" /\ listed' = Present
    /\ UNCHANGED <<worldVars, records, cluster, entries, stale, provider, errors>>

\* All but the oldest machine of the list must be ready ...
MustBeReady(m) == \E n \in listed : n < m

\* A variant that leaves out the machine that is not ready.
processLinodeMachine_Skipped(m) ==
    [again |-> FALSE,
     options |-> IF machines[m].life # "up" \/ ~machines[m].ready THEN <<>>
                 ELSE <<Address("A", m), Address("AAAA", m)>>]

\* ... or processLinodeMachine asks for another try; a machine whose owner is
\* being deleted has no entries.
processLinodeMachine(m) ==
    [again |-> machines[m].life = "up" /\ MustBeReady(m) /\ ~machines[m].ready,
     options |-> IF machines[m].life # "up" \/ ~machines[m].addresses THEN <<>>
                 ELSE <<Address("A", m), Address("AAAA", m)>>]

\* A variant that has the TXT record first.
Entries_TXTFirst(options) == <<TXT>> \o options

Entries(options) == Append(options, TXT)

getDNSEntriesToEnsure ==
    LET Sorted == SetToSortSeq(listed, <)
        each == [i \in DOMAIN Sorted |-> processLinodeMachine(Sorted[i])]
    IN  /\ step = "entries"
        /\ \/ /\ \A i \in DOMAIN each : ~each[i].again
              /\ entries' = Entries(FlattenSeq([i \in DOMAIN each |-> each[i].options]))
              /\ Call(records, IF provider = "akamai" THEN "resetA" ELSE "list")
              /\ UNCHANGED <<operation, listed, stale>>
           \/ /\ \E i \in DOMAIN each : each[i].again
              /\ Finish(TRUE)
              /\ UNCHANGED <<records, dropped, errors>>
           \/ /\ errors > 0 /\ errors' = errors - 1
              /\ Abort(FALSE)
              /\ UNCHANGED records
        /\ UNCHANGED <<worldVars, cluster, provider>>

\* getDNSMachineIPs
IPs == ToSet(entries) \ {TXT}

\* A variant that leaves stale records alone when the cluster is deleted.
ListDomainRecords_CreateOnly ==
    /\ step = "list"
    /\ \/ /\ stale' = IF operation = "create" THEN (records \ {TXT}) \ IPs ELSE {}
          /\ Call(records, "stale")
          /\ UNCHANGED <<operation, listed, entries>>
       \/ CallFails(records)
    /\ UNCHANGED <<worldVars, cluster, provider>>

\* GetDomainID and the list of the subdomain's records.
ListDomainRecords ==
    /\ step = "list"
    /\ \/ /\ stale' = (records \ {TXT}) \ IPs
          /\ Call(records, "stale")
          /\ UNCHANGED <<operation, listed, entries>>
       \/ CallFails(records)
    /\ UNCHANGED <<worldVars, cluster, provider>>

deleteStaleLinodeEntries ==
    /\ step = "stale"
    /\ \/ /\ stale = {}
          /\ Call(records, "ensure")
          /\ UNCHANGED <<operation, listed, entries, stale>>
       \/ \E r \in stale :
             \/ /\ Call(records \ {r}, "stale")
                /\ stale' = stale \ {r}
                /\ UNCHANGED <<operation, listed, entries>>
             \/ CallFails(records \ {r})
    /\ UNCHANGED <<worldVars, cluster, provider>>

\* The text of an address: two groups of zeros are "::" in the status of a
\* LinodeMachine and ":0:0:" in the answers of Edge DNS.
Target(r) == [address |-> r, zeros |-> IF r.type = "AAAA" THEN "::" ELSE "none"]

EdgeTarget(r) == [address |-> r, zeros |-> IF r.type = "AAAA" THEN ":0:0:" ELSE "none"]

\* strings.Replace
Replace(text, old, new) == IF text.zeros = old THEN [text EXCEPT !.zeros = new] ELSE text

\* A variant that keeps all targets.
resetAkamaiRecord_Kept(type) == records

\* A variant that compares the texts as they are.
resetAkamaiRecord_AsRead(type) ==
    {r \in records : r.type = type => \E e \in IPs : EdgeTarget(r) = Target(e)}

\* The targets of an Akamai record that are still wanted.
resetAkamaiRecord(type) ==
    {r \in records : r.type = type =>
        \E e \in IPs : Replace(EdgeTarget(r), ":0:0:", "::") = Target(e)}

deleteStaleAkamaiEntries ==
    /\ step \in {"resetA", "resetAAAA"}
    /\ LET after == resetAkamaiRecord(IF step = "resetA" THEN "A" ELSE "AAAA") IN
       \/ /\ Call(after, IF step = "resetA" THEN "resetAAAA" ELSE "ensure")
          /\ UNCHANGED <<operation, listed, entries, stale>>
       \/ CallFails(after)
    /\ UNCHANGED <<worldVars, cluster, provider>>

\* The ownership of an address is a TXT record of the subdomain.
Owned(r) == r = TXT \/ TXT \in records

\* CreateDomainRecord, and EnsureAkamaiDNSEntries to create.
Created(r) == records \cup {r}

\* DeleteDomainRecord; deleteAkamaiEntry removes the only target with its record.
Deleted(r) ==
    IF provider = "akamai" /\ Cardinality({x \in records : x.type = r.type}) <= 1
    THEN {x \in records : x.type # r.type}
    ELSE IF provider = "akamai"
    THEN {x \in records : x.type = r.type => EdgeTarget(x) # Replace(Target(r), "::", ":0:0:")}
    ELSE records \ {r}

\* Whether there is something of r to delete: at Akamai its record, whatever its targets.
Found(r) ==
    IF provider = "akamai" THEN \E x \in records : x.type = r.type ELSE r \in records

EnsureDNSEntry ==
    /\ step = "ensure" /\ entries # <<>>
    /\ LET r == Head(entries)
           after == IF operation = "create" THEN Created(r)
                    ELSE IF Found(r) THEN Deleted(r) ELSE records
       IN  \/ /\ (operation = "delete" /\ Found(r)) => Owned(r)
              /\ Call(after, "ensure")
              /\ entries' = Tail(entries)
              /\ UNCHANGED <<operation, listed, stale>>
           \/ /\ operation = "delete" /\ Found(r) /\ ~Owned(r)
              /\ Abort(FALSE)
              /\ UNCHANGED <<records, errors>>
           \/ CallFails(IF operation = "create" \/ Owned(r) THEN after ELSE records)
    /\ UNCHANGED <<worldVars, cluster, provider>>

\* The end of the reconcile; reconcileDelete waits for the LinodeMachines it listed.
ReconciledDNS ==
    /\ step = "ensure" /\ entries = <<>>
    /\ LET done == operation = "delete" /\ listed = {} IN
       /\ cluster' = IF done THEN "gone" ELSE cluster
       /\ Finish(operation = "delete" /\ ~done)
    /\ UNCHANGED <<worldVars, records, provider, dropped, errors>>

DNSStep ==
    \/ ReconcileDNS \/ getDNSEntriesToEnsure
    \/ ListDomainRecords \/ deleteStaleLinodeEntries \/ deleteStaleAkamaiEntries
    \/ EnsureDNSEntry \/ ReconciledDNS

-----------------------------------------------------------------------------
(***************************************************************************)
(* The machines and the user.  The watches of SetupWithManager queue the   *)
(* cluster for each of these events.                                       *)
(***************************************************************************)
Event == queued' = TRUE /\ UNCHANGED <<records, controlVars, provider, dropped, errors>>

\* The control plane gets its machines one after the other.
MachineCreated(m) ==
    /\ cluster = "present"
    /\ machines[m].life = "none" /\ \A n \in 1..(m - 1) : machines[n].life # "none"
    /\ machines' = [machines EXCEPT ![m].life = "up"]
    /\ Event
    /\ UNCHANGED <<cluster, flaps>>

MachineGetsAddresses(m) ==
    /\ m \in Present /\ ~machines[m].addresses
    /\ machines' = [machines EXCEPT ![m].addresses = TRUE]
    /\ Event
    /\ UNCHANGED <<cluster, flaps>>

\* isCapiMachineReady changes.
MachineTurns(m) ==
    /\ machines[m].life = "up" /\ machines[m].addresses
    /\ flaps > 0 /\ flaps' = flaps - 1
    /\ machines' = [machines EXCEPT ![m].ready = ~@]
    /\ Event
    /\ UNCHANGED cluster

MachineDeleted(m) ==
    /\ machines[m].life = "up"
    /\ machines' = [machines EXCEPT ![m].life = "deleting"]
    /\ Event
    /\ UNCHANGED <<cluster, flaps>>

MachineGone(m) ==
    /\ machines[m].life = "deleting"
    /\ machines' = [machines EXCEPT ![m].life = "gone"]
    /\ Event
    /\ UNCHANGED <<cluster, flaps>>

UserDeletesCluster ==
    /\ cluster = "present"
    /\ cluster' = "deleting"
    /\ Event
    /\ UNCHANGED worldVars

DNSEnvironment ==
    \/ UserDeletesCluster
    \/ \E m \in Nodes : \/ MachineCreated(m) \/ MachineGetsAddresses(m)
                           \/ MachineTurns(m) \/ MachineDeleted(m) \/ MachineGone(m)

DNSNext == DNSStep \/ DNSEnvironment

\* The work queue hands out the cluster, and a reconcile goes on.
DNSFairness == WF_dnsVars(DNSStep)

-----------------------------------------------------------------------------
(***************************************************************************)
(* Properties                                                              *)
(***************************************************************************)

\* No record outlives its cluster: reconcileDelete lets the LinodeCluster go only
\* after a pass that found no machine and deleted every address and the TXT
\* record, whatever failed in the passes before.
NoRecordLeft == cluster = "gone" => records = {}

\* The proof of ownership goes last: the TXT record, without which DeleteDomainRecord
\* and deleteAkamaiEntry refuse to delete an address, is deleted only when the
\* subdomain has no address any more.
OwnershipLast == [][(TXT \in records /\ TXT \notin records') => records' = {}]_records

\* A machine that is in service is not taken out of it: while the cluster is not
\* being deleted, neither a machine that turns unready nor one that is added or
\* deleted makes EnsureDNSEntries delete the address of another machine.
InServiceKept ==
    [][operation = "create" =>
         \A r \in records \ records' : r # TXT /\ machines[r.target].life # "up"]_records

\* EnsureDNSEntries never deletes a record that is still needed: the address of a
\* machine in service, or the proof of ownership before the addresses.
DeletionsGuarded == InServiceKept /\ OwnershipLast

\* What the records are to be.
Wanted ==
    LET up == {m \in Nodes : machines[m].life = "up"}
    IN  {TXT} \cup {Address(t, m) : t \in {"A", "AAAA"}, m \in up}

Settled ==
    /\ cluster = "present" /\ ~dropped
    /\ \A m \in Present : machines[m].addresses /\ machines[m].ready

\* The records follow the machines: when every machine has its addresses and is
\* ready, and the last reconcile did not end in an error that retryIfTransient
\* drops, the subdomain comes to have the addresses of exactly the machines that
\* are not being deleted.
EventuallyCurrent == <>[]Settled => <>[](records = Wanted)

\* The deletion ends: a cluster that is being deleted and has no machines any more
\* does not stay, whatever records earlier passes left and whoever owns them.
EventuallyReleased == ~ <>[](cluster = "deleting" /\ Present = {})

\* Whatever happened on the way, EnsureDNSEntries gets where it is to get: the
\* records of a cluster become those of its machines, and its deletion ends.
RecordsConverge == EventuallyCurrent /\ EventuallyReleased

=============================================================================
