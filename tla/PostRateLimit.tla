---------------------------- MODULE PostRateLimit ----------------------------
(***************************************************************************)
(* The limit on POST /linode/instances (util/ratelimits.go) and the        *)
(* critical section of createInstance around it: reconciles of several     *)
(* machines with the same API token share one PostRequestCounter, which    *)
(* remembers what the last response said about the limit.                  *)
(*                                                                         *)
(* Times are counted from now on, in ticks: a time in the future is the    *)
(* number of ticks until then, 0 is now and -1 stands for all of the past. *)
(***************************************************************************)
EXTENDS Integers

CONSTANTS
    Machines,       \* the machines whose instances are to be created
    None,           \* a nil pointer
    Limit,          \* requests that the API serves in a window
    Window,         \* length of a window of the API, in ticks
    Second,         \* ticks in a second
    FaultKinds,     \* faults that may happen: see Faults
    MaxFaults       \* bound on the faults together

\* "lostReply": a request is served but its response is lost; "badHeader": a
\* response whose rate limit headers do not parse; "foreign": another client of
\* the account uses up a request; "crash": the controller dies.
Faults == {"lostReply", "badHeader", "foreign", "crash"}

Times == -1..Window

PostRequestCounter == [ReqRemaining: 0..Limit, RefreshTime: Times]

ASSUME LimitAssumptions ==
    /\ None \notin Machines /\ None \notin PostRequestCounter
    /\ Limit \in Nat \ {0}
    /\ Window \in Nat \ {0}
    /\ Second \in Nat \ {0}
    /\ FaultKinds \subseteq Faults
    /\ MaxFaults \in Nat

VARIABLES
    api,        \* the API's own count: requests left, ticks until the window ends
    ctr,        \* postRequestCounters[tokenHash], or None
    mu,         \* the machine whose reconcile holds ctr.Mu, or None
    pc,         \* where each machine is in createInstance
    wait,       \* ticks until its next reconcile
    resp,       \* the response on its way to it
    refused,    \* history: how many requests the API refused
    turned,     \* history: how often a machine was turned away in this window, by this process
    budget      \* how many more faults may happen

vars == <<api, ctr, mu, pc, wait, resp, refused, turned, budget>>

\* Limit is at least the 1 of a new counter.
New == [ReqRemaining |-> 1, RefreshTime |-> -1]

Response == [ok: BOOLEAN, remaining: 0..Limit, reset: Times]

NoResponse == [ok |-> FALSE, remaining |-> 0, reset |-> -1]

TypeOK ==
    /\ api \in [remaining: 0..Limit, reset: 1..Window]
    /\ ctr \in PostRequestCounter \cup {None}
    /\ mu \in Machines \cup {None}
    /\ pc \in [Machines -> {"start", "check", "limited", "post", "reply", "done"}]
    /\ wait \in [Machines -> 0..(Window + Second)]
    /\ resp \in [Machines -> Response]
    /\ refused \in Nat
    /\ turned \in [Machines -> Nat]
    /\ budget \in 0..MaxFaults

Init ==
    /\ api = [remaining |-> Limit, reset |-> Window]
    /\ ctr = None
    /\ mu = None
    /\ pc = [m \in Machines |-> "start"]
    /\ wait = [m \in Machines |-> 0]
    /\ resp = [m \in Machines |-> NoResponse]
    /\ refused = 0
    /\ turned = [m \in Machines |-> 0]
    /\ budget = MaxFaults

-----------------------------------------------------------------------------
Goto(m, l) == pc' = [pc EXCEPT ![m] = l]

Fault(f) == f \in FaultKinds /\ budget > 0 /\ budget' = budget - 1

\* createInstance returns to a caller that will try again after d ticks.
Return(m, d) ==
    /\ Goto(m, "start")
    /\ wait' = [wait EXCEPT ![m] = d]
    /\ mu' = None

\* A variant that does not wait for the lock.
GetPostReqCounter_NoLock(m) ==
    /\ pc[m] = "start" /\ wait[m] = 0
    /\ mu' = m
    /\ ctr' = IF ctr = None THEN New ELSE ctr
    /\ Goto(m, "check")
    /\ UNCHANGED <<api, wait, resp, refused, turned, budget>>

\* The counter of the token, made when there is none, and its lock.
GetPostReqCounter(m) ==
    /\ pc[m] = "start" /\ wait[m] = 0
    /\ mu = None
    /\ mu' = m
    /\ ctr' = IF ctr = None THEN New ELSE ctr
    /\ Goto(m, "check")
    /\ UNCHANGED <<api, wait, resp, refused, turned, budget>>

IsPOSTLimitReached == ctr.RefreshTime > 0 /\ ctr.ReqRemaining = 0

CheckLimit(m) ==
    /\ pc[m] = "check"
    /\ \/ /\ IsPOSTLimitReached
          /\ Goto(m, "limited")
          /\ turned' = [turned EXCEPT ![m] = @ + 1]
       \/ /\ ~IsPOSTLimitReached
          /\ Goto(m, "post")
          /\ UNCHANGED turned
    /\ UNCHANGED <<api, ctr, mu, wait, resp, refused, budget>>

\* How long to wait, by a clock that may have moved on since the check.
RetryAfter == IF ctr.RefreshTime < 0 THEN 0 ELSE ctr.RefreshTime + Second

\* The machine is requeued after RetryAfter.  A RequeueAfter of 0 is no requeue:
\* reconcileCreate goes on to GetInstanceID, whose error has it tried again.
ErrRateLimit(m) ==
    /\ pc[m] = "limited"
    /\ Return(m, RetryAfter)
    /\ UNCHANGED <<api, ctr, resp, refused, turned, budget>>

\* The API serves the POST, or answers 429 when the window has no request left.
CreateInstance(m) ==
    LET ok == api.remaining > 0
        left == IF ok THEN api.remaining - 1 ELSE 0
    IN
    /\ pc[m] = "post"
    /\ api' = [api EXCEPT !.remaining = left]
    /\ refused' = IF ok THEN refused ELSE refused + 1
    /\ \/ /\ resp' = [resp EXCEPT ![m] = [ok |-> ok, remaining |-> left, reset |-> api.reset]]
          /\ Goto(m, "reply")
          /\ UNCHANGED <<mu, wait, budget>>
       \/ /\ Fault("lostReply")
          /\ Return(m, 0)
          /\ UNCHANGED resp
    /\ UNCHANGED <<ctr, turned>>

\* A variant that keeps the lock when a header does not parse.
ApiResponseRatelimitCounter_Locked(m) ==
    /\ pc[m] = "reply"
    /\ \/ /\ ctr' = [ReqRemaining |-> resp[m].remaining, RefreshTime |-> resp[m].reset]
          /\ IF resp[m].ok
             THEN Goto(m, "done") /\ mu' = None /\ UNCHANGED wait
             ELSE Return(m, 0)
          /\ UNCHANGED budget
       \/ /\ Fault("badHeader")
          /\ Goto(m, "start")
          /\ UNCHANGED <<ctr, mu, wait>>
    /\ resp' = [resp EXCEPT ![m] = NoResponse]
    /\ UNCHANGED <<api, refused, turned>>

\* The hook on the response, which runs while the lock is held.  It stops at
\* the first header that does not parse, having set ReqRemaining to 0 if that
\* was the one; its error makes createInstance fail.
ApiResponseRatelimitCounter(m) ==
    /\ pc[m] = "reply"
    /\ \/ /\ ctr' = [ReqRemaining |-> resp[m].remaining, RefreshTime |-> resp[m].reset]
          /\ IF resp[m].ok
             THEN Goto(m, "done") /\ mu' = None /\ UNCHANGED wait
             ELSE Return(m, 0)
          /\ UNCHANGED budget
       \/ /\ Fault("badHeader")
          /\ \E r \in {0, resp[m].remaining} : ctr' = [ctr EXCEPT !.ReqRemaining = r]
          /\ Return(m, 0)
    /\ resp' = [resp EXCEPT ![m] = NoResponse]
    /\ UNCHANGED <<api, refused, turned>>

-----------------------------------------------------------------------------
Earlier(t, first) == IF t = first THEN t ELSE t - 1

\* Time passes; at the end of a window the API starts the next one.
Tick ==
    /\ IF api.reset > 1
       THEN api' = [api EXCEPT !.reset = @ - 1] /\ UNCHANGED turned
       ELSE /\ api' = [remaining |-> Limit, reset |-> Window]
            /\ turned' = [m \in Machines |-> 0]
    /\ ctr' = IF ctr = None THEN None
              ELSE [ctr EXCEPT !.RefreshTime = Earlier(ctr.RefreshTime, -1)]
    /\ wait' = [m \in Machines |-> Earlier(wait[m], 0)]
    /\ resp' = [m \in Machines |->
                   [resp[m] EXCEPT !.reset = Earlier(resp[m].reset, -1)]]
    /\ UNCHANGED <<mu, pc, refused, budget>>

\* Another client of the account sends a POST.
Foreign ==
    /\ api.remaining > 0 /\ Fault("foreign")
    /\ api' = [api EXCEPT !.remaining = @ - 1]
    /\ UNCHANGED <<ctr, mu, pc, wait, resp, refused, turned>>

\* The controller dies, and its counters with it.
Crash ==
    /\ Fault("crash")
    /\ ctr' = None
    /\ mu' = None
    /\ pc' = [m \in Machines |-> IF pc[m] = "done" THEN "done" ELSE "start"]
    /\ wait' = [m \in Machines |-> 0]
    /\ resp' = [m \in Machines |-> NoResponse]
    /\ turned' = [m \in Machines |-> 0]
    /\ UNCHANGED <<api, refused>>

Step(m) ==
    \/ GetPostReqCounter(m) \/ CheckLimit(m) \/ ErrRateLimit(m)
    \/ CreateInstance(m) \/ ApiResponseRatelimitCounter(m)

Next == (\E m \in Machines : Step(m)) \/ Tick \/ Foreign \/ Crash

Spec == Init /\ [][Next]_vars

\* Time passes, a reconcile goes on, and the lock is granted in some fair order
\* (sync.Mutex hands it to a waiter that has starved for a millisecond).
Fairness ==
    /\ WF_vars(Tick)
    /\ \A m \in Machines : WF_vars(Step(m)) /\ SF_vars(GetPostReqCounter(m))

FairSpec == Spec /\ Fairness

-----------------------------------------------------------------------------
(***************************************************************************)
(* Properties.                                                             *)
(***************************************************************************)
\* The critical section works: the API refuses no POST of the controller unless
\* something disturbed its count, and every disturbance costs at most one
\* refused request, because its response puts the count right.
RefusedOncePerFault == refused <= MaxFaults - budget

\* A machine that is turned away waits until the window is over: the same process
\* turns it away at most once in a window, whatever the headers said.
TurnedAwayOnce == \A m \in Machines : turned[m] <= 1

\* However the limit is shared, every machine gets its instance: neither a
\* counter at 0 nor a bad header can lock the creation up.
EventuallyCreated == <>[](\A m \in Machines : pc[m] = "done")

=============================================================================
