------------------------- MODULE PostRateLimitProofs -------------------------
(***************************************************************************)
(* Proofs about PostRateLimit: its types, the critical section of          *)
(* createInstance, and what it guarantees about refused and turned away    *)
(* requests, for any number of machines, any limit and any window.         *)
(***************************************************************************)
EXTENDS PostRateLimit, TLAPS

Inside == {"check", "limited", "post", "reply"}

\* At most one reconcile is in the critical section, and it has the counter.
Critical ==
    \A m \in Machines : pc[m] \in Inside => mu = m /\ ctr # None

\* A time that the controller knows to be in the future is the end of the
\* window that the API is in.
Current ==
    /\ ctr # None /\ ctr.RefreshTime > 0 => ctr.RefreshTime = api.reset
    /\ \A m \in Machines : resp[m].reset > 0 => resp[m].reset = api.reset

\* A fault has not cost its refused request yet.
Slack == refused < MaxFaults - budget

Known == ctr # None /\ ctr.RefreshTime > 0 /\ ctr.ReqRemaining = 0

Answered(m) == resp[m].reset > 0 /\ resp[m].remaining = 0

\* When the API has no request left in the window, the controller knows, or is
\* about to learn it from a response, or there is a fault to account for it.
Counted ==
    /\ refused <= MaxFaults - budget
    /\ api.remaining = 0 =>
          \/ Slack
          \/ \E m \in Machines : pc[m] = "reply" /\ Answered(m)
          \/ Known /\ \A m \in Machines : pc[m] \notin {"post", "reply"}

\* A machine that was turned away in this window is about to wait, or waits
\* until after its end.
Waiting ==
    \A m \in Machines :
        \/ turned[m] = 0
        \/ turned[m] = 1 /\ pc[m] = "limited" /\ ctr.RefreshTime > 0
        \/ turned[m] = 1 /\ pc[m] = "start" /\ wait[m] > api.reset

IInv == TypeOK /\ Critical /\ Current /\ Counted /\ Waiting

-----------------------------------------------------------------------------
\* The actions keep the types.  That a reconcile in the critical section has
\* the counter is needed where it reads or updates the counter.
LEMMA TypeStep ==
    TypeOK /\ Critical /\ [Next]_vars => TypeOK'
<1> SUFFICES ASSUME TypeOK, Critical, [Next]_vars PROVE TypeOK'
    OBVIOUS
<1> USE LimitAssumptions
<1>1. ASSUME NEW m \in Machines, GetPostReqCounter(m) PROVE TypeOK'
    <2>1. New \in PostRequestCounter
        BY DEF New, PostRequestCounter, Times
    <2> QED
        BY <1>1, <2>1 DEF GetPostReqCounter, Goto, TypeOK
<1>2. ASSUME NEW m \in Machines, CheckLimit(m) PROVE TypeOK'
    BY <1>2 DEF CheckLimit, Goto, TypeOK
<1>3. ASSUME NEW m \in Machines, ErrRateLimit(m) PROVE TypeOK'
    <2>1. ctr \in PostRequestCounter
        BY <1>3 DEF ErrRateLimit, Critical, Inside, TypeOK
    <2>2. RetryAfter \in 0..(Window + Second)
        BY <2>1 DEF RetryAfter, PostRequestCounter, Times
    <2> QED
        BY <1>3, <2>2 DEF ErrRateLimit, Return, Goto, TypeOK
<1>4. ASSUME NEW m \in Machines, CreateInstance(m) PROVE TypeOK'
    <2> DEFINE ok == api.remaining > 0
               left == IF ok THEN api.remaining - 1 ELSE 0
               answer == [ok |-> ok, remaining |-> left, reset |-> api.reset]
    <2>1. left \in 0..Limit /\ api.reset \in 1..Window
        BY DEF TypeOK
    <2>2. answer \in Response
        BY <2>1 DEF Response, Times
    <2>3. [api EXCEPT !.remaining = left] \in [remaining: 0..Limit, reset: 1..Window]
        BY <2>1 DEF TypeOK
    <2>4. api' = [api EXCEPT !.remaining = left] /\ refused' \in Nat
        BY <1>4 DEF CreateInstance, TypeOK
    <2>5. resp' \in [Machines -> Response]
        BY <1>4, <2>2 DEF CreateInstance, TypeOK
    <2> HIDE DEF left, answer
    <2>6. pc' \in [Machines -> {"start", "check", "limited", "post", "reply", "done"}]
        BY <1>4 DEF CreateInstance, Return, Goto, TypeOK
    <2>7. wait' \in [Machines -> 0..(Window + Second)] /\ mu' \in Machines \cup {None}
        BY <1>4 DEF CreateInstance, Return, TypeOK
    <2>8. budget' \in 0..MaxFaults /\ UNCHANGED <<ctr, turned>>
        BY <1>4 DEF CreateInstance, Fault, TypeOK
    <2> QED
        BY <2>3, <2>4, <2>5, <2>6, <2>7, <2>8 DEF TypeOK
<1>5. ASSUME NEW m \in Machines, ApiResponseRatelimitCounter(m) PROVE TypeOK'
    <2>1. ctr \in PostRequestCounter /\ resp[m] \in Response
        BY <1>5 DEF ApiResponseRatelimitCounter, Critical, Inside, TypeOK
    <2>2. [ReqRemaining |-> resp[m].remaining, RefreshTime |-> resp[m].reset] \in PostRequestCounter
        BY <2>1 DEF PostRequestCounter, Response
    <2>3. ASSUME NEW r \in {0, resp[m].remaining}
          PROVE  [ctr EXCEPT !.ReqRemaining = r] \in PostRequestCounter
        BY <2>1 DEF PostRequestCounter, Response
    <2>4. ctr' \in PostRequestCounter
        BY <1>5, <2>2, <2>3 DEF ApiResponseRatelimitCounter
    <2>5. NoResponse \in Response
        BY DEF NoResponse, Response, Times
    <2>6. resp' \in [Machines -> Response]
        BY <1>5, <2>5 DEF ApiResponseRatelimitCounter, TypeOK
    <2>7. /\ pc' \in [Machines -> {"start", "check", "limited", "post", "reply", "done"}]
          /\ wait' \in [Machines -> 0..(Window + Second)] /\ mu' \in Machines \cup {None}
        BY <1>5 DEF ApiResponseRatelimitCounter, Return, Goto, TypeOK
    <2>8. budget' \in 0..MaxFaults /\ UNCHANGED <<api, refused, turned>>
        BY <1>5 DEF ApiResponseRatelimitCounter, Fault, TypeOK
    <2> QED
        BY <2>4, <2>6, <2>7, <2>8 DEF TypeOK
<1>6. CASE Tick
    <2>1. ASSUME NEW t \in Times PROVE Earlier(t, -1) \in Times
        BY DEF Earlier, Times
    <2>2. ASSUME NEW t \in 0..(Window + Second) PROVE Earlier(t, 0) \in 0..(Window + Second)
        BY DEF Earlier
    <2>3. api' \in [remaining: 0..Limit, reset: 1..Window] /\ turned' \in [Machines -> Nat]
        <3>1. CASE api.reset > 1
            BY <1>6, <3>1 DEF Tick, TypeOK
        <3>2. CASE ~(api.reset > 1)
            BY <1>6, <3>2 DEF Tick, TypeOK
        <3> QED
            BY <3>1, <3>2
    <2>4. ctr' \in PostRequestCounter \cup {None}
        <3>1. CASE ctr = None
            BY <1>6, <3>1 DEF Tick
        <3>2. CASE ctr # None
            <4>1. ctr \in PostRequestCounter
                BY <3>2 DEF TypeOK
            <4>2. Earlier(ctr.RefreshTime, -1) \in Times
                BY <4>1, <2>1 DEF PostRequestCounter
            <4> QED
                BY <1>6, <3>2, <4>1, <4>2 DEF Tick, PostRequestCounter
        <3> QED
            BY <3>1, <3>2
    <2>5. wait' \in [Machines -> 0..(Window + Second)]
        BY <1>6, <2>2 DEF Tick, TypeOK
    <2>6. resp' \in [Machines -> Response]
        <3>1. ASSUME NEW r \in Response
              PROVE  [r EXCEPT !.reset = Earlier(r.reset, -1)] \in Response
            BY <2>1 DEF Response
        <3> QED
            BY <1>6, <3>1 DEF Tick, TypeOK
    <2> QED
        BY <1>6, <2>3, <2>4, <2>5, <2>6 DEF Tick, TypeOK
<1>7. CASE Foreign
    BY <1>7 DEF Foreign, Fault, TypeOK
<1>8. CASE Crash
    BY <1>8 DEF Crash, Fault, TypeOK, Response, NoResponse, Times
<1>9. CASE UNCHANGED vars
    BY <1>9 DEF vars, TypeOK
<1> QED
    BY <1>1, <1>2, <1>3, <1>4, <1>5, <1>6, <1>7, <1>8, <1>9 DEF Next, Step

\* The lock keeps all reconciles but one out of the critical section.
LEMMA CriticalStep ==
    TypeOK /\ Critical /\ [Next]_vars => Critical'
<1> SUFFICES ASSUME TypeOK, Critical, [Next]_vars PROVE Critical'
    OBVIOUS
<1> USE LimitAssumptions DEF Inside
<1>1. ASSUME NEW m \in Machines, GetPostReqCounter(m) PROVE Critical'
    <2>1. New # None
        BY DEF New, PostRequestCounter, Times
    <2>2. ctr' # None
        BY <1>1, <2>1 DEF GetPostReqCounter
    <2> QED
        BY <1>1, <2>2 DEF GetPostReqCounter, Goto, Critical, TypeOK
<1>2. ASSUME NEW m \in Machines, CheckLimit(m) PROVE Critical'
    BY <1>2 DEF CheckLimit, Goto, Critical, TypeOK
<1>3. ASSUME NEW m \in Machines, ErrRateLimit(m) PROVE Critical'
    BY <1>3 DEF ErrRateLimit, Return, Goto, Critical, TypeOK
<1>4. ASSUME NEW m \in Machines, CreateInstance(m) PROVE Critical'
    BY <1>4 DEF CreateInstance, Return, Goto, Critical, TypeOK
<1>5. ASSUME NEW m \in Machines, ApiResponseRatelimitCounter(m) PROVE Critical'
    BY <1>5 DEF ApiResponseRatelimitCounter, Return, Goto, Critical, TypeOK
<1>6. CASE Tick
    <2>1. ctr # None => ctr' \in PostRequestCounter
        BY <1>6, TypeStep DEF Tick, Next, TypeOK, PostRequestCounter, Times, Earlier
    <2> QED
        BY <1>6, <2>1 DEF Tick, Critical
<1>7. CASE Foreign
    BY <1>7 DEF Foreign, Critical
<1>8. CASE Crash
    BY <1>8 DEF Crash, Critical
<1>9. CASE UNCHANGED vars
    BY <1>9 DEF vars, Critical
<1> QED
    BY <1>1, <1>2, <1>3, <1>4, <1>5, <1>6, <1>7, <1>8, <1>9 DEF Next, Step

\* The controller's idea of the end of the window stays right: it is taken from
\* a response, and runs down together with the window.
LEMMA CurrentStep ==
    TypeOK /\ Critical /\ Current /\ [Next]_vars => Current'
<1> SUFFICES ASSUME TypeOK, Critical, Current, [Next]_vars PROVE Current'
    OBVIOUS
<1> USE LimitAssumptions
<1>1. ASSUME NEW m \in Machines, GetPostReqCounter(m) PROVE Current'
    BY <1>1 DEF GetPostReqCounter, New, Current
<1>2. ASSUME NEW m \in Machines, CheckLimit(m) PROVE Current'
    BY <1>2 DEF CheckLimit, Current
<1>3. ASSUME NEW m \in Machines, ErrRateLimit(m) PROVE Current'
    BY <1>3 DEF ErrRateLimit, Current
<1>4. ASSUME NEW m \in Machines, CreateInstance(m) PROVE Current'
    <2>1. api'.reset = api.reset /\ ctr' = ctr
        BY <1>4 DEF CreateInstance, TypeOK
    <2>2. \A n \in Machines : resp'[n] = resp[n] \/ resp'[n].reset = api.reset
        BY <1>4 DEF CreateInstance, TypeOK
    <2> QED
        BY <2>1, <2>2 DEF Current
<1>5. ASSUME NEW m \in Machines, ApiResponseRatelimitCounter(m) PROVE Current'
    <2>1. api' = api /\ ctr \in PostRequestCounter
        BY <1>5 DEF ApiResponseRatelimitCounter, Critical, Inside, TypeOK
    <2>2. ctr'.RefreshTime \in {resp[m].reset, ctr.RefreshTime}
        BY <1>5, <2>1 DEF ApiResponseRatelimitCounter, PostRequestCounter
    <2>3. \A n \in Machines : resp'[n] = resp[n] \/ resp'[n].reset = -1
        BY <1>5 DEF ApiResponseRatelimitCounter, NoResponse, TypeOK
    <2>4. ctr # None
        BY <1>5 DEF ApiResponseRatelimitCounter, Critical, Inside
    <2> QED
        BY <2>1, <2>2, <2>3, <2>4 DEF Current
<1>6. CASE Tick
    <2>1. api.reset \in 1..Window /\ api'.reset = IF api.reset > 1 THEN api.reset - 1 ELSE Window
        BY <1>6 DEF Tick, TypeOK
    <2>2. ASSUME ctr' # None
          PROVE  ctr # None /\ ctr.RefreshTime \in Times /\ ctr'.RefreshTime = Earlier(ctr.RefreshTime, -1)
        BY <1>6, <2>2 DEF Tick, TypeOK, PostRequestCounter
    <2>3. ASSUME NEW m \in Machines
          PROVE  resp[m].reset \in Times /\ resp'[m].reset = Earlier(resp[m].reset, -1)
        BY <1>6 DEF Tick, TypeOK, Response
    <2>4. ASSUME NEW t \in Times, t > 0 => t = api.reset, Earlier(t, -1) > 0
          PROVE  Earlier(t, -1) = api'.reset
        BY <2>1, <2>4 DEF Earlier, Times
    <2> QED
        BY <2>2, <2>3, <2>4 DEF Current
<1>7. CASE Foreign
    BY <1>7 DEF Foreign, Current, TypeOK
<1>8. CASE Crash
    BY <1>8 DEF Crash, NoResponse, Current
<1>9. CASE UNCHANGED vars
    BY <1>9 DEF vars, Current
<1> QED
    BY <1>1, <1>2, <1>3, <1>4, <1>5, <1>6, <1>7, <1>8, <1>9 DEF Next, Step

\* Every refused request is paid for by a fault.
LEMMA CountedStep ==
    TypeOK /\ Critical /\ Current /\ Counted /\ [Next]_vars => Counted'
<1> SUFFICES ASSUME TypeOK, Critical, Current, Counted, [Next]_vars PROVE Counted'
    OBVIOUS
<1> USE LimitAssumptions DEF Inside
<1>t. /\ refused \in Nat /\ budget \in 0..MaxFaults /\ MaxFaults \in Nat
      /\ api.remaining \in 0..Limit /\ api.reset \in 1..Window
    BY DEF TypeOK
<1>s. ASSUME budget' = budget - 1, refused' = refused PROVE Counted'
    BY <1>t, <1>s DEF Counted, Slack
<1>1. ASSUME NEW m \in Machines, GetPostReqCounter(m) PROVE Counted'
    <2>1. UNCHANGED <<api, refused, budget, resp>> /\ ctr \in {None, ctr'}
        BY <1>1 DEF GetPostReqCounter
    <2>2. \A n \in Machines : pc'[n] \in {"post", "reply"} <=> pc[n] \in {"post", "reply"}
        BY <1>1 DEF GetPostReqCounter, Goto, TypeOK
    <2>3. \A n \in Machines : pc'[n] # "reply" => pc[n] # "reply"
        BY <1>1 DEF GetPostReqCounter, Goto, TypeOK
    <2>4. Known => Known'
        BY <2>1 DEF Known
    <2> QED
        BY <2>1, <2>2, <2>3, <2>4 DEF Counted, Slack, Answered
<1>2. ASSUME NEW m \in Machines, CheckLimit(m) PROVE Counted'
    <2>1. UNCHANGED <<api, refused, budget, resp, ctr>>
        BY <1>2 DEF CheckLimit
    <2>2. \A n \in Machines : n # m => pc[n] \notin {"check", "limited", "post", "reply"} /\ pc'[n] = pc[n]
        BY <1>2 DEF CheckLimit, Critical, Goto, TypeOK
    <2>3. CASE IsPOSTLimitReached
        <3>1. \A n \in Machines : pc'[n] \notin {"post", "reply"}
            BY <1>2, <2>2, <2>3 DEF CheckLimit, Goto, TypeOK
        <3>2. Known'
            BY <1>2, <2>1, <2>3 DEF CheckLimit, IsPOSTLimitReached, Known, Critical
        <3> QED
            BY <2>1, <3>1, <3>2 DEF Counted
    <2>4. CASE ~IsPOSTLimitReached
        <3>1. ~Known /\ \A n \in Machines : pc[n] # "reply"
            BY <1>2, <2>2, <2>4 DEF CheckLimit, IsPOSTLimitReached, Known
        <3> QED
            BY <2>1, <3>1 DEF Counted, Slack
    <2> QED
        BY <2>3, <2>4
<1>3. ASSUME NEW m \in Machines, ErrRateLimit(m) PROVE Counted'
    <2>1. UNCHANGED <<api, refused, budget, resp, ctr>>
        BY <1>3 DEF ErrRateLimit
    <2>2. \A n \in Machines : pc[n] \notin {"post", "reply"} /\ pc'[n] \notin {"post", "reply"}
        BY <1>3 DEF ErrRateLimit, Return, Goto, Critical, TypeOK
    <2> QED
        BY <2>1, <2>2 DEF Counted, Slack, Known
<1>4. ASSUME NEW m \in Machines, CreateInstance(m) PROVE Counted'
    <2>1. api.remaining = 0 => Slack
        BY <1>4 DEF CreateInstance, Counted, Critical
    <2>2. api'.remaining = (IF api.remaining > 0 THEN api.remaining - 1 ELSE 0)
        BY <1>4, <1>t DEF CreateInstance, TypeOK
    <2>3. refused' = IF api.remaining > 0 THEN refused ELSE refused + 1
        BY <1>4 DEF CreateInstance
    <2>4. CASE budget' = budget - 1
        BY <1>t, <2>1, <2>3, <2>4 DEF Counted, Slack
    <2>5. CASE budget' # budget - 1
        <3>1. budget' = budget /\ pc'[m] = "reply"
            BY <1>4, <2>5 DEF CreateInstance, Fault, Goto, TypeOK
        <3>2. resp'[m].remaining = api'.remaining /\ resp'[m].reset = api.reset
            BY <1>4, <2>2, <2>5 DEF CreateInstance, Fault, TypeOK
        <3>3. api'.remaining = 0 => Answered(m)'
            BY <1>t, <3>2 DEF Answered
        <3>4. refused' <= MaxFaults - budget'
            BY <1>t, <2>1, <2>3, <3>1 DEF Slack, Counted
        <3> QED
            BY <3>1, <3>3, <3>4 DEF Counted
    <2> QED
        BY <2>4, <2>5
<1>5. ASSUME NEW m \in Machines, ApiResponseRatelimitCounter(m) PROVE Counted'
    <2>1. CASE budget' = budget - 1
        BY <1>5, <1>s, <2>1 DEF ApiResponseRatelimitCounter
    <2>2. CASE budget' # budget - 1
        <3>1. /\ budget' = budget /\ UNCHANGED <<api, refused>>
              /\ ctr' = [ReqRemaining |-> resp[m].remaining, RefreshTime |-> resp[m].reset]
            BY <1>5, <2>2 DEF ApiResponseRatelimitCounter, Fault
        <3>2. \A n \in Machines : pc'[n] \notin {"post", "reply"}
            BY <1>5 DEF ApiResponseRatelimitCounter, Return, Goto, Critical, TypeOK
        <3>3. api.remaining = 0 => Slack \/ Answered(m)
            BY <1>5 DEF ApiResponseRatelimitCounter, Counted, Critical
        <3>4. ctr' # None
            BY <1>5, CriticalStep, <3>1 DEF ApiResponseRatelimitCounter, TypeOK, Response, PostRequestCounter
        <3>5. Answered(m) => Known'
            BY <3>1, <3>4 DEF Answered, Known
        <3> QED
            BY <3>1, <3>2, <3>3, <3>5 DEF Counted, Slack
    <2> QED
        BY <2>1, <2>2
<1>6. CASE Tick
    <2>1. UNCHANGED <<pc, refused, budget>>
        BY <1>6 DEF Tick
    <2>2. CASE api.reset = 1
        <3>1. api'.remaining = Limit
            BY <1>6, <2>2 DEF Tick
        <3> QED
            BY <1>t, <2>1, <3>1 DEF Counted
    <2>3. CASE api.reset # 1
        <3>1. api'.remaining = api.remaining /\ api.reset > 1
            BY <1>6, <1>t, <2>3 DEF Tick, TypeOK
        <3>2. ASSUME Known PROVE Known'
            <4>1. ctr \in PostRequestCounter /\ ctr.RefreshTime > 1
                BY <3>1, <3>2 DEF Known, Current, TypeOK
            <4>2. ctr' # None
                BY <1>6, <4>1 DEF Tick, PostRequestCounter, Times, Earlier
            <4> QED
                BY <1>6, <3>2, <4>1, <4>2 DEF Tick, Known, Earlier, PostRequestCounter, Times
        <3>3. ASSUME NEW m \in Machines, Answered(m) PROVE Answered(m)'
            <4>1. resp[m] \in Response /\ resp[m].reset > 1
                BY <3>1, <3>3 DEF Answered, Current, TypeOK
            <4> QED
                BY <1>6, <3>3, <4>1 DEF Tick, Answered, Earlier, Response, Times
        <3> QED
            BY <2>1, <3>1, <3>2, <3>3 DEF Counted, Slack
    <2> QED
        BY <2>2, <2>3
<1>7. CASE Foreign
    BY <1>7, <1>s DEF Foreign, Fault
<1>8. CASE Crash
    BY <1>8, <1>s DEF Crash, Fault
<1>9. CASE UNCHANGED vars
    BY <1>9 DEF vars, Counted, Slack, Known, Answered
<1> QED
    BY <1>1, <1>2, <1>3, <1>4, <1>5, <1>6, <1>7, <1>8, <1>9 DEF Next, Step

\* A machine that was turned away cannot come back before the window is over.
LEMMA WaitingStep ==
    TypeOK /\ Critical /\ Current /\ Waiting /\ [Next]_vars => Waiting'
<1> SUFFICES ASSUME TypeOK, Critical, Current, Waiting, [Next]_vars,
                    NEW n \in Machines
             PROVE  \/ turned'[n] = 0
                    \/ turned'[n] = 1 /\ pc'[n] = "limited" /\ ctr'.RefreshTime > 0
                    \/ turned'[n] = 1 /\ pc'[n] = "start" /\ wait'[n] > api'.reset
    BY DEF Waiting
<1> USE LimitAssumptions DEF Inside
<1>t. api.reset \in 1..Window /\ wait[n] \in 0..(Window + Second)
    BY DEF TypeOK
<1>w. \/ turned[n] = 0
      \/ turned[n] = 1 /\ pc[n] = "limited" /\ ctr.RefreshTime > 0
      \/ turned[n] = 1 /\ pc[n] = "start" /\ wait[n] > api.reset
    BY DEF Waiting
<1>1. ASSUME NEW m \in Machines, GetPostReqCounter(m)
      PROVE  \/ turned'[n] = 0
             \/ turned'[n] = 1 /\ pc'[n] = "start" /\ wait'[n] > api'.reset
    BY <1>1, <1>t, <1>w DEF GetPostReqCounter, Goto, Critical, TypeOK
<1>2. ASSUME NEW m \in Machines, CheckLimit(m)
      PROVE  \/ turned'[n] = 0
             \/ turned'[n] = 1 /\ pc'[n] = "limited" /\ ctr'.RefreshTime > 0
             \/ turned'[n] = 1 /\ pc'[n] = "start" /\ wait'[n] > api'.reset
    BY <1>2, <1>t, <1>w DEF CheckLimit, IsPOSTLimitReached, Goto, TypeOK
<1>3. ASSUME NEW m \in Machines, ErrRateLimit(m)
      PROVE  \/ turned'[n] = 0
             \/ turned'[n] = 1 /\ pc'[n] = "start" /\ wait'[n] > api'.reset
    <2>1. CASE n = m
        <3>1. ctr \in PostRequestCounter /\ ctr # None
            BY <1>3 DEF ErrRateLimit, Critical, TypeOK
        <3>2. turned[n] = 1 => RetryAfter > api.reset
            BY <1>3, <1>t, <1>w, <2>1, <3>1
            DEF ErrRateLimit, RetryAfter, Current, PostRequestCounter, Times
        <3> QED
            BY <1>3, <1>w, <2>1, <3>2 DEF ErrRateLimit, Return, Goto, TypeOK
    <2>2. CASE n # m
        BY <1>3, <1>w, <2>2 DEF ErrRateLimit, Return, Goto, Critical, TypeOK
    <2> QED
        BY <2>1, <2>2
<1>4. ASSUME NEW m \in Machines, CreateInstance(m)
      PROVE  \/ turned'[n] = 0
             \/ turned'[n] = 1 /\ pc'[n] = "start" /\ wait'[n] > api'.reset
    <2>1. api'.reset = api.reset /\ turned' = turned
        BY <1>4 DEF CreateInstance, TypeOK
    <2> QED
        BY <1>4, <1>w, <2>1 DEF CreateInstance, Return, Goto, Critical, TypeOK
<1>5. ASSUME NEW m \in Machines, ApiResponseRatelimitCounter(m)
      PROVE  \/ turned'[n] = 0
             \/ turned'[n] = 1 /\ pc'[n] = "start" /\ wait'[n] > api'.reset
    BY <1>5, <1>w DEF ApiResponseRatelimitCounter, Return, Goto, Critical, TypeOK
<1>6. ASSUME Tick
      PROVE  \/ turned'[n] = 0
             \/ turned'[n] = 1 /\ pc'[n] = "limited" /\ ctr'.RefreshTime > 0
             \/ turned'[n] = 1 /\ pc'[n] = "start" /\ wait'[n] > api'.reset
    <2>1. CASE api.reset > 1
        <3>1. api'.reset = api.reset - 1 /\ UNCHANGED <<turned, pc>>
            BY <1>6, <2>1 DEF Tick, TypeOK
        <3>2. wait'[n] = Earlier(wait[n], 0)
            BY <1>6 DEF Tick
        <3>3. ASSUME pc[n] = "limited", ctr.RefreshTime > 0 PROVE ctr'.RefreshTime > 0
            <4>1. ctr \in PostRequestCounter /\ ctr # None /\ ctr.RefreshTime > 1
                BY <2>1, <3>3 DEF Critical, Current, TypeOK
            <4> QED
                BY <1>6, <4>1 DEF Tick, Earlier, PostRequestCounter, Times
        <3> QED
            BY <1>t, <1>w, <3>1, <3>2, <3>3 DEF Earlier
    <2>2. CASE ~(api.reset > 1)
        BY <1>6, <2>2 DEF Tick
    <2> QED
        BY <2>1, <2>2
<1>7. ASSUME Foreign
      PROVE  \/ turned'[n] = 0
             \/ turned'[n] = 1 /\ pc'[n] = "limited" /\ ctr'.RefreshTime > 0
             \/ turned'[n] = 1 /\ pc'[n] = "start" /\ wait'[n] > api'.reset
    BY <1>7, <1>w DEF Foreign, TypeOK
<1>8. ASSUME Crash PROVE turned'[n] = 0
    BY <1>8 DEF Crash
<1>9. CASE UNCHANGED vars
    BY <1>9, <1>w DEF vars
<1> QED
    BY <1>1, <1>2, <1>3, <1>4, <1>5, <1>6, <1>7, <1>8, <1>9 DEF Next, Step

-----------------------------------------------------------------------------
\* The conjunction of the invariants above holds of every reachable state of the limiter.
LEMMA Inductive ==
    Spec => []IInv
<1>1. Init => IInv
    <2> USE LimitAssumptions
    <2>1. Init => TypeOK
        BY DEF Init, TypeOK, Response, NoResponse, Times
    <2>2. Init => Critical /\ Current /\ Counted /\ Waiting
        BY DEF Init, Critical, Inside, Current, Counted, Waiting, NoResponse
    <2> QED
        BY <2>1, <2>2 DEF IInv
<1>2. IInv /\ [Next]_vars => IInv'
    BY TypeStep, CriticalStep, CurrentStep, CountedStep, WaitingStep DEF IInv
<1> QED
    BY <1>1, <1>2, PTL DEF Spec

\* The variables of the rate limiter keep their types: in particular a machine
\* never waits longer than a window and a second.
THEOREM LimiterTypes == Spec => []TypeOK
<1>1. IInv => TypeOK
    BY DEF IInv
<1> QED
    BY <1>1, Inductive, PTL

\* The critical section of createInstance works for any number of machines: the
\* API refuses no more requests than there were faults that disturbed the count.
THEOREM RefusalsBounded == Spec => []RefusedOncePerFault
<1>1. IInv => RefusedOncePerFault
    BY DEF IInv, Counted, RefusedOncePerFault
<1> QED
    BY <1>1, Inductive, PTL

\* RetryAfter is long enough: no machine is turned away twice in one window.
THEOREM WaitsLongEnough == Spec => []TurnedAwayOnce
<1>1. IInv => TurnedAwayOnce
    <2> SUFFICES ASSUME IInv, NEW m \in Machines PROVE turned[m] <= 1
        BY DEF TurnedAwayOnce
    <2>1. turned[m] \in {0, 1}
        BY DEF IInv, Waiting
    <2> QED
        BY <2>1
<1> QED
    BY <1>1, Inductive, PTL

=============================================================================
