----------------------------- MODULE ApiClient -----------------------------
(***************************************************************************)
(* apiClient of api_client.go: one collect fetches the service list from   *)
(* the Nagios JSON CGI, and, when retry_on_failure is enabled, fetches it  *)
(* again after transient errors with the exponential back-off of           *)
(* cenkalti/backoff v4.  Time passes while a request is under way and      *)
(* while collect waits; the scrape context may be cancelled at any time.   *)
(***************************************************************************)
EXTENDS Naturals

CONSTANTS
    Intervals,          \* of cfg.RetryOnFailure, in units of time: its
                        \* InitialInterval and MaxInterval; 0 when not set
    Limits,             \* the values of its MaxElapsedTime; 0 is no limit
    Jitter,             \* RandomizationFactor is 1/2, not 0
    Cancels,            \* the scrape context can be cancelled
    MaxRequest,         \* bound: how long a request may take, one unit at least
    MaxTime             \* bound: where the clock of one collect stops counting

ASSUME ApiClientAssumption ==
    /\ Jitter \in BOOLEAN /\ Cancels \in BOOLEAN
    /\ Intervals \subseteq [initial : Nat, max : Nat]
    /\ Limits \subseteq Nat
    /\ MaxRequest \in Nat \ {0} /\ MaxTime \in Nat

VARIABLES
    retry,      \* cfg.RetryOnFailure.Enabled
    intervals,  \* cfg.RetryOnFailure.InitialInterval and MaxInterval
    limit,      \* cfg.RetryOnFailure.MaxElapsedTime
    pc,         \* idle, request, decide, wait
    response,   \* what the last request brought
    results,    \* collect's results: "nil", or the service list of one response
    outcome,    \* what the last collect returned
    interval,   \* the back-off's currentInterval
    next,       \* the wait it has chosen
    elapsed,    \* the time since collect began
    spent,      \* the time since the running request or wait began
    cancelled   \* the scrape context is done

cfgVars == <<retry, intervals, limit>>
vars == <<cfgVars, pc, response, results, outcome, interval, next, elapsed,
          spent, cancelled>>

\* client.Do fails, the body cannot be read, or the status is 5xx.
Transient == {"unreachable", "bodyCut", "5xx"}

\* 401, a body that is no JSON envelope (any other status lands there too), the
\* CGI's own error code, no data field, data of another shape.
Permanent == {"401", "notJSON", "cgiError", "noData", "badData"}

Responses == {"list"} \cup Transient \cup Permanent
Outcomes == {"none", "results", "transient", "permanent", "cancelled"}

NextTime(t) == IF t < MaxTime THEN t + 1 ELSE t

-----------------------------------------------------------------------------
(***************************************************************************)
(* The back-off                                                            *)
(***************************************************************************)
\* incrementCurrentInterval: times 3/2 up to MaxInterval.
Increment(i) == IF 3 * i >= 2 * intervals.max THEN intervals.max ELSE (3 * i) \div 2

\* getRandomValueFromInterval.
Waits(i) == IF Jitter THEN {w \in 0..(2 * i) : 2 * w >= i /\ 2 * w <= 3 * i} ELSE {i}

\* Mutants: a back-off that asks only whether the limit has passed already; one
\* that takes the limit for one of a single wait.
GivesUpLate(w) == limit # 0 /\ elapsed > limit
GivesUpOnLongWait(w) == limit # 0 /\ w > limit

\* NextBackOff returns Stop rather than the wait w.
GivesUp(w) == limit # 0 /\ elapsed + w > limit

\* Mutant: backoff.Retry(operation, bo), without backoff.WithContext.
NoContext == FALSE

\* NextBackOff and the wait find the context done.
ContextDone == cancelled

-----------------------------------------------------------------------------
(***************************************************************************)
(* collect                                                                 *)
(***************************************************************************)
Collect ==
    /\ pc = "idle"
    /\ pc' = "request"
    /\ interval' = intervals.initial
    /\ elapsed' = 0
    /\ spent' = 0
    /\ results' = "nil"
    /\ cancelled' = FALSE
    /\ outcome' = "none"
    /\ UNCHANGED <<cfgVars, response, next>>

\* The answer to a request, or its failure.  A cancelled request fails.
Respond ==
    /\ pc = "request" /\ (spent > 0 \/ cancelled)
    /\ \E r \in IF cancelled THEN {"unreachable"} ELSE Responses :
          /\ response' = r
          /\ results' = IF r = "list" THEN "list" ELSE "nil"
    /\ pc' = "decide"
    /\ UNCHANGED <<cfgVars, outcome, interval, next, elapsed, spent, cancelled>>

\* Mutants: every error is worth a retry; an error of the server is not.
RetryAll == response # "list"
RetryBroken == response \in {"unreachable", "bodyCut"}

\* operation returns an error that is not backoff.Permanent.
Retries == response \in Transient

ReturnResults ==
    /\ pc = "decide" /\ response = "list"
    /\ outcome' = "results"
    /\ pc' = "idle"
    /\ UNCHANGED <<cfgVars, response, results, interval, next, elapsed, spent, cancelled>>

ReturnError ==
    /\ pc = "decide" /\ response # "list"
    /\ retry => ~Retries
    /\ outcome' = IF response \in Transient THEN "transient" ELSE "permanent"
    /\ results' = "nil"
    /\ pc' = "idle"
    /\ UNCHANGED <<cfgVars, response, interval, next, elapsed, spent, cancelled>>

\* NextBackOff: Stop when the context is done or the time is up, else the wait.
BackOff ==
    /\ pc = "decide" /\ response # "list"
    /\ retry /\ Retries
    /\ \E w \in Waits(interval) :
          IF ContextDone \/ GivesUp(w)
            THEN /\ outcome' = IF cancelled THEN "cancelled" ELSE "transient"
                 /\ results' = "nil"
                 /\ pc' = "idle"
                 /\ UNCHANGED <<next, spent>>
            ELSE /\ next' = w
                 /\ spent' = 0
                 /\ pc' = "wait"
                 /\ UNCHANGED <<outcome, results>>
    /\ interval' = IF ContextDone THEN interval ELSE Increment(interval)
    /\ UNCHANGED <<cfgVars, response, elapsed, cancelled>>

\* The timer fires: the operation is run once more.
Retry ==
    /\ pc = "wait" /\ spent >= next
    /\ spent' = 0
    /\ pc' = "request"
    /\ UNCHANGED <<cfgVars, response, results, outcome, interval, next, elapsed, cancelled>>

ReturnCancelled ==
    /\ pc = "wait" /\ ContextDone
    /\ outcome' = "cancelled"
    /\ results' = "nil"
    /\ pc' = "idle"
    /\ UNCHANGED <<cfgVars, response, interval, next, elapsed, spent, cancelled>>

Cancel ==
    /\ Cancels /\ pc # "idle" /\ ~cancelled
    /\ cancelled' = TRUE
    /\ UNCHANGED <<cfgVars, pc, response, results, outcome, interval, next, elapsed, spent>>

\* A timer fires when it is due, a request is answered within MaxRequest.
Tick ==
    /\ \/ pc = "request" /\ spent < MaxRequest
       \/ pc = "wait" /\ spent < next
    /\ elapsed' = NextTime(elapsed)
    /\ spent' = spent + 1
    /\ UNCHANGED <<cfgVars, pc, response, results, outcome, interval, next, cancelled>>

Init ==
    /\ retry \in BOOLEAN
    /\ intervals \in Intervals
    /\ limit \in Limits
    /\ pc = "idle"
    /\ response = "401"
    /\ results = "nil"
    /\ outcome = "none"
    /\ interval = intervals.initial
    /\ next = 0
    /\ elapsed = 0
    /\ spent = 0
    /\ cancelled = FALSE

Client ==
    \/ Collect \/ Respond \/ ReturnResults \/ ReturnError
    \/ BackOff \/ Retry \/ ReturnCancelled
Next == Client \/ Cancel \/ Tick

Spec == Init /\ [][Next]_vars

\* Time passes, timers fire and requests are answered or fail.
FairSpec == Spec /\ WF_vars(Client) /\ WF_vars(Tick)

-----------------------------------------------------------------------------
(***************************************************************************)
(* Properties.                                                             *)
(***************************************************************************)
\* Every variable has its type; collect waits for another attempt only after a
\* transient error with retries enabled, and returns either results or an error.
TypeOK ==
    /\ retry \in BOOLEAN
    /\ intervals \in Intervals
    /\ limit \in Limits
    /\ pc \in {"idle", "request", "decide", "wait"}
    /\ response \in Responses
    /\ results \in {"nil", "list"}
    /\ outcome \in Outcomes
    /\ interval \in Nat
    /\ next \in Nat
    /\ elapsed \in 0..MaxTime
    /\ spent \in Nat
    /\ cancelled \in BOOLEAN
    /\ pc = "wait" => retry /\ response \in Transient
    /\ pc = "idle" => (outcome = "results") = (results = "list")

\* max_elapsed_time bounds collect: the last request has begun by then, so a
\* scrape takes no longer than that and one request.  Without retries it takes
\* one request.
CollectIsBounded ==
    pc # "idle" =>
        /\ ~retry => elapsed <= MaxRequest
        /\ retry /\ limit # 0 => elapsed <= limit + MaxRequest

\* The longest wait that the settings allow, jitter included.
LongestWait ==
    LET cap == IF intervals.initial > intervals.max THEN intervals.initial ELSE intervals.max
    IN  IF Jitter THEN (3 * cap) \div 2 ELSE cap

\* A transient error does not end the retries before their time: when collect
\* returns one it was cancelled, or max_elapsed_time left no room for the longest
\* wait.  The wait that is chosen, which the jitter may make longer than
\* max_interval, is never longer than that, however often it was retried.
RetriesUseTheirTime ==
    /\ pc = "wait" => next <= LongestWait
    /\ retry /\ pc = "idle" /\ outcome # "none" /\ response \in Transient =>
          cancelled \/ (limit # 0 /\ elapsed + LongestWait > limit)

\* With a max_elapsed_time, or without retries, every collect returns, though no
\* request brings a list and the intervals may not be set, so that nothing but
\* the requests takes time.  Each request is taken to end, within MaxRequest.
CollectReturns == (retry => limit # 0) => (pc # "idle" ~> pc = "idle")

\* Without one, retries go on for ever, but a cancelled context ends them.
CancelEndsCollect == cancelled ~> pc = "idle"
=============================================================================
