--------------------------- MODULE ApiClientProofs ---------------------------
(***************************************************************************)
(* Theorems about ApiClient, for any intervals, limits and request times:  *)
(* a collect takes no longer than max_elapsed_time and one request, and    *)
(* gives up on a transient error only when that time is used.              *)
(***************************************************************************)
EXTENDS ApiClient, TLAPS

USE ApiClientAssumption

\* What decides is what the request brought.
Answered == pc = "decide" /\ response = "list" => results = "list"

\* By when the last request began: at once without retries, otherwise no later
\* than max_elapsed_time, as no wait begins that would end after it.
BeganInTime ==
    /\ pc = "request" =>
          /\ spent <= MaxRequest
          /\ ~retry => elapsed <= spent
          /\ retry /\ limit # 0 => elapsed <= limit + spent
    /\ pc = "wait" =>
          /\ spent <= next
          /\ limit # 0 => elapsed + next <= limit + spent

\* The interval grows to MaxInterval and no further.
IntervalIsCapped == interval <= intervals.max \/ interval = intervals.initial

-----------------------------------------------------------------------------
(***************************************************************************)
(* Types.                                                                  *)
(***************************************************************************)
LEMMA Settings ==
    ASSUME TypeOK
    PROVE  /\ intervals.initial \in Nat /\ intervals.max \in Nat /\ limit \in Nat
           /\ interval \in Nat /\ next \in Nat /\ spent \in Nat /\ elapsed \in Nat
BY DEF TypeOK

\* What the back-off does with an interval.
LEMMA IncrementIsCapped ==
    ASSUME TypeOK, NEW i \in Nat
    PROVE  Increment(i) \in Nat /\ Increment(i) <= intervals.max
<1>1. intervals.max \in Nat
  BY Settings
<1>2. (3 * i) \div 2 \in Nat /\ 2 * ((3 * i) \div 2) <= 3 * i
  OBVIOUS
<1> QED
  BY <1>1, <1>2 DEF Increment

LEMMA WaitIsTime ==
    ASSUME NEW i \in Nat, NEW w \in Waits(i)
    PROVE  w \in Nat
BY DEF Waits

LEMMA TypeInit == Init => TypeOK /\ Answered
<1> SUFFICES ASSUME Init PROVE TypeOK /\ Answered
  OBVIOUS
<1>1. intervals.initial \in Nat
  BY DEF Init
<1>2. cancelled \in BOOLEAN
  BY Zenon DEF Init
<1> QED
  BY <1>1, <1>2 DEF Init, TypeOK, Answered, Responses, Permanent, Outcomes

LEMMA TypeBackOff ==
    ASSUME TypeOK, BackOff
    PROVE  TypeOK' /\ Answered'
<1>1. interval \in Nat /\ Increment(interval) \in Nat
  BY IncrementIsCapped, Settings
<1>2. interval' \in Nat
  BY <1>1 DEF BackOff
<1>3. PICK w \in Waits(interval) :
          IF ContextDone \/ GivesUp(w)
            THEN /\ outcome' = IF cancelled THEN "cancelled" ELSE "transient"
                 /\ results' = "nil"
                 /\ pc' = "idle"
                 /\ UNCHANGED <<next, spent>>
            ELSE /\ next' = w
                 /\ spent' = 0
                 /\ pc' = "wait"
                 /\ UNCHANGED <<outcome, results>>
  BY DEF BackOff
<1>4. w \in Nat
  BY <1>1, <1>3, WaitIsTime
<1>5. UNCHANGED <<cfgVars, response, elapsed, cancelled>> /\ retry /\ response \in Transient
  BY DEF BackOff, Retries
<1>6. CASE ContextDone \/ GivesUp(w)
  BY <1>2, <1>3, <1>5, <1>6 DEF TypeOK, Answered, cfgVars, Outcomes
<1>7. CASE ~(ContextDone \/ GivesUp(w))
  BY <1>2, <1>3, <1>4, <1>5, <1>7 DEF TypeOK, Answered, cfgVars
<1> QED
  BY <1>6, <1>7

LEMMA TypeNext ==
    ASSUME TypeOK, Answered, [Next]_vars
    PROVE  TypeOK' /\ Answered'
<1>1. CASE Collect
  <2>1. cancelled' \in BOOLEAN
    BY <1>1, Zenon DEF Collect
  <2> QED
    BY <1>1, <2>1, Settings DEF Collect, TypeOK, Answered, cfgVars, Outcomes
<1>2. CASE Respond
  <2>1. response' \in Responses /\ results' \in {"nil", "list"}
        /\ (response' = "list" => results' = "list")
    BY <1>2 DEF Respond, Responses, Transient
  <2> QED
    BY <1>2, <2>1 DEF Respond, TypeOK, Answered, cfgVars
<1>3. CASE ReturnResults
  <2>1. results = "list" /\ results' = results /\ outcome' = "results" /\ pc' = "idle"
    BY <1>3 DEF ReturnResults, Answered
  <2> QED
    BY <1>3, <2>1 DEF ReturnResults, TypeOK, Answered, cfgVars, Outcomes
<1>4. CASE ReturnError
  <2>1. results' = "nil" /\ outcome' \in {"transient", "permanent"} /\ pc' = "idle"
    BY <1>4 DEF ReturnError
  <2> QED
    BY <1>4, <2>1 DEF ReturnError, TypeOK, Answered, cfgVars, Outcomes
<1>5. CASE BackOff
  BY <1>5, TypeBackOff
<1>6. CASE Retry
  BY <1>6 DEF Retry, TypeOK, Answered, cfgVars
<1>7. CASE ReturnCancelled
  BY <1>7 DEF ReturnCancelled, TypeOK, Answered, cfgVars, Outcomes
<1>8. CASE Cancel
  BY <1>8 DEF Cancel, TypeOK, Answered, cfgVars
<1>9. CASE Tick
  <2>1. elapsed' \in 0..MaxTime /\ spent' \in Nat
    BY <1>9 DEF Tick, NextTime, TypeOK
  <2> QED
    BY <1>9, <2>1 DEF Tick, TypeOK, Answered, cfgVars
<1>10. CASE UNCHANGED vars
  BY <1>10 DEF vars, cfgVars, TypeOK, Answered
<1> QED
  BY <1>1, <1>2, <1>3, <1>4, <1>5, <1>6, <1>7, <1>8, <1>9, <1>10 DEF Next, Client

\* collect waits for another attempt only where retrying is allowed and makes
\* sense, and it returns a list exactly when it returns no error.
THEOREM TypeCorrect == Spec => []TypeOK
<1>1. TypeOK /\ Answered /\ [Next]_vars => (TypeOK /\ Answered)'
  BY TypeNext
<1> QED
  BY <1>1, TypeInit, PTL DEF Spec

-----------------------------------------------------------------------------
(***************************************************************************)
(* Time.                                                                   *)
(***************************************************************************)
LEMMA BoundInit == Init => BeganInTime /\ CollectIsBounded
  BY DEF Init, BeganInTime, CollectIsBounded

LEMMA BoundNext ==
    ASSUME TypeOK, BeganInTime, CollectIsBounded, [Next]_vars
    PROVE  BeganInTime' /\ CollectIsBounded'
<1>1. limit \in Nat /\ next \in Nat /\ spent \in Nat /\ elapsed \in Nat /\ MaxRequest \in Nat
      /\ (pc = "wait" => retry)
  BY Settings DEF TypeOK
<1> USE DEF BeganInTime, CollectIsBounded
<1>2. CASE Collect
  <2>1. elapsed' = 0 /\ spent' = 0 /\ pc' = "request" /\ limit' = limit /\ retry' = retry
    BY <1>2 DEF Collect, cfgVars
  <2> QED
    BY <1>1, <2>1
<1>3. CASE BackOff
  <2>1. PICK w \in Waits(interval) :
            \/ pc' = "idle"
            \/ /\ next' = w /\ spent' = 0 /\ pc' = "wait"
               /\ limit # 0 => elapsed + w <= limit
    <3>1. \A w \in Waits(interval) : ~GivesUp(w) => limit = 0 \/ elapsed + w <= limit
      BY <1>1, WaitIsTime, Settings DEF GivesUp
    <3> QED
      BY <1>3, <3>1 DEF BackOff
  <2>2. w \in Nat /\ limit' = limit /\ retry' = retry /\ elapsed' = elapsed /\ pc = "decide"
    BY <1>3, Settings, WaitIsTime DEF BackOff, cfgVars
  <2> QED
    BY <1>1, <2>1, <2>2
<1>4. CASE Retry
  <2>1. /\ pc = "wait" /\ spent >= next /\ spent' = 0 /\ pc' = "request"
        /\ UNCHANGED <<limit, retry, elapsed>>
    BY <1>4 DEF Retry, cfgVars
  <2> QED
    BY <1>1, <2>1
<1>5. CASE Tick
  <2>1. /\ elapsed' \in {elapsed, elapsed + 1} /\ spent' = spent + 1
        /\ UNCHANGED <<limit, retry, pc, next>>
        /\ \/ pc = "request" /\ spent < MaxRequest
           \/ pc = "wait" /\ spent < next
    BY <1>5 DEF Tick, cfgVars, NextTime
  <2>2. CASE pc = "request"
    BY <1>1, <2>1, <2>2
  <2>3. CASE pc = "wait"
    <3>1. /\ elapsed' \in Nat /\ elapsed' <= elapsed + 1 /\ spent' = spent + 1
          /\ pc' = "wait" /\ next' = next /\ limit' = limit
          /\ limit # 0 => elapsed + next <= limit + spent
          /\ spent < next
      BY <1>1, <2>1, <2>3
    <3>2. spent' <= next' /\ (limit' # 0 => elapsed' + next' <= limit' + spent')
      <4>1. spent + 1 <= next
        BY <1>1, <3>1
      <4>2. \A e \in Nat : e <= elapsed + 1 /\ limit # 0 => e + next <= limit + (spent + 1)
        BY <1>1, <3>1
      <4> QED
        BY <3>1, <4>1, <4>2
    <3>3. limit' # 0 => elapsed' <= limit' + MaxRequest
      BY <1>1, <3>1
    <3>4. retry'
      BY <1>1, <2>1, <2>3
    <3> QED
      BY <3>1, <3>2, <3>3, <3>4
  <2> QED
    BY <2>1, <2>2, <2>3
<1>6. CASE ~Collect /\ ~BackOff /\ ~Retry /\ ~Tick
  <2>1. /\ UNCHANGED <<limit, retry, elapsed, spent, next>>
        /\ \/ pc' \in {pc, "idle"}
           \/ pc = "request" /\ pc' = "decide"
    BY <1>6 DEF Next, Client, Respond, ReturnResults, ReturnError, ReturnCancelled, Cancel,
                cfgVars, vars
  <2> QED
    BY <1>1, <2>1
<1> QED
  BY <1>2, <1>3, <1>4, <1>5, <1>6

\* A collect takes no longer than max_elapsed_time and one request, however the
\* waits are drawn; without retries it takes one request.
THEOREM TakesBoundedTime == Spec => []CollectIsBounded
<1>1. Init => TypeOK /\ Answered /\ BeganInTime /\ CollectIsBounded
  BY TypeInit, BoundInit
<1>2. TypeOK /\ Answered /\ BeganInTime /\ CollectIsBounded /\ [Next]_vars =>
          (TypeOK /\ Answered /\ BeganInTime /\ CollectIsBounded)'
  BY TypeNext, BoundNext
<1> QED
  BY <1>1, <1>2, PTL DEF Spec

LEMMA CapNext ==
    ASSUME TypeOK, IntervalIsCapped, [Next]_vars
    PROVE  IntervalIsCapped'
<1>1. intervals' = intervals
      /\ interval' \in {interval, intervals.initial, Increment(interval)}
  BY DEF Next, Client, Collect, Respond, ReturnResults, ReturnError, BackOff, Retry,
         ReturnCancelled, Cancel, Tick, cfgVars, vars
<1>2. interval \in Nat /\ Increment(interval) <= intervals.max
  BY IncrementIsCapped, Settings
<1> QED
  BY <1>1, <1>2 DEF IntervalIsCapped

\* A wait drawn from a capped interval is no longer than the longest.
LEMMA WaitIsBounded ==
    ASSUME TypeOK, IntervalIsCapped, NEW w \in Waits(interval)
    PROVE  w <= LongestWait
<1> DEFINE cap == IF intervals.initial > intervals.max THEN intervals.initial ELSE intervals.max
<1>1. cap \in Nat /\ interval \in Nat /\ interval <= cap
  BY Settings DEF IntervalIsCapped
<1>2. LongestWait = IF Jitter THEN (3 * cap) \div 2 ELSE cap
  BY DEF LongestWait
<1> HIDE DEF cap
<1>3. w \in Nat /\ (Jitter => 2 * w <= 3 * interval) /\ (~Jitter => w = interval)
  BY <1>1 DEF Waits
<1>4. (3 * cap) \div 2 \in Nat /\ 3 * cap < 2 * ((3 * cap) \div 2) + 2
  BY <1>1
<1> QED
  BY <1>1, <1>2, <1>3, <1>4

LEMMA RetriesNext ==
    ASSUME TypeOK, IntervalIsCapped, RetriesUseTheirTime, [Next]_vars
    PROVE  RetriesUseTheirTime'
<1>1. intervals' = intervals /\ LongestWait' = LongestWait
  BY DEF Next, Client, Collect, Respond, ReturnResults, ReturnError, BackOff, Retry,
         ReturnCancelled, Cancel, Tick, cfgVars, vars, LongestWait
<1> USE DEF RetriesUseTheirTime
<1>2. CASE Collect \/ Respond \/ Retry
  BY <1>2 DEF Collect, Respond, Retry
<1>3. CASE ReturnResults \/ ReturnError
  BY <1>3 DEF ReturnResults, ReturnError, Retries, Transient, cfgVars
<1>4. CASE BackOff
  <2>1. PICK w \in Waits(interval) :
            IF ContextDone \/ GivesUp(w)
              THEN pc' = "idle"
              ELSE next' = w /\ pc' = "wait"
    BY <1>4 DEF BackOff
  <2>2. w <= LongestWait /\ w \in Nat /\ elapsed \in Nat /\ limit \in Nat /\ LongestWait \in Nat
    <3>1. w <= LongestWait
      BY WaitIsBounded
    <3>2. w \in Nat
      BY Settings, WaitIsTime
    <3>3. LongestWait \in Nat
      <4> DEFINE cap == IF intervals.initial > intervals.max THEN intervals.initial ELSE intervals.max
      <4>1. cap \in Nat /\ LongestWait = IF Jitter THEN (3 * cap) \div 2 ELSE cap
        BY Settings DEF LongestWait
      <4> HIDE DEF cap
      <4>2. (3 * cap) \div 2 \in Nat
        BY <4>1
      <4> QED
        BY <4>1, <4>2
    <3> QED
      BY <3>1, <3>2, <3>3, Settings
  <2>3. UNCHANGED <<limit, elapsed, cancelled>>
    BY <1>4 DEF BackOff, cfgVars
  <2>4. CASE ContextDone
    BY <2>1, <2>3, <2>4 DEF ContextDone
  <2>5. CASE ~ContextDone /\ GivesUp(w)
    <3>1. limit # 0 /\ elapsed + LongestWait > limit
      BY <2>2, <2>5 DEF GivesUp
    <3> QED
      BY <1>1, <2>1, <2>3, <2>5, <3>1
  <2>6. CASE ~ContextDone /\ ~GivesUp(w)
    BY <1>1, <2>1, <2>2, <2>6
  <2> QED
    BY <2>4, <2>5, <2>6
<1>5. CASE ReturnCancelled
  BY <1>5 DEF ReturnCancelled, ContextDone
<1>6. CASE Cancel \/ Tick
  BY <1>1, <1>6 DEF Cancel, Tick, cfgVars
<1>7. CASE UNCHANGED vars
  BY <1>1, <1>7 DEF vars, cfgVars
<1> QED
  BY <1>2, <1>3, <1>4, <1>5, <1>6, <1>7 DEF Next, Client

\* collect gives up on a transient error only when it is cancelled or when
\* max_elapsed_time has no room for the longest wait, and never chooses a longer
\* one: for any settings, draws of the jitter and number of attempts.
THEOREM GivesUpInTime == Spec => []RetriesUseTheirTime
<1>1. Init => TypeOK /\ Answered /\ IntervalIsCapped /\ RetriesUseTheirTime
  BY TypeInit DEF Init, IntervalIsCapped, RetriesUseTheirTime
<1>2. TypeOK /\ Answered /\ IntervalIsCapped /\ RetriesUseTheirTime /\ [Next]_vars =>
          (TypeOK /\ Answered /\ IntervalIsCapped /\ RetriesUseTheirTime)'
  BY TypeNext, CapNext, RetriesNext
<1> QED
  BY <1>1, <1>2, PTL DEF Spec
=============================================================================
