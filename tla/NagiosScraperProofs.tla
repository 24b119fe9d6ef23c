------------------------ MODULE NagiosScraperProofs ------------------------
(***************************************************************************)
(* Theorems about NagiosScraper, for any checks, outcomes, configurations  *)
(* and faults, and any number of executions: the types of its state; where *)
(* no two checks share a lastSeen key, that no execution with a last_check *)
(* is passed on twice and that no measurement is left out; and that one    *)
(* resource is one execution.                                              *)
(***************************************************************************)
EXTENDS NagiosScraper, FiniteSetTheorems, SequenceTheorems, TLAPS

USE NagiosScraperAssumption

\* In file mode a host's results share the key of its service "Host Check".
UniqueKeys == \A c, d \in Checks : Key(c) = Key(d) => c = d

\* The receiver runs with a configuration it has accepted.
Accepted == Validate(cfg)

\* Executions are numbered as they run.
RunsInOrder ==
    /\ IsFiniteSet(ran)
    /\ \A e \in ran : e.n <= Runs
    /\ \A e, f \in ran : e.n = f.n => e = f

\* Everything that is logged, queued or was collected has run; nothing is queued
\* between two scrapes.
OnlyRan ==
    /\ \A k \in DOMAIN logged : logged[k] \in ran
    /\ \A k \in DOMAIN results : results[k] \in collected
    /\ collected \subseteq ran
    /\ pc = "idle" => results = <<>>

Elements(b) == {b[k] : k \in DOMAIN b}

\* The buffer of the MetricsBuilder is a sequence, the points in the metrics are
\* those of the result that is being recorded.
BuilderInv ==
    /\ metricsBuffer \in Seq(Elements(metricsBuffer))
    /\ pc = "emit" => data = {p \in Points(result) : p.metric \in cfg.metrics}

TypeInv == TypeOK /\ Accepted /\ RunsInOrder /\ OnlyRan /\ BuilderInv

-----------------------------------------------------------------------------
(***************************************************************************)
(* Types.                                                                  *)
(***************************************************************************)
LEMMA Types ==
    ASSUME TypeOK
    PROVE  /\ ran \subseteq Execution /\ collected \subseteq Execution
           /\ logged \in Seq(Execution) /\ results \in Seq(Execution)
           /\ \A k \in DOMAIN results : results[k] \in Execution
           /\ pc \in {"idle", "loop", "emit"}
           /\ lastSeen \in [Keys -> 0..MaxTime]
           /\ delivered \in [1..MaxExec -> 0..2]
BY DEF TypeOK

LEMMA ExecutionFields ==
    ASSUME NEW e \in Execution
    PROVE  /\ e.n \in 1..MaxExec /\ e.n \in Nat /\ e.check \in Checks /\ e.time \in 0..MaxTime
           /\ e.outcome \in Outcomes /\ Key(e.check) \in Keys
BY DEF Execution, Keys

\* What is left of the results is behind the first of them.
LEMMA Behind ==
    ASSUME TypeOK, results # <<>>
    PROVE  /\ result \in Execution /\ 1 \in DOMAIN results /\ result = results[1]
           /\ Tail(results) \in Seq(Execution)
           /\ \A k \in DOMAIN Tail(results) :
                 /\ k \in Nat \ {0} /\ k + 1 \in DOMAIN results
                 /\ Tail(results)[k] = results[k + 1]
           /\ \A k \in DOMAIN results :
                 k \in Nat \ {0} /\ (k # 1 => /\ k - 1 \in DOMAIN Tail(results)
                                              /\ results[k] = Tail(results)[k - 1])
BY DEF TypeOK, result

\* What is recorded of a result depends on the source alone.
LEMMA PointsSame ==
    ASSUME UNCHANGED <<source, results>>
    PROVE  result' = result /\ Points(result)' = Points(result)
BY DEF result, Points, StatePoint, CheckPoint, PerfdataPoint, State, Stamp, Now

\* A sequence is one of its own elements.
LEMMA OfItsElements ==
    ASSUME NEW R, NEW b \in Seq(R)
    PROVE  b \in Seq(Elements(b))
<1>1. PICK n \in Nat : b \in [1..n -> R]
  BY SeqDef
<1>2. b \in [1..n -> Elements(b)]
  BY <1>1 DEF Elements
<1> QED
  BY <1>2, SeqDef

\* Every configuration Validate accepts names a source.
LEMMA SourceType ==
    ASSUME NEW c, Validate(c)
    PROVE  SourceName(c) \in Modes
<1>1. Configured(c) # {}
  <2>1. Cardinality({}) = 0
    BY FS_EmptySet
  <2> QED
    BY <2>1 DEF Validate
<1>2. c["api"] # {} \/ c["file"] # {} \/ c["livestatus"] # {}
  BY <1>1 DEF Configured, Modes
<1> QED
  BY <1>2 DEF SourceName, Modes

\* Emit returns what was buffered, and how often n is in it is a number.
LEMMA EmittedIs ==
    ASSUME BuilderInv, data = {}
    PROVE  /\ Emitted = metricsBuffer
           /\ \A n : Times(n) \in Nat
           /\ \A n : Times(n) = 0 <=>
                 \A k \in DOMAIN metricsBuffer : \A p \in metricsBuffer[k].points : p.n # n
<1>1. Emitted = metricsBuffer
  BY DEF Emitted, Buffered
<1>2. IsFiniteSet(DOMAIN metricsBuffer)
  <2>1. Len(metricsBuffer) \in Nat /\ DOMAIN metricsBuffer = 1..Len(metricsBuffer)
    BY DEF BuilderInv
  <2> QED
    BY <2>1, FS_Interval
<1>3. ASSUME NEW n
      PROVE  /\ Times(n) \in Nat
             /\ Times(n) = 0 <=>
                  \A k \in DOMAIN metricsBuffer : \A p \in metricsBuffer[k].points : p.n # n
  <2> DEFINE S == {k \in DOMAIN metricsBuffer : \E p \in metricsBuffer[k].points : p.n = n}
  <2>1. IsFiniteSet(S)
    BY <1>2, FS_Subset
  <2>2. Times(n) = Cardinality(S)
    BY <1>1 DEF Times
  <2>3. Cardinality(S) \in Nat /\ (Cardinality(S) = 0 <=> S = {})
    BY <2>1, FS_CardinalityType, FS_EmptySet
  <2> QED
    BY <2>2, <2>3
<1> QED
  BY <1>1, <1>3

LEMMA AtMost2Is ==
    ASSUME NEW k \in Nat
    PROVE  AtMost2(k) \in 0..2 /\ (AtMost2(k) >= 1 <=> k >= 1) /\ (k <= 1 => AtMost2(k) <= 1)
BY DEF AtMost2

LEMMA TypeInit == Init => TypeInv
<1> SUFFICES ASSUME Init PROVE TypeInv
  OBVIOUS
<1>1. Accepted /\ source \in Modes
  BY SourceType DEF Init, Accepted
<1>2. <<>> \in Seq(Execution) /\ DOMAIN <<>> = {} /\ <<>> \in Seq({})
  OBVIOUS
<1>3. NoneSeen \in [Keys -> 0..MaxTime] /\ NoneDelivered \in [1..MaxExec -> 0..2]
  BY DEF NoneSeen, NoneDelivered
<1>4. errs \in BOOLEAN /\ ~errs
  BY Zenon DEF Init
<1>5. TypeOK
  BY <1>1, <1>2, <1>3, <1>4 DEF Init, TypeOK, NewMetricsBuilder
<1>6. RunsInOrder
  BY FS_EmptySet DEF Init, RunsInOrder
<1>7. OnlyRan
  BY <1>2 DEF Init, OnlyRan
<1>8. BuilderInv
  <2>1. metricsBuffer = <<>> /\ pc = "idle"
    BY DEF Init, NewMetricsBuilder
  <2>2. Elements(metricsBuffer) = {}
    BY <1>2, <2>1 DEF Elements
  <2> QED
    BY <1>2, <2>1, <2>2 DEF BuilderInv
<1> QED
  BY <1>1, <1>5, <1>6, <1>7, <1>8 DEF TypeInv

LEMMA TypeRunCheck ==
    ASSUME TypeInv, NEW c \in Checks, RunCheck(c)
    PROVE  TypeInv'
<1>1. /\ TypeOK /\ RunsInOrder /\ Runs < MaxExec
      /\ UNCHANGED <<cfg, source, pc, results, lastSeen, builderVars, errs, histVars>>
  BY DEF RunCheck, TypeInv
<1>2. PICK time \in 0..MaxTime, outcome \in Outcomes :
         LET run == [n |-> Runs + 1, check |-> c, time |-> time, outcome |-> outcome]
         IN  /\ ran' = ran \cup {run}
             /\ logged' = IF source # "file" THEN logged ELSE Append(logged, run)
  BY DEF RunCheck
<1> DEFINE run == [n |-> Runs + 1, check |-> c, time |-> time, outcome |-> outcome]
<1>3. ran' = ran \cup {run} /\ logged' \in {logged, Append(logged, run)}
  BY <1>2
<1>4. Runs \in Nat
  BY <1>1, FS_CardinalityType DEF RunsInOrder, Runs
<1>5. run \in Execution /\ run.n = Runs + 1
  BY <1>1, <1>4 DEF Execution
<1> HIDE DEF run
<1>6. logged' \in Seq(Execution) /\ \A k \in DOMAIN logged' : logged'[k] \in ran'
  <2>1. logged \in Seq(Execution) /\ \A k \in DOMAIN logged : logged[k] \in ran
    BY <1>1 DEF TypeInv, TypeOK, OnlyRan
  <2>2. CASE logged' = logged
    BY <1>3, <2>1, <2>2
  <2>3. CASE logged' = Append(logged, run)
    BY <1>3, <1>5, <2>1, <2>3
  <2> QED
    BY <1>3, <2>2, <2>3
<1>7. TypeOK'
  BY <1>1, <1>3, <1>5, <1>6 DEF TypeOK, builderVars, histVars
<1>8. RunsInOrder'
  <2>1. run \notin ran /\ \A e \in ran : e.n # run.n /\ e.n \in Nat /\ e.n <= Runs
    BY <1>1, <1>4, <1>5, ExecutionFields, Types DEF RunsInOrder
  <2>2. IsFiniteSet(ran') /\ Runs' = Runs + 1
    BY <1>1, <1>3, <2>1, FS_AddElement DEF RunsInOrder, Runs
  <2>3. \A e \in ran' : e.n <= Runs'
    BY <1>3, <1>4, <1>5, <2>1, <2>2
  <2>4. \A e, f \in ran' : e.n = f.n => e = f
    BY <1>1, <1>3, <2>1 DEF RunsInOrder
  <2> QED
    BY <2>2, <2>3, <2>4 DEF RunsInOrder
<1>9. OnlyRan'
  BY <1>1, <1>3, <1>6 DEF TypeInv, OnlyRan, histVars
<1>10. BuilderInv' /\ Accepted'
  <2>1. UNCHANGED <<cfg, source, pc, results, data, metricsBuffer>>
    BY <1>1 DEF builderVars
  <2>2. result' = result /\ Points(result)' = Points(result)
    BY <2>1, PointsSame
  <2> QED
    BY <2>1, <2>2 DEF TypeInv, BuilderInv, Accepted
<1> QED
  BY <1>7, <1>8, <1>9, <1>10 DEF TypeInv

\* Every order of the latest executions is a sequence of them, each once.
LEMMA FoundIs ==
    ASSUME TypeInv, NEW found \in Found
    PROVE  /\ found \in Seq(Execution)
           /\ \A k \in DOMAIN found : found[k] \in ran
           /\ source = "file" => found = logged
           /\ source # "file" =>
                 /\ \A k \in DOMAIN found : found[k] \in Latest
                 /\ \A i, j \in DOMAIN found : i # j => found[i] # found[j]
<1>1. TypeOK /\ RunsInOrder /\ OnlyRan
  BY DEF TypeInv
<1>2. CASE source = "file"
  BY <1>1, <1>2, Types DEF Found, OnlyRan
<1>3. CASE source # "file"
  <2>1. found \in [1..Cardinality(Latest) -> Latest]
        /\ \A i, j \in DOMAIN found : i # j => found[i] # found[j]
    BY <1>3 DEF Found, Orders
  <2>2. Latest \subseteq ran /\ Latest \subseteq Execution
    BY <1>1, Types DEF Latest
  <2>3. Cardinality(Latest) \in Nat
    BY <1>1, <2>2, FS_Subset, FS_CardinalityType DEF RunsInOrder
  <2>4. found \in Seq(Execution) /\ DOMAIN found = 1..Cardinality(Latest)
    BY <2>1, <2>2, <2>3
  <2> QED
    BY <1>3, <2>1, <2>2, <2>4
<1> QED
  BY <1>2, <1>3

LEMMA TypeCollect ==
    ASSUME TypeInv, Collect
    PROVE  TypeInv'
<1>1. TypeOK /\ OnlyRan
  BY DEF TypeInv
<1>2. PICK found \in Found :
          /\ results' = found
          /\ pc' = IF found = <<>> THEN "idle" ELSE "loop"
          /\ collected' = collected \cup {found[k] : k \in DOMAIN found}
  BY DEF Collect
<1>3. /\ pc = "idle" /\ logged' = <<>> /\ seenBefore' = lastSeen
      /\ UNCHANGED <<cfg, source, ran, lastSeen, data, metricsBuffer, errs,
                     delivered, discarded, skipped>>
  BY DEF Collect, builderVars
<1>4. found \in Seq(Execution) /\ \A k \in DOMAIN found : found[k] \in ran
  BY FoundIs
<1>5. {found[k] : k \in DOMAIN found} \subseteq ran /\ ran \subseteq Execution
  BY <1>1, <1>4, Types
<1>6. TypeOK'
  <2>1. <<>> \in Seq(Execution)
    OBVIOUS
  <2>2. pc' \in {"idle", "loop"} /\ collected' \in SUBSET Execution
    BY <1>1, <1>2, <1>5 DEF TypeOK
  <2> QED
    BY <1>1, <1>2, <1>3, <1>4, <2>1, <2>2 DEF TypeOK
<1>7. OnlyRan'
  <2>1. DOMAIN <<>> = {}
    OBVIOUS
  <2>2. pc' = "idle" => results' = <<>>
    BY <1>2
  <2>3. \A k \in DOMAIN results' : results'[k] \in collected'
    BY <1>2
  <2>4. collected' \subseteq ran'
    BY <1>1, <1>2, <1>3, <1>5 DEF OnlyRan
  <2> QED
    BY <1>3, <2>1, <2>2, <2>3, <2>4 DEF OnlyRan
<1>8. RunsInOrder' /\ Accepted'
  BY <1>3 DEF TypeInv, RunsInOrder, Runs, Accepted
<1>9. BuilderInv'
  BY <1>2, <1>3 DEF TypeInv, BuilderInv
<1> QED
  BY <1>6, <1>7, <1>8, <1>9 DEF TypeInv

LEMMA TypeCollectFails ==
    ASSUME TypeInv, CollectFails
    PROVE  TypeInv'
<1>1. PICK k \in 0..Len(logged) : logged' = SubSeq(logged, k + 1, Len(logged))
  BY DEF CollectFails
<1>2. /\ TypeOK /\ OnlyRan /\ logged \in Seq(Execution) /\ Len(logged) \in Nat
      /\ pc = "idle"
      /\ UNCHANGED <<cfg, source, ran, pc, results, lastSeen, data, metricsBuffer, errs,
                     histVars>>
  BY DEF CollectFails, TypeInv, TypeOK, builderVars
<1>3. /\ logged' \in Seq(Execution)
      /\ \A j \in DOMAIN logged' : logged'[j] = logged[k + j] /\ k + j \in DOMAIN logged
  BY <1>1, <1>2
<1>4. TypeOK'
  BY <1>2, <1>3 DEF TypeOK, histVars
<1>5. OnlyRan'
  BY <1>2, <1>3 DEF OnlyRan, histVars
<1>6. RunsInOrder' /\ Accepted' /\ BuilderInv'
  BY <1>2 DEF TypeInv, RunsInOrder, Runs, Accepted, BuilderInv
<1> QED
  BY <1>4, <1>5, <1>6 DEF TypeInv

LEMMA TypeSkip ==
    ASSUME TypeInv, Skip
    PROVE  TypeInv'
<1>1. /\ TypeOK /\ OnlyRan /\ results # <<>> /\ pc = "loop" /\ results' = Tail(results)
      /\ skipped' = skipped \cup {result}
      /\ UNCHANGED <<cfg, source, nagiosVars, pc, lastSeen, data, metricsBuffer, errs,
                     delivered, discarded, collected, seenBefore>>
  BY DEF Skip, TypeInv, builderVars
<1>2. TypeOK'
  <2>1. result \in Execution /\ Tail(results) \in Seq(Execution)
    BY <1>1, Behind
  <2> QED
    BY <1>1, <2>1 DEF TypeOK, nagiosVars
<1>3. OnlyRan'
  BY <1>1, Behind DEF OnlyRan, nagiosVars
<1>4. RunsInOrder' /\ Accepted' /\ BuilderInv'
  BY <1>1 DEF TypeInv, RunsInOrder, Runs, Accepted, BuilderInv, nagiosVars
<1> QED
  BY <1>2, <1>3, <1>4 DEF TypeInv

LEMMA TypeRecord ==
    ASSUME TypeInv, Record
    PROVE  TypeInv'
<1>1. /\ TypeOK /\ OnlyRan /\ results # <<>> /\ pc = "loop" /\ pc' = "emit"
      /\ UNCHANGED <<cfg, source, ran, logged, results, metricsBuffer, histVars>>
      /\ data' = data \cup {p \in Points(result) : p.metric \in cfg.metrics}
  BY DEF Record, TypeInv, RecordDataPoints, nagiosVars
<1>2. TypeOK'
  <2>1. result \in Execution
    BY <1>1, Behind
  <2>2. lastSeen' \in [Keys -> 0..MaxTime]
    <3>1. result.time \in 0..MaxTime
      BY <2>1, ExecutionFields
    <3> QED
      BY <1>1, <3>1, Types DEF Record, Remember
  <2>3. errs' \in BOOLEAN
    BY Zenon DEF Record
  <2> QED
    BY <1>1, <2>2, <2>3 DEF TypeOK, histVars
<1>3. BuilderInv'
  <2>1. data = {}
    BY <1>1 DEF TypeOK
  <2>2. result' = result /\ Points(result)' = Points(result)
    BY <1>1, PointsSame
  <2> QED
    BY <1>1, <2>1, <2>2 DEF TypeInv, BuilderInv
<1>4. RunsInOrder' /\ Accepted' /\ OnlyRan'
  BY <1>1 DEF TypeInv, RunsInOrder, Runs, Accepted, OnlyRan, histVars
<1> QED
  BY <1>2, <1>3, <1>4 DEF TypeInv

\* EmitForResource buffers the recorded points as a resource, or drops them.
LEMMA EmitIs ==
    ASSUME TypeInv, EmitCheck
    PROVE  \E m : /\ metricsBuffer' = metricsBuffer \/ metricsBuffer' = Append(metricsBuffer, m)
                  /\ m.points = data
                  /\ Reportable(result) => metricsBuffer' = Append(metricsBuffer, m)
<1> DEFINE resource == BuildResource(ResourceAttributes(result))
           m == [resource |-> resource, points |-> data]
<1>1. metricsBuffer' = Buffered(resource) /\ m.points = data
  BY DEF EmitCheck, EmitForResource
<1>2. Buffered(resource) \in {metricsBuffer, Append(metricsBuffer, m)}
  BY DEF Buffered
<1>3. Reportable(result) => Buffered(resource) = Append(metricsBuffer, m)
  <2>1. pc = "emit" /\ data = {p \in Points(result) : p.metric \in cfg.metrics}
    BY DEF EmitCheck, TypeInv, BuilderInv
  <2> QED
    BY <2>1 DEF Buffered, Reportable
<1> QED
  BY <1>1, <1>2, <1>3

\* A buffer with one more resource.
LEMMA AppendIs ==
    ASSUME BuilderInv, NEW m, NEW b, b = Append(metricsBuffer, m)
    PROVE  /\ b \in Seq(Elements(b))
           /\ Len(metricsBuffer) \in Nat /\ DOMAIN metricsBuffer = 1..Len(metricsBuffer)
           /\ DOMAIN b = 1..(Len(metricsBuffer) + 1)
           /\ \A k \in DOMAIN metricsBuffer : b[k] = metricsBuffer[k]
           /\ b[Len(metricsBuffer) + 1] = m
<1> DEFINE R == Elements(metricsBuffer) \cup {m}
<1>1. metricsBuffer \in Seq(R)
  <2>1. Len(metricsBuffer) \in Nat /\ metricsBuffer \in [1..Len(metricsBuffer) -> R]
    BY DEF BuilderInv
  <2> QED
    BY <2>1
<1>2. m \in R
  OBVIOUS
<1> HIDE DEF R
<1>3. /\ Len(metricsBuffer) \in Nat /\ DOMAIN metricsBuffer = 1..Len(metricsBuffer)
      /\ b \in Seq(R) /\ DOMAIN b = 1..(Len(metricsBuffer) + 1)
      /\ \A k \in DOMAIN metricsBuffer : b[k] = metricsBuffer[k]
      /\ b[Len(metricsBuffer) + 1] = m
  BY <1>1, <1>2
<1>4. b \in Seq(Elements(b))
  BY <1>3, OfItsElements
<1> QED
  BY <1>3, <1>4

LEMMA TypeEmitCheck ==
    ASSUME TypeInv, EmitCheck
    PROVE  TypeInv'
<1>1. /\ TypeOK /\ OnlyRan /\ results # <<>> /\ pc = "emit" /\ pc' = "loop"
      /\ results' = Tail(results) /\ data' = {}
      /\ UNCHANGED <<cfg, source, ran, logged, lastSeen, errs, histVars>>
  BY DEF EmitCheck, TypeInv, TypeOK, EmitForResource, PointsLeft, nagiosVars
<1>2. TypeOK'
  <2>1. Tail(results) \in Seq(Execution)
    BY <1>1, Behind
  <2> QED
    BY <1>1, <2>1 DEF TypeOK, histVars
<1>3. OnlyRan'
  BY <1>1, Behind DEF OnlyRan, histVars
<1>4. BuilderInv'
  <2>1. PICK m : metricsBuffer' \in {metricsBuffer, Append(metricsBuffer, m)}
    BY EmitIs
  <2>2. BuilderInv
    BY DEF TypeInv
  <2>3. metricsBuffer' \in Seq(Elements(metricsBuffer'))
    <3>1. CASE metricsBuffer' = metricsBuffer
      BY <2>2, <3>1 DEF BuilderInv
    <3>2. CASE metricsBuffer' = Append(metricsBuffer, m)
      <4>1. Append(metricsBuffer, m) \in Seq(Elements(Append(metricsBuffer, m)))
        BY <2>2, AppendIs
      <4> QED
        BY <3>2, <4>1
    <3> QED
      BY <2>1, <3>1, <3>2
  <2> QED
    BY <1>1, <2>3 DEF BuilderInv
<1>5. RunsInOrder' /\ Accepted'
  BY <1>1 DEF TypeInv, RunsInOrder, Runs, Accepted
<1> QED
  BY <1>2, <1>3, <1>4, <1>5 DEF TypeInv

LEMMA EmptyBuilder ==
    ASSUME metricsBuffer = <<>>, pc # "emit"
    PROVE  BuilderInv
<1>1. DOMAIN <<>> = {} /\ <<>> \in Seq({})
  OBVIOUS
<1>2. Elements(metricsBuffer) = {}
  BY <1>1 DEF Elements
<1> QED
  BY <1>1, <1>2 DEF BuilderInv

LEMMA TypeReturn ==
    ASSUME TypeInv, Return
    PROVE  TypeInv'
<1>1. /\ TypeOK /\ OnlyRan /\ results = <<>> /\ pc = "loop" /\ pc' = "idle" /\ data = {}
      /\ metricsBuffer' = <<>> /\ data' = {} /\ errs' = FALSE
      /\ UNCHANGED <<cfg, source, ran, logged, results, lastSeen, collected, skipped, seenBefore>>
  BY DEF Return, TypeInv, TypeOK, Emit, PointsLeft, nagiosVars
<1>2. delivered' \in [1..MaxExec -> 0..2] /\ discarded' \in SUBSET (1..MaxExec)
  <2>1. delivered \in [1..MaxExec -> 0..2] /\ discarded \in SUBSET (1..MaxExec)
    BY <1>1 DEF TypeOK
  <2>2. \A n \in 1..MaxExec : AtMost2(delivered[n] + Times(n)) \in 0..2
    <3>1. \A n \in 1..MaxExec : delivered[n] + Times(n) \in Nat
      BY <1>1, <2>1, EmittedIs DEF TypeInv
    <3> QED
      BY <3>1, AtMost2Is
  <2> QED
    BY <2>1, <2>2 DEF Return
<1>3. TypeOK'
  <2>1. <<>> \in Seq(Execution)
    OBVIOUS
  <2>2. errs' \in BOOLEAN /\ ~errs'
    BY <1>1, Zenon
  <2> QED
    BY <1>1, <1>2, <2>1, <2>2 DEF TypeOK
<1>4. OnlyRan' /\ RunsInOrder' /\ Accepted'
  BY <1>1 DEF TypeInv, OnlyRan, RunsInOrder, Runs, Accepted
<1>5. BuilderInv'
  <2>1. (metricsBuffer = <<>> /\ pc # "emit")'
    BY <1>1
  <2> QED
    BY <2>1, EmptyBuilder, PTL
<1> QED
  BY <1>3, <1>4, <1>5 DEF TypeInv

LEMMA TypeRestart ==
    ASSUME TypeInv, Restart
    PROVE  TypeInv'
<1>1. /\ TypeOK /\ OnlyRan /\ Accepted /\ pc = "idle" /\ source' = SourceName(cfg)
      /\ data' = {} /\ metricsBuffer' = <<>> /\ lastSeen' = NoneSeen /\ logged' = <<>>
      /\ delivered' = NoneDelivered /\ discarded' = {} /\ collected' = {} /\ skipped' = {}
      /\ seenBefore' = NoneSeen
      /\ UNCHANGED <<cfg, ran, pc, results, errs>>
  BY DEF Restart, TypeInv
<1>2. <<>> \in Seq(Execution) /\ DOMAIN <<>> = {}
  OBVIOUS
<1>3. TypeOK'
  <2>1. NoneSeen \in [Keys -> 0..MaxTime] /\ NoneDelivered \in [1..MaxExec -> 0..2]
    BY DEF NoneSeen, NoneDelivered
  <2>2. SourceName(cfg) \in Modes
    BY <1>1, SourceType DEF Accepted
  <2> QED
    BY <1>1, <1>2, <2>1, <2>2 DEF TypeOK
<1>4. OnlyRan' /\ RunsInOrder' /\ Accepted'
  BY <1>1, <1>2 DEF TypeInv, OnlyRan, RunsInOrder, Runs, Accepted
<1>5. BuilderInv'
  <2>1. (metricsBuffer = <<>> /\ pc # "emit")'
    BY <1>1
  <2> QED
    BY <2>1, EmptyBuilder, PTL
<1> QED
  BY <1>3, <1>4, <1>5 DEF TypeInv

LEMMA TypeNext ==
    ASSUME TypeInv, [Next]_vars
    PROVE  TypeInv'
<1>1. CASE UNCHANGED vars
  <2>1. /\ UNCHANGED <<cfg, source, ran, logged, pc, results, lastSeen, data, metricsBuffer, errs>>
        /\ UNCHANGED <<delivered, discarded, collected, skipped, seenBefore>>
    BY <1>1 DEF vars, builderVars
  <2>2. result' = result /\ Points(result)' = Points(result)
    BY <2>1, PointsSame
  <2> QED
    BY <2>1, <2>2 DEF TypeInv, TypeOK, Accepted, RunsInOrder, Runs, OnlyRan, BuilderInv
<1> QED
  BY <1>1, TypeRunCheck, TypeCollect, TypeCollectFails, TypeSkip, TypeRecord, TypeEmitCheck,
     TypeReturn, TypeRestart DEF Next, Scrape

\* Between two scrapes the MetricsBuilder is empty, whatever was recorded,
\* filtered out or not parsed in the last one.
THEOREM TypeCorrect == Spec => []TypeOK
<1>1. TypeInv => TypeOK
  BY DEF TypeInv
<1> QED
  BY <1>1, TypeInit, TypeNext, PTL DEF Spec

-----------------------------------------------------------------------------
(***************************************************************************)
(* The order of results.                                                   *)
(***************************************************************************)
\* The results in a queue are different executions, one check's in order.
QueueInOrder ==
    \A i, j \in DOMAIN results : i < j =>
        /\ results[i] # results[j]
        /\ results[i].check = results[j].check => results[i].n < results[j].n

\* What the file source has still to collect is newer than what it has.
LogInOrder ==
    /\ source # "file" => logged = <<>>
    /\ \A i, j \in DOMAIN logged : i < j => logged[i].n < logged[j].n
    /\ \A i \in DOMAIN logged : \A e \in collected : e.n < logged[i].n

OrderInv == QueueInOrder /\ LogInOrder

LEMMA LatestIs ==
    ASSUME TypeInv
    PROVE  /\ Latest \subseteq ran
           /\ \A e, f \in Latest : e.check = f.check => e = f
           /\ \A e \in Latest, f \in ran : f.check = e.check => f.n <= e.n
<1>1. \A e, f \in ran : e.n = f.n => e = f
  BY DEF TypeInv, RunsInOrder
<1>2. \A e \in ran : e.n \in Nat
  BY Types, ExecutionFields DEF TypeInv
<1>3. Latest \subseteq ran /\ \A e \in Latest, f \in ran : f.check = e.check => f.n <= e.n
  BY DEF Latest
<1>4. ASSUME NEW e \in Latest, NEW f \in Latest, e.check = f.check PROVE e = f
  <2>1. e.n <= f.n /\ f.n <= e.n /\ e \in ran /\ f \in ran
    BY <1>3, <1>4
  <2> QED
    BY <1>1, <1>2, <2>1
<1> QED
  BY <1>3, <1>4

\* The elements of a queue are its head and what is behind it.
LEMMA HeadAndTail ==
    ASSUME TypeOK, QueueInOrder, results # <<>>
    PROVE  /\ Elements(results) = Elements(Tail(results)) \cup {result}
           /\ \A e \in Elements(Tail(results)) :
                 e # result /\ (e.check = result.check => result.n < e.n)
<1>1. ASSUME NEW e \in Elements(Tail(results))
      PROVE  /\ e \in Elements(results)
             /\ e # result /\ (e.check = result.check => result.n < e.n)
  <2>1. PICK k \in DOMAIN Tail(results) : e = Tail(results)[k]
    BY DEF Elements
  <2>2. /\ k \in Nat \ {0} /\ k + 1 \in DOMAIN results /\ e = results[k + 1]
        /\ 1 \in DOMAIN results /\ result = results[1]
    BY <2>1, Behind
  <2>3. 1 < k + 1
    BY <2>2
  <2>4. e \in Elements(results)
    BY <2>2 DEF Elements
  <2> QED
    BY <2>2, <2>3, <2>4 DEF QueueInOrder
<1>2. ASSUME NEW e \in Elements(results), e # result
      PROVE  e \in Elements(Tail(results))
  <2>1. PICK k \in DOMAIN results : e = results[k]
    BY DEF Elements
  <2>2. k # 1
    BY <1>2, <2>1, Behind
  <2> QED
    BY <2>1, <2>2, Behind DEF Elements
<1>3. result \in Elements(results)
  BY Behind DEF Elements
<1> QED
  BY <1>1, <1>2, <1>3

LEMMA OrderTail ==
    ASSUME TypeOK, OrderInv, results # <<>>, results' = Tail(results),
           UNCHANGED <<source, logged, collected>>
    PROVE  OrderInv'
<1>1. QueueInOrder'
  <2> SUFFICES ASSUME NEW i \in DOMAIN Tail(results), NEW j \in DOMAIN Tail(results), i < j
               PROVE  /\ Tail(results)[i] # Tail(results)[j]
                      /\ Tail(results)[i].check = Tail(results)[j].check =>
                            Tail(results)[i].n < Tail(results)[j].n
    BY DEF QueueInOrder
  <2>1. /\ i \in Nat /\ j \in Nat /\ i + 1 \in DOMAIN results /\ j + 1 \in DOMAIN results
        /\ Tail(results)[i] = results[i + 1] /\ Tail(results)[j] = results[j + 1]
    BY Behind
  <2>2. i + 1 < j + 1
    BY <2>1
  <2> QED
    BY <2>1, <2>2 DEF OrderInv, QueueInOrder
<1> QED
  BY <1>1 DEF OrderInv, LogInOrder

LEMMA OrderSame ==
    ASSUME OrderInv, UNCHANGED <<source, results, logged, collected>>
    PROVE  OrderInv'
BY DEF OrderInv, QueueInOrder, LogInOrder

LEMMA OrderRunCheck ==
    ASSUME TypeInv, OrderInv, NEW c \in Checks, RunCheck(c)
    PROVE  OrderInv'
<1>1. PICK time \in 0..MaxTime, outcome \in Outcomes :
         logged' = IF source # "file" THEN logged
                   ELSE Append(logged, [n |-> Runs + 1, check |-> c, time |-> time,
                                        outcome |-> outcome])
  BY DEF RunCheck
<1> DEFINE run == [n |-> Runs + 1, check |-> c, time |-> time, outcome |-> outcome]
<1>2. logged' = (IF source # "file" THEN logged ELSE Append(logged, run)) /\ run.n = Runs + 1
  BY <1>1
<1> HIDE DEF run
<1>3. /\ UNCHANGED <<source, results, collected>>
      /\ TypeOK /\ logged \in Seq(Execution) /\ Runs \in Nat
  BY Types, FS_CardinalityType DEF RunCheck, histVars, TypeInv, RunsInOrder, Runs
<1>4. \A e \in ran : e.n \in Nat /\ e.n <= Runs
  BY <1>3, Types, ExecutionFields DEF TypeInv, RunsInOrder
<1>5. /\ \A i \in DOMAIN logged : logged[i] \in ran
      /\ collected \subseteq ran
  BY DEF TypeInv, OnlyRan
<1>6. CASE source # "file"
  BY <1>2, <1>3, <1>6, OrderSame
<1>7. CASE source = "file"
  <2>1. /\ Len(logged) \in Nat /\ DOMAIN logged = 1..Len(logged)
        /\ DOMAIN logged' = 1..(Len(logged) + 1)
        /\ \A i \in DOMAIN logged : logged'[i] = logged[i]
        /\ logged'[Len(logged) + 1].n = Runs + 1
    BY <1>2, <1>3, <1>7
  <2>2. \A i, j \in DOMAIN logged' : i < j => logged'[i].n < logged'[j].n
    <3> SUFFICES ASSUME NEW i \in DOMAIN logged', NEW j \in DOMAIN logged', i < j
                 PROVE  logged'[i].n < logged'[j].n
      OBVIOUS
    <3>1. i \in DOMAIN logged
      BY <2>1
    <3>2. CASE j \in DOMAIN logged
      BY <2>1, <3>1, <3>2 DEF OrderInv, LogInOrder
    <3>3. CASE j \notin DOMAIN logged
      <4>1. logged'[j].n = Runs + 1 /\ logged'[i].n <= Runs /\ logged'[i].n \in Nat
        BY <1>4, <1>5, <2>1, <3>1, <3>3
      <4> QED
        BY <1>3, <4>1
    <3> QED
      BY <3>2, <3>3
  <2>3. \A i \in DOMAIN logged' : \A e \in collected' : e.n < logged'[i].n
    <3> SUFFICES ASSUME NEW i \in DOMAIN logged', NEW e \in collected
                 PROVE  e.n < logged'[i].n
      BY <1>3
    <3>1. CASE i \in DOMAIN logged
      BY <2>1, <3>1 DEF OrderInv, LogInOrder
    <3>2. CASE i \notin DOMAIN logged
      BY <1>3, <1>4, <1>5, <2>1, <3>2
    <3> QED
      BY <3>1, <3>2
  <2> QED
    BY <1>3, <1>7, <2>2, <2>3 DEF OrderInv, QueueInOrder, LogInOrder
<1> QED
  BY <1>6, <1>7

LEMMA OrderCollect ==
    ASSUME TypeInv, OrderInv, Collect
    PROVE  OrderInv'
<1>1. PICK found \in Found : results' = found
  BY DEF Collect
<1>2. logged' = <<>> /\ DOMAIN <<>> = {}
  BY DEF Collect
<1>3. \A i, j \in DOMAIN found : i < j =>
          found[i] # found[j] /\ (found[i].check = found[j].check => found[i].n < found[j].n)
  <2>1. CASE source = "file"
    <3>1. found = logged
      BY <2>1, FoundIs
    <3>2. \A i \in DOMAIN logged : logged[i].n \in Nat
      BY Types, ExecutionFields DEF TypeInv, OnlyRan
    <3> QED
      BY <3>1, <3>2 DEF OrderInv, LogInOrder
  <2>2. CASE source # "file"
    <3>1. DOMAIN found \subseteq Nat
      BY FoundIs
    <3> QED
      BY <2>2, <3>1, FoundIs, LatestIs
  <2> QED
    BY <2>1, <2>2
<1> QED
  BY <1>1, <1>2, <1>3 DEF OrderInv, QueueInOrder, LogInOrder

LEMMA OrderCollectFails ==
    ASSUME TypeInv, OrderInv, CollectFails
    PROVE  OrderInv'
<1>1. PICK k \in 0..Len(logged) : logged' = SubSeq(logged, k + 1, Len(logged))
  BY DEF CollectFails
<1>2. /\ logged \in Seq(Execution) /\ Len(logged) \in Nat /\ DOMAIN logged = 1..Len(logged)
      /\ UNCHANGED <<source, results, collected>>
  BY DEF CollectFails, TypeInv, TypeOK, histVars
<1>3. \A j \in DOMAIN logged' :
          j \in Nat /\ logged'[j] = logged[k + j] /\ k + j \in DOMAIN logged
  BY <1>1, <1>2
<1>4. source # "file" => logged' = <<>>
  <2> SUFFICES ASSUME logged = <<>> PROVE logged' = <<>>
    BY DEF OrderInv, LogInOrder
  <2>1. k = 0 /\ Len(logged) = 0
    BY <1>1, <1>2
  <2> QED
    BY <1>1, <2>1
<1>5. \A i, j \in DOMAIN logged' : i < j => logged'[i].n < logged'[j].n
  <2> SUFFICES ASSUME NEW i \in DOMAIN logged', NEW j \in DOMAIN logged', i < j
               PROVE  logged'[i].n < logged'[j].n
    OBVIOUS
  <2>1. k + i < k + j
    BY <1>3
  <2> QED
    BY <1>3, <2>1 DEF OrderInv, LogInOrder
<1>6. \A i \in DOMAIN logged' : \A e \in collected : e.n < logged'[i].n
  BY <1>3 DEF OrderInv, LogInOrder
<1> QED
  BY <1>2, <1>4, <1>5, <1>6 DEF OrderInv, QueueInOrder, LogInOrder

LEMMA OrderNext ==
    ASSUME TypeInv, OrderInv, [Next]_vars
    PROVE  OrderInv'
<1>1. TypeOK
  BY DEF TypeInv
<1>2. CASE Skip
  BY <1>1, <1>2, OrderTail DEF Skip, nagiosVars
<1>3. CASE EmitCheck
  <2>1. results # <<>>
    BY <1>1, <1>3 DEF EmitCheck, TypeOK
  <2> QED
    BY <1>1, <1>3, <2>1, OrderTail DEF EmitCheck, nagiosVars, histVars
<1>4. CASE Record \/ Return \/ UNCHANGED vars
  BY <1>4, OrderSame DEF Record, Return, nagiosVars, histVars, vars
<1>5. CASE Restart
  <2>1. DOMAIN <<>> = {} /\ logged' = <<>> /\ results' = results
    BY <1>5 DEF Restart
  <2> QED
    BY <2>1 DEF OrderInv, QueueInOrder, LogInOrder
<1> QED
  BY <1>2, <1>3, <1>4, <1>5, OrderRunCheck, OrderCollect, OrderCollectFails DEF Next, Scrape

LEMMA OrderInit == Init => OrderInv
<1>1. DOMAIN <<>> = {}
  OBVIOUS
<1> QED
  BY <1>1 DEF Init, OrderInv, QueueInOrder, LogInOrder

-----------------------------------------------------------------------------
(***************************************************************************)
(* Once.                                                                   *)
(***************************************************************************)
InBuffer(n) == \E k \in DOMAIN metricsBuffer : \E p \in metricsBuffer[k].points : p.n = n
InData(n) == \E p \in data : p.n = n

\* Points of execution n have been passed on, or will be if no error comes up.
Gone(n) == delivered[n] >= 1 \/ InBuffer(n) \/ InData(n)

GoneWasCollected == \A n \in 1..MaxExec : Gone(n) => \E e \in collected : e.n = n

\* No resource is buffered for what is still queued, nor two for one execution.
BufferIsApart == \A r \in Elements(results) : ~InBuffer(r.n)
BufferedOnce ==
    \A j, k \in DOMAIN metricsBuffer :
        \A p \in metricsBuffer[j].points, q \in metricsBuffer[k].points :
            p.n = q.n => j = k

\* What is gone of a check is no newer than what is queued of it.
GoneIsOlder ==
    \A r \in Elements(results), e \in collected :
        e.check = r.check /\ Gone(e.n) => e.n <= r.n

\* What is gone and may be seen again is known by its last_check.
GoneIsSeen ==
    \A e \in collected :
        e.time > 0 /\ Gone(e.n) /\ (e \in Latest \/ e \in Elements(results)) =>
            lastSeen[Key(e.check)] = e.time

\* What the running scrape is about to pass on has not been before.
NotYetDelivered ==
    \A e \in collected : e.time > 0 /\ (InBuffer(e.n) \/ InData(e.n)) => delivered[e.n] = 0

OnceInv ==
    /\ GoneWasCollected /\ BufferIsApart /\ BufferedOnce
    /\ GoneIsOlder /\ GoneIsSeen /\ NotYetDelivered /\ NeverTwice

LEMMA PointsAreOf ==
    ASSUME NEW r, NEW p \in Points(r)
    PROVE  p.n = r.n
<1> DEFINE names == {"nagios.check.execution_time", "nagios.check.latency"}
                       \cup IF r.time > 0 THEN {"nagios.check.last_check"} ELSE {}
           OfCheck == {CheckPoint(metric, Stamp(r), r.n) : metric \in names}
           Perfdata(pm) == {PerfdataPoint(metric, pm.label, Stamp(r), r.n) :
                              metric \in {"nagios.perfdata.value"} \cup pm.bounds}
<1>1. ASSUME NEW q \in OfCheck PROVE q.n = r.n
  <2>1. PICK metric \in names : q = CheckPoint(metric, Stamp(r), r.n)
    OBVIOUS
  <2> QED
    BY <2>1 DEF CheckPoint
<1>2. \A pm : \A q \in Perfdata(pm) : q.n = r.n
  BY DEF PerfdataPoint
<1>3. StatePoint(StateAttribute(State(r)), Stamp(r), r.n).n = r.n
  BY DEF StatePoint
<1>4. Points(r) = {StatePoint(StateAttribute(State(r)), Stamp(r), r.n)}
                  \cup OfCheck \cup UNION {Perfdata(pm) : pm \in r.outcome.perf}
  BY DEF Points
<1> HIDE DEF OfCheck, Perfdata
<1> QED
  BY <1>1, <1>2, <1>3, <1>4

\* What was collected is known by its number.
LEMMA Known ==
    ASSUME TypeInv
    PROVE  /\ collected \subseteq ran /\ ran \subseteq Execution
           /\ Elements(results) \subseteq collected
           /\ \A e, f \in collected : e.n = f.n => e = f
           /\ \A e \in collected :
                 e.n \in 1..MaxExec /\ e.n \in Nat /\ Key(e.check) \in Keys
                 /\ e.check \in Checks /\ e.time \in Nat
BY Types, ExecutionFields DEF TypeInv, OnlyRan, RunsInOrder, Elements

LEMMA DeliveredType ==
    ASSUME TypeInv
    PROVE  delivered \in [1..MaxExec -> 0..2]
BY DEF TypeInv, TypeOK

\* As long as nothing is collected, recorded, buffered or passed on.
LEMMA OnceSame ==
    ASSUME OnceInv, UNCHANGED <<delivered, metricsBuffer, data, lastSeen, collected>>,
           Elements(results)' \subseteq Elements(results),
           Latest' \cap collected \subseteq Latest
    PROVE  OnceInv'
<1>1. \A n : Gone(n)' = Gone(n) /\ InBuffer(n)' = InBuffer(n) /\ InData(n)' = InData(n)
  BY DEF Gone, InBuffer, InData
<1>2. GoneWasCollected' /\ BufferIsApart' /\ BufferedOnce' /\ NotYetDelivered' /\ NeverTwice'
  BY <1>1 DEF OnceInv, GoneWasCollected, BufferIsApart, BufferedOnce, NotYetDelivered, NeverTwice
<1>3. GoneIsOlder' /\ GoneIsSeen'
  BY <1>1 DEF OnceInv, GoneIsOlder, GoneIsSeen
<1> QED
  BY <1>2, <1>3 DEF OnceInv

LEMMA OnceRunCheck ==
    ASSUME TypeInv, OnceInv, NEW c \in Checks, RunCheck(c)
    PROVE  OnceInv'
<1>1. ran \subseteq ran' /\ UNCHANGED <<delivered, metricsBuffer, data, lastSeen, collected, results>>
  BY DEF RunCheck, builderVars, histVars
<1>2. Latest' \cap collected \subseteq Latest
  BY <1>1, Known DEF Latest
<1>3. Elements(results)' = Elements(results)
  BY <1>1 DEF Elements
<1> QED
  BY <1>1, <1>2, <1>3, OnceSame

LEMMA OnceSkip ==
    ASSUME TypeInv, OrderInv, OnceInv, Skip
    PROVE  OnceInv'
<1>1. /\ results # <<>> /\ results' = Tail(results) /\ TypeOK
      /\ UNCHANGED <<ran, delivered, metricsBuffer, data, lastSeen, collected>>
  BY DEF Skip, builderVars, nagiosVars, TypeInv
<1>2. Elements(results)' \subseteq Elements(results)
  <2>1. Elements(Tail(results)) \subseteq Elements(results)
    BY <1>1, HeadAndTail DEF OrderInv
  <2> QED
    BY <1>1, <2>1 DEF Elements
<1>3. Latest' = Latest
  BY <1>1 DEF Latest
<1> QED
  BY <1>1, <1>2, <1>3, OnceSame

LEMMA OnceCollect ==
    ASSUME TypeInv, TypeInv', OrderInv, OnceInv, Collect
    PROVE  OnceInv'
<1>1. PICK found \in Found :
          results' = found /\ collected' = collected \cup {found[k] : k \in DOMAIN found}
  BY DEF Collect
<1>2. /\ UNCHANGED <<source, ran, delivered, metricsBuffer, data, lastSeen>>
      /\ metricsBuffer = <<>> /\ data = {}
  BY DEF Collect, builderVars, TypeInv, TypeOK
<1>3. \A n : Gone(n)' = Gone(n) /\ InBuffer(n)' = InBuffer(n) /\ InData(n)' = InData(n)
  BY <1>2 DEF Gone, InBuffer, InData
<1>4. \A n : ~InBuffer(n) /\ ~InData(n)
  <2>1. DOMAIN <<>> = {}
    OBVIOUS
  <2> QED
    BY <1>2, <2>1 DEF InBuffer, InData
<1>5. /\ Latest' = Latest
      /\ Elements(results)' = {found[k] : k \in DOMAIN found}
  BY <1>1, <1>2 DEF Latest, Elements
<1>6. \A e \in collected' :
          /\ e \in ran /\ e.n \in 1..MaxExec /\ e.n \in Nat
          /\ Gone(e.n) => e \in collected
  <2>1. \A e \in collected' : e \in ran
    BY <1>2 DEF TypeInv, OnlyRan
  <2>2. \A e \in ran : e.n \in 1..MaxExec /\ e.n \in Nat
    BY Types, ExecutionFields DEF TypeInv
  <2>3. ASSUME NEW e \in collected', Gone(e.n) PROVE e \in collected
    <3>1. PICK f \in collected : f.n = e.n
      BY <2>1, <2>2, <2>3 DEF OnceInv, GoneWasCollected
    <3>2. f \in ran /\ e \in ran
      BY <2>1, Known
    <3>3. f = e
      BY <3>1, <3>2 DEF TypeInv, RunsInOrder
    <3> QED
      BY <3>3
  <2> QED
    BY <2>1, <2>2, <2>3
<1>7. \A k \in DOMAIN found :
          \/ found[k] \in Latest
          \/ \A e \in collected : e.n < found[k].n
  <2>1. CASE source = "file"
    BY <2>1, FoundIs DEF OrderInv, LogInOrder
  <2>2. CASE source # "file"
    BY <2>2, FoundIs
  <2> QED
    BY <2>1, <2>2
<1>8. GoneIsOlder'
  <2> SUFFICES ASSUME NEW k \in DOMAIN found, NEW e \in collected',
                      e.check = found[k].check, Gone(e.n)
               PROVE  e.n <= found[k].n
    BY <1>3, <1>5 DEF GoneIsOlder
  <2>1. /\ e \in collected /\ e \in ran /\ e.n \in Nat
        /\ found[k] \in collected' /\ found[k].n \in Nat
    BY <1>1, <1>6
  <2> QED
    BY <1>7, <2>1, LatestIs
<1>9. GoneIsSeen'
  <2> SUFFICES ASSUME NEW e \in collected', e.time > 0, Gone(e.n),
                      e \in Latest \/ \E k \in DOMAIN found : e = found[k]
               PROVE  lastSeen[Key(e.check)] = e.time
    BY <1>2, <1>3, <1>5 DEF GoneIsSeen
  <2>1. e \in collected /\ e.n \in Nat
    BY <1>6
  <2>2. e \in Latest
    BY <1>7, <2>1
  <2> QED
    BY <2>1, <2>2 DEF OnceInv, GoneIsSeen
<1>10. GoneWasCollected'
  BY <1>1, <1>3 DEF OnceInv, GoneWasCollected
<1>11. BufferIsApart' /\ NotYetDelivered'
  BY <1>3, <1>4 DEF BufferIsApart, NotYetDelivered
<1>12. BufferedOnce'
  BY <1>2 DEF OnceInv, BufferedOnce
<1>13. NeverTwice'
  <2> SUFFICES ASSUME NEW e \in collected', e.time > 0 PROVE delivered[e.n] <= 1
    BY <1>2 DEF NeverTwice
  <2>1. delivered[e.n] \in 0..2
    BY <1>6, DeliveredType
  <2>2. CASE Gone(e.n)
    BY <1>6, <2>2 DEF OnceInv, NeverTwice
  <2>3. CASE ~Gone(e.n)
    BY <2>1, <2>3 DEF Gone
  <2> QED
    BY <2>2, <2>3
<1> QED
  BY <1>8, <1>9, <1>10, <1>11, <1>12, <1>13 DEF OnceInv

LEMMA OnceRecord ==
    ASSUME UniqueKeys, TypeInv, OrderInv, OnceInv, Record
    PROVE  OnceInv'
<1>1. /\ TypeOK /\ results # <<>> /\ pc = "loop" /\ data = {}
      /\ UNCHANGED <<ran, results, metricsBuffer, delivered, collected>>
      /\ ~(result.time > 0 /\ Seen(result))
      /\ lastSeen' = Remember(result)
  BY DEF Record, TypeInv, TypeOK, nagiosVars, histVars
<1>2. \A p \in data' : p.n = result.n
  BY <1>1, PointsAreOf DEF Record, RecordDataPoints
<1>3. /\ result \in collected /\ result \in Elements(results)
      /\ result.n \in Nat /\ result.time \in Nat /\ Key(result.check) \in Keys
  BY <1>1, Known, HeadAndTail DEF OrderInv
<1>4. /\ Latest' = Latest /\ Elements(results)' = Elements(results)
      /\ \A n : InBuffer(n)' = InBuffer(n)
      /\ \A n : ~InData(n)
      /\ \A n : InData(n)' => n = result.n
  BY <1>1, <1>2 DEF Latest, Elements, InBuffer, InData
<1>5. \A n : Gone(n)' => Gone(n) \/ n = result.n
  BY <1>1, <1>4 DEF Gone
<1>6. GoneWasCollected'
  BY <1>1, <1>3, <1>5 DEF OnceInv, GoneWasCollected
<1>7. BufferIsApart' /\ BufferedOnce' /\ NeverTwice'
  BY <1>1, <1>4 DEF OnceInv, BufferIsApart, BufferedOnce, NeverTwice
<1>8. GoneIsOlder'
  <2> SUFFICES ASSUME NEW r \in Elements(results), NEW e \in collected,
                      e.check = r.check, Gone(e.n)'
               PROVE  e.n <= r.n
    BY <1>1, <1>4 DEF GoneIsOlder
  <2>1. CASE Gone(e.n)
    BY <2>1 DEF OnceInv, GoneIsOlder
  <2>2. CASE e.n = result.n
    <3>1. e = result
      BY <1>3, <2>2, Known
    <3>2. r = result \/ result.n < r.n
      BY <1>1, <3>1, HeadAndTail DEF OrderInv
    <3>3. r.n \in Nat
      BY Known
    <3> QED
      BY <1>3, <3>1, <3>2, <3>3
  <2> QED
    BY <1>5, <2>1, <2>2
<1>9. GoneIsSeen'
  <2> SUFFICES ASSUME NEW e \in collected, e.time > 0, Gone(e.n)',
                      e \in Latest \/ e \in Elements(results)
               PROVE  lastSeen'[Key(e.check)] = e.time
    BY <1>1, <1>4 DEF GoneIsSeen
  <2>1. lastSeen \in [Keys -> 0..MaxTime] /\ Key(e.check) \in Keys
    BY <1>1, Types, Known
  <2>2. CASE e = result
    BY <1>1, <1>3, <2>1, <2>2 DEF Remember
  <2>3. CASE e # result
    <3>1. Gone(e.n)
      BY <1>3, <1>5, <2>3, Known
    <3>2. Key(e.check) # Key(result.check)
      <4> SUFFICES ASSUME Key(e.check) = Key(result.check) PROVE FALSE
        OBVIOUS
      <4>1. e.check = result.check
        BY <1>3, Known DEF UniqueKeys
      <4>2. e.n <= result.n /\ e.n \in Nat
        BY <1>3, <3>1, <4>1, Known DEF OnceInv, GoneIsOlder
      <4>3. CASE e \in Latest
        <5>1. result.n <= e.n
          BY <1>3, <4>1, <4>3, LatestIs, Known
        <5>2. e.n = result.n
          BY <1>3, <4>2, <5>1
        <5> QED
          BY <1>3, <2>3, <5>2, Known
      <4>4. CASE e \in Elements(results)
        <5>1. result.n < e.n
          BY <1>1, <2>3, <4>1, <4>4, HeadAndTail DEF OrderInv
        <5> QED
          BY <1>3, <4>2, <5>1
      <4> QED
        BY <4>3, <4>4
    <3>3. lastSeen'[Key(e.check)] = lastSeen[Key(e.check)]
      BY <1>1, <2>1, <3>2 DEF Remember
    <3> QED
      BY <3>1, <3>3 DEF OnceInv, GoneIsSeen
  <2> QED
    BY <2>2, <2>3
<1>10. NotYetDelivered'
  <2> SUFFICES ASSUME NEW e \in collected, e.time > 0, InBuffer(e.n) \/ e.n = result.n
               PROVE  delivered[e.n] = 0
    BY <1>1, <1>4 DEF NotYetDelivered
  <2>1. CASE InBuffer(e.n)
    BY <2>1 DEF OnceInv, NotYetDelivered
  <2>2. CASE e.n = result.n
    <3>1. e = result
      BY <1>3, <2>2, Known
    <3>2. ~Gone(result.n)
      BY <1>1, <1>3, <3>1 DEF OnceInv, GoneIsSeen, Seen
    <3>3. delivered[result.n] \in 0..2
      BY <1>3, Known, DeliveredType
    <3> QED
      BY <3>1, <3>2, <3>3 DEF Gone
  <2> QED
    BY <2>1, <2>2
<1> QED
  BY <1>6, <1>7, <1>8, <1>9, <1>10 DEF OnceInv

\* What a resource that is emitted adds to the buffer is of the head result.
LEMMA EmitAdds ==
    ASSUME TypeInv, EmitCheck
    PROVE  /\ data' = {}
           /\ \A p \in data : p.n = result.n
           /\ \/ metricsBuffer' = metricsBuffer
              \/ /\ DOMAIN metricsBuffer' = 1..(Len(metricsBuffer) + 1)
                 /\ Len(metricsBuffer) \in Nat
                 /\ DOMAIN metricsBuffer = 1..Len(metricsBuffer)
                 /\ \A k \in DOMAIN metricsBuffer : metricsBuffer'[k] = metricsBuffer[k]
                 /\ metricsBuffer'[Len(metricsBuffer) + 1].points = data
           /\ Reportable(result) => \A n : n = result.n => InBuffer(n)'
<1>1. data' = {} /\ data = {p \in Points(result) : p.metric \in cfg.metrics}
  BY DEF EmitCheck, EmitForResource, PointsLeft, TypeInv, BuilderInv
<1>2. \A p \in data : p.n = result.n
  BY <1>1, PointsAreOf
<1>3. PICK m : /\ metricsBuffer' = metricsBuffer \/ metricsBuffer' = Append(metricsBuffer, m)
               /\ m.points = data
               /\ Reportable(result) => metricsBuffer' = Append(metricsBuffer, m)
  BY EmitIs
<1>4. CASE metricsBuffer' = Append(metricsBuffer, m)
  <2>1. /\ DOMAIN metricsBuffer' = 1..(Len(metricsBuffer) + 1)
        /\ Len(metricsBuffer) \in Nat /\ DOMAIN metricsBuffer = 1..Len(metricsBuffer)
        /\ \A k \in DOMAIN metricsBuffer : metricsBuffer'[k] = metricsBuffer[k]
        /\ metricsBuffer'[Len(metricsBuffer) + 1] = m
    <3>1. PICK b : b = Append(metricsBuffer, m)
      OBVIOUS
    <3>2. metricsBuffer' = b
      BY <1>4, <3>1
    <3>3. BuilderInv
      BY DEF TypeInv
    <3>4. /\ DOMAIN b = 1..(Len(metricsBuffer) + 1)
          /\ Len(metricsBuffer) \in Nat /\ DOMAIN metricsBuffer = 1..Len(metricsBuffer)
          /\ \A k \in DOMAIN metricsBuffer : b[k] = metricsBuffer[k]
          /\ b[Len(metricsBuffer) + 1] = m
      BY <3>1, <3>3, AppendIs
    <3> QED
      BY <3>2, <3>4
  <2>2. Reportable(result) => \A n : n = result.n => InBuffer(n)'
    <3> SUFFICES ASSUME Reportable(result), NEW n, n = result.n PROVE InBuffer(n)'
      OBVIOUS
    <3>1. PICK p \in Points(result) : p.metric \in cfg.metrics
      BY DEF Reportable
    <3>2. p \in data /\ p.n = n
      BY <1>1, <1>2, <3>1
    <3> QED
      BY <1>3, <2>1, <3>2 DEF InBuffer
  <2> QED
    BY <1>1, <1>2, <1>3, <2>1, <2>2
<1>5. CASE metricsBuffer' # Append(metricsBuffer, m)
  BY <1>1, <1>2, <1>3, <1>5
<1> QED
  BY <1>4, <1>5

LEMMA OnceEmitCheck ==
    ASSUME TypeInv, OrderInv, OnceInv, EmitCheck
    PROVE  OnceInv'
<1>1. /\ TypeOK /\ results # <<>> /\ results' = Tail(results)
      /\ UNCHANGED <<ran, lastSeen, delivered, collected>>
  BY DEF EmitCheck, TypeInv, TypeOK, nagiosVars, histVars
<1>2. /\ result \in Elements(results)
      /\ Elements(results)' \subseteq Elements(results)
      /\ \A e \in Elements(results)' : e # result
  <2>1. Elements(results)' = Elements(Tail(results))
    BY <1>1 DEF Elements
  <2> QED
    BY <1>1, <2>1, HeadAndTail DEF OrderInv
<1>3. \A n : /\ ~InData(n)'
             /\ InBuffer(n)' => InBuffer(n) \/ InData(n)
             /\ InData(n) => n = result.n
  BY EmitAdds DEF InBuffer, InData
<1>4. /\ \A n : Gone(n)' => Gone(n)
      /\ Latest' = Latest
  BY <1>1, <1>3 DEF Gone, Latest
<1>5. GoneWasCollected' /\ NeverTwice'
  BY <1>1, <1>4 DEF OnceInv, GoneWasCollected, NeverTwice
<1>6. GoneIsOlder' /\ GoneIsSeen'
  BY <1>1, <1>2, <1>4 DEF OnceInv, GoneIsOlder, GoneIsSeen
<1>7. NotYetDelivered'
  BY <1>1, <1>3 DEF OnceInv, NotYetDelivered
<1>8. BufferIsApart'
  <2> SUFFICES ASSUME NEW r \in Elements(results)' PROVE ~InBuffer(r.n)'
    BY DEF BufferIsApart
  <2>1. r \in Elements(results) /\ r # result
    BY <1>2
  <2>2. r.n # result.n
    BY <1>2, <2>1, Known
  <2>3. ~InBuffer(r.n)
    BY <2>1 DEF OnceInv, BufferIsApart
  <2>4. PICK n : n = r.n
    OBVIOUS
  <2>5. ~InBuffer(n)'
    BY <1>3, <2>2, <2>3, <2>4
  <2> QED
    BY <2>4, <2>5
<1>9. BufferedOnce'
  <2>1. CASE metricsBuffer' = metricsBuffer
    BY <2>1 DEF OnceInv, BufferedOnce
  <2>2. CASE metricsBuffer' # metricsBuffer
    <3>1. \A k \in DOMAIN metricsBuffer : \A p \in metricsBuffer[k].points : p.n # result.n
      BY <1>2 DEF OnceInv, BufferIsApart, InBuffer
    <3>2. /\ DOMAIN metricsBuffer' = 1..(Len(metricsBuffer) + 1)
          /\ Len(metricsBuffer) \in Nat /\ DOMAIN metricsBuffer = 1..Len(metricsBuffer)
          /\ \A k \in DOMAIN metricsBuffer : metricsBuffer'[k] = metricsBuffer[k]
          /\ metricsBuffer'[Len(metricsBuffer) + 1].points = data
          /\ \A p \in data : p.n = result.n
      BY <2>2, EmitAdds
    <3> SUFFICES ASSUME NEW j \in DOMAIN metricsBuffer', NEW k \in DOMAIN metricsBuffer',
                        NEW p \in metricsBuffer'[j].points,
                        NEW q \in metricsBuffer'[k].points, p.n = q.n
                 PROVE  j = k
      BY DEF BufferedOnce
    <3>3. CASE j \in DOMAIN metricsBuffer /\ k \in DOMAIN metricsBuffer
      BY <3>2, <3>3 DEF OnceInv, BufferedOnce
    <3>4. CASE j \notin DOMAIN metricsBuffer /\ k \notin DOMAIN metricsBuffer
      BY <3>2, <3>4
    <3>5. CASE j \in DOMAIN metricsBuffer /\ k \notin DOMAIN metricsBuffer
      <4>1. p.n # result.n
        BY <3>1, <3>2, <3>5
      <4>2. q.n = result.n
        BY <3>2, <3>5
      <4> QED
        BY <4>1, <4>2
    <3>6. CASE j \notin DOMAIN metricsBuffer /\ k \in DOMAIN metricsBuffer
      <4>1. q.n # result.n
        BY <3>1, <3>2, <3>6
      <4>2. p.n = result.n
        BY <3>2, <3>6
      <4> QED
        BY <4>1, <4>2
    <3> QED
      BY <3>3, <3>4, <3>5, <3>6
  <2> QED
    BY <2>1, <2>2
<1> QED
  BY <1>5, <1>6, <1>7, <1>8, <1>9 DEF OnceInv

\* One resource at most is passed on for an execution, and one only if there is one.
LEMMA TimesIs ==
    ASSUME TypeInv, BufferedOnce, data = {}, NEW n
    PROVE  Times(n) \in 0..1 /\ (Times(n) = 1 <=> InBuffer(n))
<1>1. BuilderInv
  BY DEF TypeInv
<1>2. Emitted = metricsBuffer /\ (Times(n) = 0 <=> ~InBuffer(n))
  BY <1>1, EmittedIs DEF InBuffer
<1>3. CASE InBuffer(n)
  <2> DEFINE S == {k \in DOMAIN metricsBuffer : \E p \in metricsBuffer[k].points : p.n = n}
  <2>1. PICK k \in DOMAIN metricsBuffer : \E p \in metricsBuffer[k].points : p.n = n
    BY <1>3 DEF InBuffer
  <2>2. S = {k}
    BY <2>1 DEF BufferedOnce
  <2>3. Times(n) = 1
    BY <1>2, <2>2, FS_Singleton DEF Times
  <2> QED
    BY <1>3, <2>3
<1>4. CASE ~InBuffer(n)
  BY <1>2, <1>4
<1> QED
  BY <1>3, <1>4

\* What the controller makes of a scrape.
LEMMA ReturnIs ==
    ASSUME TypeInv, BufferedOnce, Return, NEW n \in 1..MaxExec
    PROVE  /\ delivered'[n] = delivered[n] \/ InBuffer(n)
           /\ delivered[n] = 0 => delivered'[n] <= 1
           /\ delivered[n] >= 1 => delivered'[n] >= 1
           /\ InBuffer(n) => delivered'[n] >= 1 \/ n \in discarded'
           /\ discarded \subseteq discarded'
<1>1. data = {} /\ delivered[n] \in 0..2
  BY DeliveredType DEF Return, TypeInv, TypeOK
<1>2. Times(n) \in 0..1 /\ (Times(n) = 1 <=> InBuffer(n))
  BY <1>1, TimesIs
<1>3. CASE errs
  BY <1>1, <1>2, <1>3 DEF Return
<1>4. CASE ~errs
  <2>1. delivered' = [m \in 1..MaxExec |-> AtMost2(delivered[m] + Times(m))]
        /\ discarded' = discarded
    BY <1>4 DEF Return
  <2>2. delivered'[n] = AtMost2(delivered[n] + Times(n))
    BY <2>1
  <2> QED
    BY <1>1, <1>2, <2>1, <2>2 DEF AtMost2
<1> QED
  BY <1>3, <1>4

LEMMA OnceReturn ==
    ASSUME TypeInv, OnceInv, Return
    PROVE  OnceInv'
<1>1. /\ results = <<>> /\ results' = results /\ data' = {} /\ metricsBuffer' = <<>>
      /\ UNCHANGED <<ran, lastSeen, collected>>
  BY DEF Return, Emit, PointsLeft, nagiosVars
<1>2. DOMAIN <<>> = {}
  OBVIOUS
<1>3. \A n : ~InBuffer(n)' /\ ~InData(n)'
  BY <1>1, <1>2 DEF InBuffer, InData
<1>4. Elements(results)' = {} /\ Latest' = Latest /\ BufferedOnce
  BY <1>1, <1>2 DEF Elements, Latest, OnceInv
<1>5. \A n \in 1..MaxExec : Gone(n)' => Gone(n)
  BY <1>3, <1>4, ReturnIs DEF Gone
<1>6. GoneWasCollected'
  BY <1>1, <1>5 DEF OnceInv, GoneWasCollected
<1>7. BufferIsApart' /\ BufferedOnce' /\ GoneIsOlder' /\ NotYetDelivered'
  BY <1>1, <1>2, <1>3, <1>4 DEF BufferIsApart, BufferedOnce, GoneIsOlder, NotYetDelivered
<1>8. GoneIsSeen'
  BY <1>1, <1>4, <1>5, Known DEF OnceInv, GoneIsSeen
<1>9. NeverTwice'
  <2> SUFFICES ASSUME NEW e \in collected, e.time > 0 PROVE delivered'[e.n] <= 1
    BY <1>1 DEF NeverTwice
  <2>1. e.n \in 1..MaxExec
    BY Known
  <2>2. CASE InBuffer(e.n)
    <3>1. delivered[e.n] = 0
      BY <2>2 DEF OnceInv, NotYetDelivered
    <3> QED
      BY <1>4, <2>1, <3>1, ReturnIs
  <2>3. CASE ~InBuffer(e.n)
    <3>1. delivered'[e.n] = delivered[e.n]
      BY <1>4, <2>1, <2>3, ReturnIs
    <3> QED
      BY <3>1 DEF OnceInv, NeverTwice
  <2> QED
    BY <2>2, <2>3
<1> QED
  BY <1>6, <1>7, <1>8, <1>9 DEF OnceInv

LEMMA NothingGone ==
    ASSUME data = {}, metricsBuffer = <<>>, delivered = NoneDelivered, collected = {},
           results = <<>>
    PROVE  OnceInv
<1>1. DOMAIN <<>> = {}
  OBVIOUS
<1>2. \A n \in 1..MaxExec : ~Gone(n)
  BY <1>1 DEF Gone, InBuffer, InData, NoneDelivered
<1> QED
  BY <1>1, <1>2 DEF OnceInv, GoneWasCollected, BufferIsApart, BufferedOnce, GoneIsOlder,
                    GoneIsSeen, NotYetDelivered, NeverTwice, Elements

LEMMA OnceNext ==
    ASSUME UniqueKeys, TypeInv, TypeInv', OrderInv, OnceInv, [Next]_vars
    PROVE  OnceInv'
<1>1. CASE CollectFails
  <2>1. UNCHANGED <<ran, results, lastSeen, data, metricsBuffer, delivered, collected>>
    BY <1>1 DEF CollectFails, builderVars, histVars
  <2>2. Elements(results)' = Elements(results) /\ Latest' = Latest
    BY <2>1 DEF Elements, Latest
  <2> QED
    BY <2>1, <2>2, OnceSame
<1>2. CASE Restart
  <2>1. (/\ data = {} /\ metricsBuffer = <<>> /\ delivered = NoneDelivered /\ collected = {}
         /\ results = <<>>)'
    BY <1>2 DEF Restart, TypeInv, OnlyRan, NoneDelivered
  <2> QED
    BY <2>1, NothingGone, PTL
<1>3. CASE UNCHANGED vars
  <2>1. UNCHANGED <<ran, results, lastSeen, data, metricsBuffer, delivered, collected>>
    BY <1>3 DEF vars, builderVars
  <2>2. Elements(results)' = Elements(results) /\ Latest' = Latest
    BY <2>1 DEF Elements, Latest
  <2> QED
    BY <2>1, <2>2, OnceSame
<1> QED
  BY <1>1, <1>2, <1>3, OnceRunCheck, OnceCollect, OnceSkip, OnceRecord, OnceEmitCheck,
     OnceReturn DEF Next, Scrape

\* Where no two checks share a key of lastSeen, an execution that provides a
\* last_check is passed on once at most: from every source, however Nagios' clock
\* is set, whatever fails and whatever the controller discards.
THEOREM EmittedOnce ==
    ASSUME UniqueKeys
    PROVE  Spec => []NeverTwice
<1>1. Init => TypeInv /\ OrderInv /\ OnceInv
  BY TypeInit, OrderInit, NothingGone DEF Init, NewMetricsBuilder
<1>2. TypeInv /\ OrderInv /\ OnceInv /\ [Next]_vars => (TypeInv /\ OrderInv /\ OnceInv)'
  BY TypeNext, OrderNext, OnceNext
<1>3. OnceInv => NeverTwice
  BY DEF OnceInv
<1> QED
  BY <1>1, <1>2, <1>3, PTL DEF Spec
-----------------------------------------------------------------------------
(***************************************************************************)
(* No measurement is left out.                                             *)
(***************************************************************************)
\* An execution has been passed on or discarded, or is buffered: if it is to be.
Settled(n) == delivered[n] >= 1 \/ n \in discarded \/ InBuffer(n)
Reported(f) == Reportable(f) => Settled(f.n)

\* Every result is queued still, or its measurement is reported.
Accounted ==
    \A e \in collected :
        e \in Elements(results) \/ \E f \in collected : SameMeasurement(e, f) /\ Reported(f)

\* What lastSeen holds is a measurement of the check that is reported, or is about
\* to be: what scrape skips for it is not lost.
SeenIsReported ==
    \A k \in Keys : lastSeen[k] # 0 =>
        \E f \in collected :
            /\ Key(f.check) = k /\ f.time = lastSeen[k]
            /\ Reported(f) \/ (pc = "emit" /\ f = result)

ReportInv == Accounted /\ SeenIsReported

LEMMA ReportableSame ==
    ASSUME UNCHANGED <<cfg, source>>, NEW e
    PROVE  Reportable(e)' = Reportable(e)
BY DEF Reportable, Filtered, BuildResource, ResourceAttributes, CheckCommand, Points,
       StatePoint, CheckPoint, PerfdataPoint, State, Stamp, Now

LEMMA ReportedStays ==
    ASSUME TypeInv, UNCHANGED <<cfg, source>>, NEW f \in collected, Reported(f),
           \A n \in 1..MaxExec : Settled(n) => Settled(n)'
    PROVE  Reported(f)'
<1>1. f.n \in 1..MaxExec
  BY Known
<1>2. Reportable(f)' = Reportable(f)
  BY ReportableSame
<1> QED
  BY <1>1, <1>2 DEF Reported

\* A step that records and emits nothing, after which all that was settled still is.
LEMMA ReportKept ==
    ASSUME TypeInv, ReportInv, UNCHANGED <<cfg, source, lastSeen>>,
           pc # "emit" \/ UNCHANGED <<pc, results>>,
           collected \subseteq collected',
           \A e \in collected' : e \in collected \/ e \in Elements(results)',
           Elements(results) \subseteq Elements(results)',
           \A n \in 1..MaxExec : Settled(n) => Settled(n)'
    PROVE  ReportInv'
<1>1. \A f \in collected : Reported(f) => Reported(f)'
  BY ReportedStays
<1>2. Accounted'
  <2> SUFFICES ASSUME NEW e \in collected', ~(e \in Elements(results)')
               PROVE  \E f \in collected' : SameMeasurement(e, f) /\ Reported(f)'
    BY DEF Accounted, SameMeasurement
  <2>1. PICK f \in collected : SameMeasurement(e, f) /\ Reported(f)
    BY DEF ReportInv, Accounted
  <2> QED
    BY <1>1, <2>1
<1>3. SeenIsReported'
  <2> SUFFICES ASSUME NEW k \in Keys, lastSeen[k] # 0
               PROVE  \E f \in collected' :
                         /\ Key(f.check) = k /\ f.time = lastSeen[k]
                         /\ Reported(f)' \/ (pc' = "emit" /\ f = result')
    BY DEF SeenIsReported
  <2>1. PICK f \in collected :
           /\ Key(f.check) = k /\ f.time = lastSeen[k]
           /\ Reported(f) \/ (pc = "emit" /\ f = result)
    BY DEF ReportInv, SeenIsReported
  <2>2. pc = "emit" => pc' = "emit" /\ result' = result
    BY DEF result
  <2> QED
    BY <1>1, <2>1, <2>2
<1> QED
  BY <1>2, <1>3 DEF ReportInv

LEMMA ReportSame ==
    ASSUME TypeInv, ReportInv, UNCHANGED <<cfg, source, lastSeen, pc, results, collected,
                                           delivered, discarded, metricsBuffer>>
    PROVE  ReportInv'
<1>1. \A n : Settled(n)' = Settled(n)
  BY DEF Settled, InBuffer
<1>2. Elements(results)' = Elements(results)
  BY DEF Elements
<1> QED
  BY <1>1, <1>2, ReportKept

LEMMA ReportCollect ==
    ASSUME TypeInv, ReportInv, Collect
    PROVE  ReportInv'
<1>1. PICK found \in Found :
          results' = found /\ collected' = collected \cup {found[k] : k \in DOMAIN found}
  BY DEF Collect
<1>2. /\ pc = "idle" /\ results = <<>>
      /\ UNCHANGED <<cfg, source, lastSeen, delivered, discarded, metricsBuffer>>
  BY DEF Collect, builderVars, TypeInv, OnlyRan
<1>3. \A n : Settled(n)' = Settled(n)
  BY <1>2 DEF Settled, InBuffer
<1>4. DOMAIN <<>> = {}
  OBVIOUS
<1>5. Elements(results) = {} /\ collected' = collected \cup Elements(results)'
  BY <1>1, <1>2, <1>4 DEF Elements
<1> QED
  BY <1>2, <1>3, <1>5, ReportKept

LEMMA ReportSkip ==
    ASSUME UniqueKeys, TypeInv, OrderInv, ReportInv, Skip
    PROVE  ReportInv'
<1>1. /\ TypeOK /\ results # <<>> /\ results' = Tail(results) /\ pc = "loop"
      /\ UNCHANGED <<cfg, source, pc, lastSeen, collected, delivered, discarded, metricsBuffer>>
      /\ result.time > 0 /\ lastSeen[Key(result.check)] = result.time
  BY DEF Skip, Seen, TypeInv, builderVars
<1>2. \A n : Settled(n)' = Settled(n)
  BY <1>1 DEF Settled, InBuffer
<1>3. \A f \in collected : Reported(f) => Reported(f)'
  BY <1>1, <1>2, ReportedStays
<1>4. result \in collected /\ result.check \in Checks /\ Key(result.check) \in Keys
  BY <1>1, Known, HeadAndTail DEF OrderInv
<1>5. PICK g \in collected : /\ Key(g.check) = Key(result.check) /\ g.time = result.time
                             /\ Reported(g)
  BY <1>1, <1>4 DEF ReportInv, SeenIsReported
<1>6. SameMeasurement(result, g)
  BY <1>1, <1>4, <1>5, Known DEF UniqueKeys, SameMeasurement
<1>7. Accounted'
  <2> SUFFICES ASSUME NEW e \in collected, ~(e \in Elements(results)')
               PROVE  \E f \in collected : SameMeasurement(e, f) /\ Reported(f)'
    BY <1>1 DEF Accounted, SameMeasurement
  <2>1. Elements(results)' = Elements(Tail(results))
    BY <1>1 DEF Elements
  <2>2. CASE e = result
    BY <1>3, <1>5, <1>6, <2>2
  <2>3. CASE e # result
    <3>1. e \notin Elements(results)
      BY <1>1, <2>1, <2>3, HeadAndTail DEF OrderInv
    <3> QED
      BY <1>3, <3>1 DEF ReportInv, Accounted
  <2> QED
    BY <2>2, <2>3
<1>8. SeenIsReported'
  BY <1>1, <1>3 DEF ReportInv, SeenIsReported
<1> QED
  BY <1>7, <1>8 DEF ReportInv

LEMMA ReportRecord ==
    ASSUME TypeInv, OrderInv, ReportInv, Record
    PROVE  ReportInv'
<1>1. /\ TypeOK /\ results # <<>> /\ pc = "loop" /\ pc' = "emit"
      /\ UNCHANGED <<cfg, source, results, collected, delivered, discarded, metricsBuffer>>
      /\ lastSeen' = Remember(result)
  BY DEF Record, TypeInv, nagiosVars, histVars
<1>2. \A n : Settled(n)' = Settled(n)
  BY <1>1 DEF Settled, InBuffer
<1>3. \A f \in collected : Reported(f) => Reported(f)'
  BY <1>1, <1>2, ReportedStays
<1>4. /\ result \in collected /\ Key(result.check) \in Keys /\ result.time \in Nat
      /\ lastSeen \in [Keys -> 0..MaxTime] /\ result' = result
  BY <1>1, Known, HeadAndTail, Types DEF OrderInv, result
<1>5. Accounted'
  <2>1. Elements(results)' = Elements(results)
    BY <1>1 DEF Elements
  <2> QED
    BY <1>1, <1>3, <2>1 DEF ReportInv, Accounted, SameMeasurement
<1>6. SeenIsReported'
  <2> SUFFICES ASSUME NEW k \in Keys, lastSeen'[k] # 0
               PROVE  \E f \in collected :
                         /\ Key(f.check) = k /\ f.time = lastSeen'[k]
                         /\ Reported(f)' \/ f = result
    BY <1>1, <1>4 DEF SeenIsReported
  <2>1. CASE lastSeen'[k] = lastSeen[k]
    BY <1>1, <1>3, <2>1 DEF ReportInv, SeenIsReported
  <2>2. CASE lastSeen'[k] # lastSeen[k]
    <3>1. k = Key(result.check) /\ lastSeen'[k] = result.time
      BY <1>1, <1>4, <2>2 DEF Remember
    <3> QED
      BY <1>4, <3>1
  <2> QED
    BY <2>1, <2>2
<1> QED
  BY <1>5, <1>6 DEF ReportInv

LEMMA ReportEmitCheck ==
    ASSUME TypeInv, OrderInv, ReportInv, EmitCheck
    PROVE  ReportInv'
<1>1. /\ TypeOK /\ results # <<>> /\ results' = Tail(results) /\ pc' = "loop"
      /\ UNCHANGED <<cfg, source, lastSeen, collected, delivered, discarded>>
  BY DEF EmitCheck, TypeInv, TypeOK, nagiosVars, histVars
<1>2. \A n : InBuffer(n) => InBuffer(n)'
  BY EmitAdds DEF InBuffer
<1>3. \A n : Settled(n) => Settled(n)'
  BY <1>1, <1>2 DEF Settled
<1>4. \A f \in collected : Reported(f) => Reported(f)'
  BY <1>1, <1>3, ReportedStays
<1>5. PICK r : r = result
  OBVIOUS
<1>6. r \in collected
  BY <1>1, <1>5, Known, HeadAndTail DEF OrderInv
<1>7. Reported(r)'
  <2>1. Reportable(r) => InBuffer(r.n)'
    <3>1. PICK n : n = r.n
      OBVIOUS
    <3>2. Reportable(r) => InBuffer(n)'
      BY <1>5, <3>1, EmitAdds
    <3> QED
      BY <3>1, <3>2
  <2>2. Reportable(r)' = Reportable(r)
    BY <1>1, ReportableSame
  <2> QED
    BY <2>1, <2>2 DEF Reported, Settled
<1>8. Accounted'
  <2> SUFFICES ASSUME NEW e \in collected, ~(e \in Elements(results)')
               PROVE  \E f \in collected : SameMeasurement(e, f) /\ Reported(f)'
    BY <1>1 DEF Accounted, SameMeasurement
  <2>1. Elements(results)' = Elements(Tail(results))
    BY <1>1 DEF Elements
  <2>2. CASE e = r
    BY <1>6, <1>7, <2>2 DEF SameMeasurement
  <2>3. CASE e # r
    <3>1. e \notin Elements(results)
      BY <1>1, <1>5, <2>1, <2>3, HeadAndTail DEF OrderInv
    <3> QED
      BY <1>4, <3>1 DEF ReportInv, Accounted
  <2> QED
    BY <2>2, <2>3
<1>9. SeenIsReported'
  <2> SUFFICES ASSUME NEW k \in Keys, lastSeen[k] # 0
               PROVE  \E f \in collected :
                         Key(f.check) = k /\ f.time = lastSeen[k] /\ Reported(f)'
    BY <1>1 DEF SeenIsReported
  <2> QED
    BY <1>4, <1>5, <1>7 DEF ReportInv, SeenIsReported
<1> QED
  BY <1>8, <1>9 DEF ReportInv

LEMMA ReportReturn ==
    ASSUME TypeInv, OnceInv, ReportInv, Return
    PROVE  ReportInv'
<1>1. /\ pc = "loop" /\ results' = results
      /\ UNCHANGED <<cfg, source, lastSeen, collected>>
  BY DEF Return, nagiosVars
<1>2. \A n \in 1..MaxExec : Settled(n) => Settled(n)'
  BY ReturnIs DEF OnceInv, Settled
<1>3. Elements(results)' = Elements(results)
  BY <1>1 DEF Elements
<1> QED
  BY <1>1, <1>2, <1>3, ReportKept

LEMMA NothingReported ==
    ASSUME collected = {}, lastSeen = NoneSeen
    PROVE  ReportInv
BY DEF ReportInv, Accounted, SeenIsReported, NoneSeen

LEMMA ReportNext ==
    ASSUME UniqueKeys, TypeInv, OrderInv, OnceInv, ReportInv, [Next]_vars
    PROVE  ReportInv'
<1>1. ASSUME NEW c \in Checks, RunCheck(c)
      PROVE  ReportInv'
  BY <1>1, ReportSame DEF RunCheck, builderVars, histVars
<1>2. CASE CollectFails
  BY <1>2, ReportSame DEF CollectFails, builderVars, histVars
<1>3. CASE Restart
  <2>1. (collected = {} /\ lastSeen = NoneSeen)'
    BY <1>3 DEF Restart, NoneSeen
  <2> QED
    BY <2>1, NothingReported, PTL
<1>4. CASE UNCHANGED vars
  BY <1>4, ReportSame DEF vars, builderVars
<1> QED
  BY <1>1, <1>2, <1>3, <1>4, ReportCollect, ReportSkip, ReportRecord, ReportEmitCheck,
     ReportReturn DEF Next, Scrape

LEMMA ReportedAtRest == TypeInv /\ ReportInv => AllReported
<1> SUFFICES ASSUME TypeInv, ReportInv, pc = "idle", NEW e \in collected
             PROVE  \E f \in collected :
                       /\ SameMeasurement(e, f)
                       /\ Reportable(f) => delivered[f.n] >= 1 \/ f.n \in discarded
  BY DEF AllReported
<1>1. results = <<>> /\ metricsBuffer = <<>> /\ DOMAIN <<>> = {}
  BY DEF TypeInv, TypeOK, OnlyRan
<1>2. Elements(results) = {} /\ \A n : ~InBuffer(n)
  BY <1>1 DEF Elements, InBuffer
<1> QED
  BY <1>2 DEF ReportInv, Accounted, Reported, Settled

\* Where no two checks share a key of lastSeen, skipping loses nothing: between two
\* scrapes every measurement that collect returned and the configuration reports has
\* been passed on, or was in a scrape the controller discarded.
THEOREM NothingSkippedIsLost ==
    ASSUME UniqueKeys
    PROVE  Spec => []AllReported
<1>1. Init => TypeInv /\ OrderInv /\ OnceInv /\ ReportInv
  BY TypeInit, OrderInit, NothingGone, NothingReported DEF Init, NewMetricsBuilder
<1>2. TypeInv /\ OrderInv /\ OnceInv /\ ReportInv /\ [Next]_vars =>
         (TypeInv /\ OrderInv /\ OnceInv /\ ReportInv)'
  BY TypeNext, OrderNext, OnceNext, ReportNext
<1>3. TypeInv /\ ReportInv => AllReported
  BY ReportedAtRest
<1> QED
  BY <1>1, <1>2, <1>3, PTL DEF Spec
-----------------------------------------------------------------------------
(***************************************************************************)
(* One resource is one execution.                                          *)
(***************************************************************************)
\* What a plugin may give: an exit code, and no perfdata that poses as a state.
KnownOutcomes ==
    \A o \in Outcomes :
        o.state \in 0..3 /\ \A pm \in o.perf : "nagios.check.state" \notin pm.bounds

IsOf(m, e) ==
    /\ m.resource = BuildResource(ResourceAttributes(e))
    /\ m.points = {p \in Points(e) : p.metric \in cfg.metrics}

WholeInv ==
    \A k \in DOMAIN metricsBuffer : \E e \in collected : IsOf(metricsBuffer[k], e)

LEMMA IsOfSame ==
    ASSUME UNCHANGED <<cfg, source>>, NEW m, NEW e
    PROVE  IsOf(m, e)' = IsOf(m, e)
BY DEF IsOf, BuildResource, ResourceAttributes, CheckCommand, Points, StatePoint, CheckPoint,
       PerfdataPoint, State, Stamp, Now

LEMMA WholeSame ==
    ASSUME WholeInv, UNCHANGED <<cfg, source, metricsBuffer>>, collected \subseteq collected'
    PROVE  WholeInv'
<1> SUFFICES ASSUME NEW k \in DOMAIN metricsBuffer
             PROVE  \E e \in collected' : IsOf(metricsBuffer[k], e)'
  BY DEF WholeInv, IsOf
<1>1. PICK m : m = metricsBuffer[k]
  OBVIOUS
<1>2. PICK e \in collected : IsOf(m, e)
  BY <1>1 DEF WholeInv
<1>3. IsOf(m, e)'
  BY <1>2, IsOfSame
<1> QED
  BY <1>1, <1>2, <1>3 DEF IsOf

LEMMA WholeEmitCheck ==
    ASSUME TypeInv, OrderInv, WholeInv, EmitCheck
    PROVE  WholeInv'
<1>1. /\ TypeOK /\ results # <<>>
      /\ UNCHANGED <<cfg, source, collected>>
      /\ metricsBuffer' = Buffered(BuildResource(ResourceAttributes(result)))
      /\ data = {p \in Points(result) : p.metric \in cfg.metrics}
  BY DEF EmitCheck, EmitForResource, TypeInv, TypeOK, BuilderInv, histVars
<1>2. PICK r : r = result
  OBVIOUS
<1>3. r \in collected
  BY <1>1, <1>2, Known, HeadAndTail DEF OrderInv
<1>4. PICK m : m = [resource |-> BuildResource(ResourceAttributes(r)), points |-> data]
  OBVIOUS
<1>5. IsOf(m, r)
  BY <1>1, <1>2, <1>4 DEF IsOf
<1>6. metricsBuffer' \in {metricsBuffer, Append(metricsBuffer, m)}
  BY <1>1, <1>2, <1>4 DEF Buffered
<1>7. CASE metricsBuffer' = metricsBuffer
  BY <1>1, <1>7, WholeSame
<1>8. CASE metricsBuffer' = Append(metricsBuffer, m)
  <2>1. PICK b : b = Append(metricsBuffer, m)
    OBVIOUS
  <2>2. /\ DOMAIN b = 1..(Len(metricsBuffer) + 1)
        /\ Len(metricsBuffer) \in Nat /\ DOMAIN metricsBuffer = 1..Len(metricsBuffer)
        /\ \A k \in DOMAIN metricsBuffer : b[k] = metricsBuffer[k]
        /\ b[Len(metricsBuffer) + 1] = m
    BY <2>1, AppendIs DEF TypeInv
  <2>3. \A k \in DOMAIN b : \E e \in collected : IsOf(b[k], e)
    <3> SUFFICES ASSUME NEW k \in DOMAIN b PROVE \E e \in collected : IsOf(b[k], e)
      OBVIOUS
    <3>1. CASE k \in DOMAIN metricsBuffer
      BY <2>2, <3>1 DEF WholeInv
    <3>2. CASE k \notin DOMAIN metricsBuffer
      BY <1>3, <1>5, <2>2, <3>2
    <3> QED
      BY <3>1, <3>2
  <2>4. \A k \in DOMAIN b : \E e \in collected : IsOf(b[k], e)'
    <3> SUFFICES ASSUME NEW k \in DOMAIN b PROVE \E e \in collected : IsOf(b[k], e)'
      OBVIOUS
    <3>1. PICK e \in collected : IsOf(b[k], e)
      BY <2>3
    <3> QED
      BY <1>1, <3>1, IsOfSame
  <2> QED
    BY <1>1, <1>8, <2>1, <2>4 DEF WholeInv, IsOf
<1> QED
  BY <1>6, <1>7, <1>8

LEMMA WholeNext ==
    ASSUME TypeInv, OrderInv, WholeInv, [Next]_vars
    PROVE  WholeInv'
<1>1. ASSUME metricsBuffer' = <<>>
      PROVE  WholeInv'
  <2>1. DOMAIN <<>> = {}
    OBVIOUS
  <2> QED
    BY <1>1, <2>1 DEF WholeInv
<1>2. CASE Return \/ Restart
  BY <1>1, <1>2 DEF Return, Emit, Restart
<1>3. CASE Collect
  <2>1. collected \subseteq collected' /\ UNCHANGED <<cfg, source, metricsBuffer>>
    BY <1>3 DEF Collect, builderVars
  <2> QED
    BY <2>1, WholeSame
<1>4. ASSUME UNCHANGED <<cfg, source, metricsBuffer, collected>>
      PROVE  WholeInv'
  BY <1>4, WholeSame
<1>5. CASE Skip \/ Record \/ CollectFails \/ UNCHANGED vars
  BY <1>4, <1>5 DEF Skip, Record, CollectFails, vars, builderVars, histVars
<1>6. ASSUME NEW c \in Checks, RunCheck(c)
      PROVE  WholeInv'
  BY <1>4, <1>6 DEF RunCheck, builderVars, histVars
<1> QED
  BY <1>2, <1>3, <1>5, <1>6, WholeEmitCheck DEF Next, Scrape

\* Validate leaves one section, whose name scrape puts on every resource.
LEMMA OneSource ==
    ASSUME Accepted
    PROVE  Configured(cfg) = {SourceName(cfg)}
<1>1. Configured(cfg) \subseteq Modes /\ IsFiniteSet(Modes)
  <2>1. IsFiniteSet({"api", "file", "livestatus"})
    <3>1. IsFiniteSet({"api"}) /\ IsFiniteSet({"file"}) /\ IsFiniteSet({"livestatus"})
      BY FS_Singleton
    <3>2. IsFiniteSet({"api"} \cup {"file"})
      BY <3>1, FS_Union
    <3>3. IsFiniteSet(({"api"} \cup {"file"}) \cup {"livestatus"})
      BY <3>1, <3>2, FS_Union
    <3>4. ({"api"} \cup {"file"}) \cup {"livestatus"} = {"api", "file", "livestatus"}
      OBVIOUS
    <3> QED
      BY <3>3, <3>4
  <2> QED
    BY <2>1 DEF Configured, Modes
<1>2. PICK m : Configured(cfg) = {m}
  BY <1>1, FS_Subset, FS_Singleton DEF Accepted, Validate
<1> QED
  BY <1>2 DEF Configured, Modes, SourceName

\* The CGI's bits and the attribute's names come to the same for every exit code.
LEMMA StateIs ==
    ASSUME KnownOutcomes, NEW e \in Execution
    PROVE  StateAttribute(State(e))
              = <<"ok", "warning", "critical", "unknown">>[e.outcome.state + 1]
<1>1. e.outcome.state \in 0..3
  BY ExecutionFields DEF KnownOutcomes
<1>2. \A s \in 0..3 : ApiStatusToState[CgiStatus[s]] = s
  <2>1. CgiStatus[0] = 2 /\ CgiStatus[1] = 4 /\ CgiStatus[2] = 16 /\ CgiStatus[3] = 8
    BY DEF CgiStatus
  <2>2. /\ ApiStatusToState[2] = 0 /\ ApiStatusToState[4] = 1
        /\ ApiStatusToState[16] = 2 /\ ApiStatusToState[8] = 3
    BY DEF ApiStatusToState
  <2> QED
    BY <2>1, <2>2
<1>3. State(e) = e.outcome.state
  BY <1>1, <1>2 DEF State
<1>4. \A s \in 0..3 : /\ s \in DOMAIN StateToAttribute
                      /\ StateToAttribute[s] = <<"ok", "warning", "critical", "unknown">>[s + 1]
  <2>1. DOMAIN StateToAttribute = 0..3
    BY DEF StateToAttribute
  <2>2. /\ StateToAttribute[0] = "ok" /\ StateToAttribute[1] = "warning"
        /\ StateToAttribute[2] = "critical" /\ StateToAttribute[3] = "unknown"
    BY DEF StateToAttribute
  <2> QED
    BY <2>1, <2>2
<1> QED
  BY <1>1, <1>3, <1>4 DEF StateAttribute

LEMMA WholeIsOne ==
    ASSUME KnownOutcomes, TypeInv, WholeInv
    PROVE  OneExecution
<1> SUFFICES ASSUME pc = "loop", NEW k \in DOMAIN Emitted
             PROVE  \E e \in collected :
        LET emitted == Emitted[k]
            expected == [a \in Attributes |->
                CASE a = "host.name" -> {e.check.host}
                  [] a = "nagios.service.description" -> {e.check.service}
                  [] a = "nagios.check.command" -> {CheckCommand(e)} \ {""}
                  [] a = "nagios.source" -> Configured(cfg)]
        IN  /\ emitted.points = {p \in Points(e) : p.metric \in cfg.metrics}
            /\ \A a \in Attributes :
                  {emitted.resource[b] : b \in {a} \cap DOMAIN emitted.resource} =
                     IF a \in cfg.resource_attributes THEN expected[a] ELSE {}
            /\ \A p \in emitted.points : p.metric = "nagios.check.state" =>
                  p.attribute = <<"ok", "warning", "critical", "unknown">>[e.outcome.state + 1]
  BY DEF OneExecution
<1>1. Emitted = metricsBuffer
  BY EmittedIs DEF TypeInv, TypeOK
<1>2. PICK e \in collected : IsOf(Emitted[k], e)
  BY <1>1 DEF WholeInv
<1>3. e \in Execution
  BY Known
<1> DEFINE resource == Emitted[k].resource
           expected == [a \in Attributes |->
                CASE a = "host.name" -> {e.check.host}
                  [] a = "nagios.service.description" -> {e.check.service}
                  [] a = "nagios.check.command" -> {CheckCommand(e)} \ {""}
                  [] a = "nagios.source" -> Configured(cfg)]
<1>4. ASSUME NEW a \in Attributes
      PROVE  {resource[b] : b \in {a} \cap DOMAIN resource} =
                IF a \in cfg.resource_attributes THEN expected[a] ELSE {}
  <2> DEFINE set == ResourceAttributes(e)
  <2>1. DOMAIN set = {x \in Attributes : x = "nagios.check.command" => CheckCommand(e) # ""}
    BY DEF ResourceAttributes
  <2>2. resource = [x \in DOMAIN set \cap cfg.resource_attributes |-> set[x]]
    BY <1>2 DEF IsOf, BuildResource
  <2>3. a \in DOMAIN resource <=> /\ a \in cfg.resource_attributes
                                  /\ a = "nagios.check.command" => CheckCommand(e) # ""
    BY <2>1, <2>2
  <2>4. a \in DOMAIN resource => {resource[a]} = expected[a]
    <3> SUFFICES ASSUME a \in DOMAIN resource PROVE {resource[a]} = expected[a]
      OBVIOUS
    <3>1. resource[a] = set[a] /\ a \in DOMAIN set
      BY <2>2
    <3>2. CASE a = "host.name"
      BY <2>1, <3>1, <3>2 DEF ResourceAttributes
    <3>3. CASE a = "nagios.service.description"
      BY <2>1, <3>1, <3>3 DEF ResourceAttributes
    <3>4. CASE a = "nagios.check.command"
      BY <2>1, <3>1, <3>4 DEF ResourceAttributes
    <3>5. CASE a = "nagios.source"
      <4>1. Configured(cfg) = {SourceName(cfg)}
        BY OneSource DEF TypeInv
      <4> QED
        BY <2>1, <3>1, <3>5, <4>1 DEF ResourceAttributes
    <3> QED
      BY <3>2, <3>3, <3>4, <3>5 DEF Attributes
  <2>5. a \notin DOMAIN resource => a \notin cfg.resource_attributes \/ expected[a] = {}
    BY <2>3
  <2> QED
    BY <2>3, <2>4, <2>5
<1>5. ASSUME NEW p \in Emitted[k].points, p.metric = "nagios.check.state"
      PROVE  p.attribute = <<"ok", "warning", "critical", "unknown">>[e.outcome.state + 1]
  <2>1. p \in Points(e)
    BY <1>2 DEF IsOf
  <2>2. p = StatePoint(StateAttribute(State(e)), Stamp(e), e.n)
    <3>1. \A pm \in e.outcome.perf : "nagios.check.state" \notin pm.bounds
      BY <1>3, ExecutionFields DEF KnownOutcomes
    <3>2. ASSUME NEW pm \in e.outcome.perf,
                 p \in {PerfdataPoint(metric, pm.label, Stamp(e), e.n) :
                           metric \in {"nagios.perfdata.value"} \cup pm.bounds}
          PROVE  FALSE
      BY <1>5, <3>1, <3>2 DEF PerfdataPoint
    <3>3. p \notin {CheckPoint(metric, Stamp(e), e.n) :
                      metric \in {"nagios.check.execution_time", "nagios.check.latency"}
                       \cup IF e.time > 0 THEN {"nagios.check.last_check"} ELSE {}}
      <4>1. \A metric \in {"nagios.check.execution_time", "nagios.check.latency",
                             "nagios.check.last_check"} :
                CheckPoint(metric, Stamp(e), e.n).metric # "nagios.check.state"
        BY DEF CheckPoint
      <4> QED
        BY <1>5, <4>1
    <3> QED
      BY <2>1, <3>2, <3>3 DEF Points
  <2> QED
    BY <1>3, <2>2, StateIs DEF StatePoint
<1> QED
  BY <1>2, <1>4, <1>5 DEF IsOf

\* Every resource that a scrape emits is one execution, whole and unmixed, under its
\* own attributes and the one source configured: from every source, for any filters
\* and any choice of metrics and attributes, and after checks that were filtered out
\* or did not parse.
THEOREM ResourcesAreUnmixed ==
    ASSUME KnownOutcomes
    PROVE  Spec => []OneExecution
<1>1. Init => TypeInv /\ OrderInv /\ WholeInv
  <2>1. Init => WholeInv
    BY DEF Init, NewMetricsBuilder, WholeInv
  <2> QED
    BY <2>1, TypeInit, OrderInit
<1>2. TypeInv /\ OrderInv /\ WholeInv /\ [Next]_vars => (TypeInv /\ OrderInv /\ WholeInv)'
  BY TypeNext, OrderNext, WholeNext
<1>3. TypeInv /\ WholeInv => OneExecution
  BY WholeIsOne
<1> QED
  BY <1>1, <1>2, <1>3, PTL DEF Spec
=============================================================================
