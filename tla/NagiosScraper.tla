--------------------------- MODULE NagiosScraper ---------------------------
(***************************************************************************)
(* nagiosScraper of scraper.go: scrape collects check results from its     *)
(* dataSource, skips the ones it has emitted, and records the others in    *)
(* the MetricsBuilder, one resource each.  Nagios runs checks meanwhile,   *)
(* and the controller (scraperhelper) passes on what scrape returns, or    *)
(* discards all of it when scrape returns an error.                        *)
(*                                                                         *)
(* An EXECUTION is one run of a check's plugin.  A polling source (API,    *)
(* Livestatus) returns the latest execution of every check; the file       *)
(* source returns the executions logged since its last collect.            *)
(***************************************************************************)
EXTENDS MetricsBuilder

CONSTANTS
    Checks,     \* the hosts and services Nagios checks: host, service, command
    Outcomes,   \* what a check's plugin may give: state, perf, parses
    Configs,    \* the configurations the receiver may be given
    MaxTime,    \* bound: the seconds Nagios' clock can show
    MaxExec,    \* bound: the number of executions
    Faults      \* what else may happen, a subset of AllFaults

AllFaults ==
    {"sameSecond",  \* a check runs twice in one second of Nagios' clock
     "noTime",      \* a source that provides no last_check
     "badPerf",     \* perfdata of which no token parses
     "collectErr",  \* collect returns an error
     "restart"}     \* the receiver is shut down and started again

ASSUME NagiosScraperAssumption ==
    /\ IsFiniteSet(Checks)
    /\ MaxTime \in Nat /\ MaxExec \in Nat
    /\ Faults \subseteq AllFaults
    /\ \E c \in Configs : Validate(c)

VARIABLES
    source,     \* s.source: the kind of client start created
    \* Nagios
    ran,        \* every execution so far
    logged,     \* the executions in the perfdata file, not yet collected
    \* The scraper
    pc,         \* idle, loop (over the results), or emit (the resource)
    results,    \* the results scrape has still to look at
    lastSeen,   \* s.lastSeen; 0 for a key it does not have
    errs,       \* errs # nil
    \* What came of it, since the last start
    delivered,  \* how often each execution was passed on: 0, 1, 2 or more
    discarded,  \* the executions in scrapes the controller discarded
    collected,  \* the executions collect has returned
    skipped,    \* the executions scrape has skipped as already emitted
    seenBefore  \* s.lastSeen when the running scrape began

nagiosVars == <<ran, logged>>
histVars == <<delivered, discarded, collected, skipped, seenBefore>>
vars == <<cfg, source, ran, logged, pc, results, lastSeen, builderVars, errs,
          delivered, discarded, collected, skipped, seenBefore>>

\* The lastSeen key: HostName + "\x00" + ServiceDescription.
Key(c) == <<c.host, c.service>>
Keys == {Key(c) : c \in Checks}
Execution == [n : 1..MaxExec, check : Checks, time : 0..MaxTime, outcome : Outcomes]

NoneSeen == [k \in Keys |-> 0]
NoneDelivered == [n \in 1..MaxExec |-> 0]

-----------------------------------------------------------------------------
(***************************************************************************)
(* Nagios                                                                  *)
(***************************************************************************)
Runs == Cardinality(ran)

\* The status Nagios holds of every check that ran.
Latest == {e \in ran : \A f \in ran : f.check = e.check => f.n <= e.n}

\* Its clock may be set back between two executions, but shows one second for
\* two executions of one check only under "sameSecond".
RunCheck(c) ==
    /\ Runs < MaxExec
    /\ \E time \in 0..MaxTime, outcome \in Outcomes :
          /\ time = 0 => "noTime" \in Faults
          /\ ~outcome.parses => "badPerf" \in Faults
          /\ time > 0 /\ "sameSecond" \notin Faults =>
                \A e \in ran : e.check = c => e.time # time
          /\ LET run == [n |-> Runs + 1, check |-> c, time |-> time,
                     outcome |-> outcome]
             IN  /\ ran' = ran \cup {run}
                 /\ logged' = IF source # "file" THEN logged ELSE Append(logged, run)
    /\ UNCHANGED <<cfg, source, pc, results, lastSeen, builderVars, errs, histVars>>

-----------------------------------------------------------------------------
(***************************************************************************)
(* scrape                                                                  *)
(***************************************************************************)
\* A Go map is iterated in any order.
Orders(S) ==
    {s \in [1..Cardinality(S) -> S] : \A i, j \in DOMAIN s : i # j => s[i] # s[j]}

Found == IF source = "file" THEN {logged} ELSE Orders(Latest)

\* With no results scrape returns at once.
Collect ==
    /\ pc = "idle"
    /\ \E found \in Found :
          /\ results' = found
          /\ pc' = IF found = <<>> THEN "idle" ELSE "loop"
          /\ collected' = collected \cup {found[k] : k \in DOMAIN found}
    /\ logged' = <<>>
    /\ seenBefore' = lastSeen
    /\ UNCHANGED <<cfg, source, ran, lastSeen, builderVars, errs,
                   delivered, discarded, skipped>>

\* scrape returns the error.  The file source may have discarded lines by then
\* (FileTailer).
CollectFails ==
    /\ pc = "idle" /\ "collectErr" \in Faults
    /\ \E k \in 0..Len(logged) : logged' = SubSeq(logged, k + 1, Len(logged))
    /\ UNCHANGED <<cfg, source, ran, pc, results, lastSeen, builderVars, errs,
                   histVars>>

result == Head(results)

\* Mutants: a check is skipped when its last_check is not newer; by a key
\* that any two checks share.
SeenNotNewer(r) == lastSeen[Key(r.check)] >= r.time
SeenByAny(r) == \E k \in Keys : lastSeen[k] = r.time

\* seen && prev == result.LastCheck, where LastCheck > 0.
Seen(r) == lastSeen[Key(r.check)] = r.time

Skip ==
    /\ pc = "loop" /\ results # <<>>
    /\ result.time > 0 /\ Seen(result)
    /\ skipped' = skipped \cup {result}
    /\ results' = Tail(results)
    /\ UNCHANGED <<cfg, source, nagiosVars, pc, lastSeen, builderVars, errs,
                   delivered, discarded, collected, seenBefore>>

\* Mutant: an entry that is written only once.
RememberFirst(r) ==
    IF lastSeen[Key(r.check)] = 0 THEN [lastSeen EXCEPT ![Key(r.check)] = r.time]
    ELSE lastSeen

\* lastSeen once r is to be emitted.
Remember(r) ==
    IF r.time > 0 THEN [lastSeen EXCEPT ![Key(r.check)] = r.time] ELSE lastSeen

\* The CGI gives a state as a bit.  That of a pending check, and bits the table lacks,
\* which the decoder takes for UNKNOWN, are left out: an execution has one of four states.
CgiStatus == [s \in 0..3 |-> CASE s = 0 -> 2 [] s = 1 -> 4 [] s = 2 -> 16 [] s = 3 -> 8]

\* Mutant: the bits in the order of the states.
ApiStatusToStateInOrder ==
    [bit \in {1, 2, 4, 8, 16} |->
        CASE bit = 2 -> 0 [] bit = 4 -> 1 [] bit = 8 -> 2 [] bit \in {1, 16} -> 3]
ApiStatusToState ==
    [bit \in {1, 2, 4, 8, 16} |->
        CASE bit = 2 -> 0 [] bit = 4 -> 1 [] bit = 16 -> 2 [] bit \in {1, 8} -> 3]

\* The fields of a result that depend on its source: the CGI's service list
\* names no check command.
State(r) ==
    IF source = "api" THEN ApiStatusToState[CgiStatus[r.outcome.state]]
    ELSE r.outcome.state
CheckCommand(r) == IF source = "api" THEN "" ELSE r.check.command

StateToAttribute ==
    [s \in 0..3 |-> CASE s = 0 -> "ok" [] s = 1 -> "warning"
                      [] s = 2 -> "critical" [] s = 3 -> "unknown"]

StateAttribute(state) ==
    IF state \in DOMAIN StateToAttribute THEN StateToAttribute[state] ELSE "unknown"

\* The scrape's own time, told apart from every last_check, stands in for one
\* the source does not give.
Now == MaxTime + 1
Stamp(r) == IF r.time > 0 THEN r.time ELSE Now

\* The data points scrape records of a result.
Points(r) ==
    {StatePoint(StateAttribute(State(r)), Stamp(r), r.n)}
    \cup {CheckPoint(metric, Stamp(r), r.n) :
            metric \in {"nagios.check.execution_time", "nagios.check.latency"}
                       \cup IF r.time > 0 THEN {"nagios.check.last_check"} ELSE {}}
    \cup UNION {{PerfdataPoint(metric, pm.label, Stamp(r), r.n) :
                    metric \in {"nagios.perfdata.value"} \cup pm.bounds} :
                pm \in r.outcome.perf}

\* The attributes of a result's resource; an empty command is not set.
ResourceAttributes(r) ==
    [a \in {x \in Attributes : x = "nagios.check.command" => CheckCommand(r) # ""} |->
        CASE a = "host.name" -> r.check.host
          [] a = "nagios.service.description" -> r.check.service
          [] a = "nagios.check.command" -> CheckCommand(r)
          [] a = "nagios.source" -> SourceName(cfg)]

\* Perfdata that does not parse gives no points of its own and an error, and
\* the loop goes on.
Record ==
    /\ pc = "loop" /\ results # <<>>
    /\ ~(result.time > 0 /\ Seen(result))
    /\ lastSeen' = Remember(result)
    /\ RecordDataPoints(Points(result))
    /\ errs' = (errs \/ ~result.outcome.parses)
    /\ pc' = "emit"
    /\ UNCHANGED <<cfg, source, nagiosVars, results, metricsBuffer, histVars>>

EmitCheck ==
    /\ pc = "emit"
    /\ EmitForResource(BuildResource(ResourceAttributes(result)))
    /\ results' = Tail(results)
    /\ pc' = "loop"
    /\ UNCHANGED <<cfg, source, nagiosVars, lastSeen, errs, histVars>>

Times(n) ==
    Cardinality({k \in DOMAIN Emitted : \E p \in Emitted[k].points : p.n = n})
AtMost2(k) == IF k > 2 THEN 2 ELSE k

\* return s.mb.Emit(), errs: the controller counts an error against the whole
\* scrape and passes nothing on.
Return ==
    /\ pc = "loop" /\ results = <<>>
    /\ delivered' = IF errs THEN delivered
                    ELSE [n \in 1..MaxExec |-> AtMost2(delivered[n] + Times(n))]
    /\ discarded' = IF errs THEN discarded \cup {n \in 1..MaxExec : Times(n) > 0}
                    ELSE discarded
    /\ Emit
    /\ errs' = FALSE
    /\ pc' = "idle"
    /\ UNCHANGED <<cfg, source, nagiosVars, results, lastSeen, collected, skipped, seenBefore>>

\* shutdown, and a new receiver in its place: newNagiosScraper, start.
Restart ==
    /\ pc = "idle" /\ "restart" \in Faults
    /\ source' = SourceName(cfg)
    /\ data' = {} /\ metricsBuffer' = <<>>
    /\ lastSeen' = NoneSeen
    /\ logged' = <<>>
    /\ delivered' = NoneDelivered
    /\ discarded' = {}
    /\ collected' = {}
    /\ skipped' = {}
    /\ seenBefore' = NoneSeen
    /\ UNCHANGED <<cfg, ran, pc, results, errs>>

Scrape == Collect \/ Skip \/ Record \/ EmitCheck \/ Return

Init ==
    /\ cfg \in {c \in Configs : Validate(c)}
    /\ source = SourceName(cfg)
    /\ ran = {}
    /\ logged = <<>>
    /\ pc = "idle"
    /\ results = <<>>
    /\ lastSeen = NoneSeen
    /\ NewMetricsBuilder
    /\ errs = FALSE
    /\ delivered = NoneDelivered
    /\ discarded = {}
    /\ collected = {}
    /\ skipped = {}
    /\ seenBefore = NoneSeen

Next ==
    \/ \E c \in Checks : RunCheck(c)
    \/ Scrape \/ CollectFails \/ Restart

Spec == Init /\ [][Next]_vars

\* The controller's ticker starts scrape again and again.
FairSpec == Spec /\ WF_vars(Scrape)

-----------------------------------------------------------------------------
(***************************************************************************)
(* Properties.                                                             *)
(***************************************************************************)
\* Every variable has its type.  Between two scrapes nothing is left in the
\* MetricsBuilder, which the next scrape would emit as its own.
TypeOK ==
    /\ source \in Modes
    /\ ran \in SUBSET Execution
    /\ logged \in Seq(Execution)
    /\ pc \in {"idle", "loop", "emit"}
    /\ results \in Seq(Execution)
    /\ lastSeen \in [Keys -> 0..MaxTime]
    /\ errs \in BOOLEAN
    /\ delivered \in [1..MaxExec -> 0..2]
    /\ discarded \in SUBSET (1..MaxExec)
    /\ collected \in SUBSET Execution
    /\ skipped \in SUBSET Execution
    /\ seenBefore \in [Keys -> 0..MaxTime]
    /\ pc = "emit" => results # <<>>
    /\ pc = "idle" => metricsBuffer = <<>> /\ ~errs
    /\ pc # "emit" => data = {}

\* "Skip the whole check when its last_check is unchanged ..., so a scrape
\* interval shorter than the check interval doesn't re-emit the same
\* measurement": an execution that provides a last_check is passed on at most
\* once between two starts, also when Nagios' clock is set back, collects fail or
\* scrapes are lost.  (lastSeen is not kept: after a restart it may be once more.)
NeverTwice ==
    \A e \in collected : e.time > 0 => delivered[e.n] <= 1

\* What scrape can tell apart: one check's executions by their last_check, and
\* every execution without one.
SameMeasurement(e, f) ==
    f.check = e.check /\ f.time = e.time /\ (e.time = 0 => f = e)

\* Not filtered out, and something of it is enabled.
Reportable(e) ==
    /\ ~Filtered(BuildResource(ResourceAttributes(e)))
    /\ \E p \in Points(e) : p.metric \in cfg.metrics

\* The other half: skipping loses nothing.  Between two scrapes every
\* measurement collect has returned has been passed on as far as it is to be,
\* whatever came before it (a clock set back, a failed collect, checks without a
\* last_check), or was in a scrape that failed as a whole.
AllReported ==
    pc = "idle" =>
        \A e \in collected : \E f \in collected :
            /\ SameMeasurement(e, f)
            /\ Reportable(f) => delivered[f.n] >= 1 \/ f.n \in discarded

\* One resource is one execution, whole and unmixed: the enabled part of what
\* the check measured, stamped with its last_check, under the check's own
\* attributes and the one source that is configured.  Also after a check whose
\* resource is filtered out or whose perfdata does not parse, although one
\* builder serves every check and every scrape, and from every source.
OneExecution ==
    pc = "loop" => \A k \in DOMAIN Emitted : \E e \in collected :
        LET emitted == Emitted[k]
            expected == [a \in Attributes |->
                CASE a = "host.name" -> {e.check.host}
                  [] a = "nagios.service.description" -> {e.check.service}
                  [] a = "nagios.check.command" -> {CheckCommand(e)} \ {""}
                  [] a = "nagios.source" -> Configured(cfg)]
        IN  /\ emitted.points = {p \in Points(e) : p.metric \in cfg.metrics}
            /\ \A a \in Attributes :
                  {emitted.resource[b] : b \in {a} \cap DOMAIN emitted.resource} =
                     IF a \in cfg.resource_attributes THEN expected[a] ELSE {}
            /\ \A p \in emitted.points : p.metric = "nagios.check.state" =>
                  p.attribute = <<"ok", "warning", "critical", "unknown">>[e.outcome.state + 1]

\* "lastSeen tracks the most recent last_check emitted per host+service": what
\* lastSeen holds has been passed on.
LastSeenWasEmitted ==
    pc = "idle" =>
        \A k \in Keys : lastSeen[k] # 0 =>
            \E e \in collected :
                /\ Key(e.check) = k /\ e.time = lastSeen[k]
                /\ ~Reportable(e) \/ delivered[e.n] >= 1

\* "Skip the whole check when its last_check is unchanged since the previous
\* scrape": scrape skips a result only if lastSeen held its last_check before
\* this scrape.
SkipsOnlyUnchanged ==
    [][Skip => seenBefore[Key(result.check)] = result.time]_vars

\* With a polling source, a check whose latest execution stays the latest gets
\* its measurement passed on, unless its resource is filtered out or some
\* check's perfdata does not parse: failed collects and restarts only delay it.
LatestIsReported ==
    source # "file" =>
    \A n \in 1..MaxExec :
        <>[](/\ \A e \in ran : e.outcome.parses
             /\ \E e \in Latest :
                   e.n = n /\ \A f \in ran : SameMeasurement(e, f) => Reportable(f)) =>
            <>(\E e, f \in ran :
                  e.n = n /\ SameMeasurement(e, f) /\ delivered[f.n] >= 1)
=============================================================================
