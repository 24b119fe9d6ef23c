---------------------------- MODULE PerfdataLine ----------------------------
(***************************************************************************)
(* The line parsers of file_tailer.go: what Nagios writes for a check by   *)
(* its perfdata file template, and which NagiosCheckResult parseLine makes *)
(* of a line.  A line is a text of words; the words that a parser looks    *)
(* for, "\t", "::", "!" and blanks, stand by themselves.                   *)
(***************************************************************************)
EXTENDS Text

Blanks == {" ", "\t"}
TrimSpace(s) == Trim(s, Blanks)

\* How Nagios names the state, by the exit code of the check's plugin: a host
\* whose check only warns is up, one it cannot reach is unreachable.
HostStates == <<"UP", "UP", "DOWN", "UNREACHABLE">>
ServiceStates == <<"OK", "WARNING", "CRITICAL", "UNKNOWN">>

Digit == <<"0", "1", "2", "3", "4", "5", "6", "7", "8", "9">>

-----------------------------------------------------------------------------
(***************************************************************************)
(* Nagios: host_perfdata_file_template and service_perfdata_file_template  *)
(* as the test environment (default) and PNP4Nagios set them.  A check has *)
(* a host, a service, a state, an output, perfdata, a command with its     *)
(* arguments, and the second it ran.                                       *)
(***************************************************************************)
StateName(c, isHost) ==
    <<(IF isHost THEN HostStates ELSE ServiceStates)[c.state + 1]>>

\* A time is a second of the first ten.
Second(c) == <<Digit[c.time + 1]>>

DefaultFields(c, isHost) ==
    IF isHost
      THEN << <<"[HOSTPERFDATA]">>, Second(c), c.host,
              StateName(c, isHost), c.output, c.perf>>
      ELSE << <<"[SERVICEPERFDATA]">>, Second(c), c.host, c.service,
              StateName(c, isHost), c.output, c.perf>>

Named(key, value) == <<key, "::">> \o value

Pnp4nagiosPairs(c, isHost) ==
    LET command == c.command \o c.arguments
    IN  IF isHost
          THEN <<Named("DATATYPE", <<"HOSTPERFDATA">>), Named("TIMET", Second(c)),
                 Named("HOSTNAME", c.host), Named("HOSTSTATE", StateName(c, isHost)),
                 Named("HOSTOUTPUT", c.output), Named("HOSTPERFDATA", c.perf),
                 Named("HOSTCHECKCOMMAND", command)>>
          ELSE <<Named("DATATYPE", <<"SERVICEPERFDATA">>), Named("TIMET", Second(c)),
                 Named("HOSTNAME", c.host), Named("SERVICEDESC", c.service),
                 Named("SERVICESTATE", StateName(c, isHost)),
                 Named("SERVICEOUTPUT", c.output), Named("SERVICEPERFDATA", c.perf),
                 Named("SERVICECHECKCOMMAND", command)>>

NagiosLine(f, c, isHost) ==
    Join(IF f = "pnp4nagios" THEN Pnp4nagiosPairs(c, isHost) ELSE DefaultFields(c, isHost),
         "\t")

-----------------------------------------------------------------------------
(***************************************************************************)
(* parseLine.  Each parser returns one result, or none for an error.       *)
(***************************************************************************)
\* parseNagiosState; Nagios writes states in capitals.
NagiosState(s) ==
    LET is(names) == \E name \in names : TrimSpace(s) = <<name>>
    IN  CASE is({"OK", "UP", "0"}) -> 0
          [] is({"WARNING", "1"}) -> 1
          [] is({"CRITICAL", "DOWN", "2"}) -> 2
          [] OTHER -> 3

\* parseTimet: 0 for what is not a number.
Timet(s) ==
    LET reads(n) == TrimSpace(s) = <<Digit[n + 1]>>
    IN  IF \E n \in 0..9 : reads(n) THEN CHOOSE n \in 0..9 : reads(n) ELSE 0

Result(host, service, state, output, perf, time, command) ==
    [HostName |-> host, ServiceDescription |-> service,
     State |-> NagiosState(state), PluginOutput |-> output, PerfData |-> perf,
     LastCheck |-> Timet(time), CheckCommand |-> command]

HostCheck == <<"Host Check">>

\* parseDefaultLine and parseDefaultHostLine; a host's fields lack the service.
ParseDefault(line, isHost) ==
    LET parts == Split(line, "\t")
        first == IF isHost THEN 4 ELSE 5
        prefix == IF isHost THEN "[HOSTPERFDATA]" ELSE "[SERVICEPERFDATA]"
    IN  IF Head(line) # prefix \/ Len(parts) < first + 2 THEN <<>>
        ELSE <<Result(parts[3], IF isHost THEN HostCheck ELSE parts[4],
                      parts[first], parts[first + 1], parts[first + 2],
                      parts[2], <<>>)>>

\* Mutant: the value behind the last "::".
ValueBehindLast(part) == Last(Split(part, "::"))

\* The value of one KEY::VALUE pair, which may hold a "::" itself.
Value(part) == After(part, "::")

\* parsePNP4NagiosFields: a part without "::" is skipped, a later key replaces
\* an earlier one.
Pnp4nagiosFields(line) ==
    LET parts == Split(line, "\t")
        pairs == {k \in DOMAIN parts : Contains(parts[k], "::")}
        key(k) == Before(parts[k], "::")
        last(k) == \A j \in pairs : key(j) = key(k) => j <= k
    IN  [x \in {key(k) : k \in pairs} |->
            Value(parts[CHOOSE k \in pairs : key(k) = x /\ last(k)])]

\* The keys of a host's and of a service's pairs.
HostKeys ==
    [state |-> "HOSTSTATE", output |-> "HOSTOUTPUT", perf |-> "HOSTPERFDATA",
     command |-> "HOSTCHECKCOMMAND"]
ServiceKeys ==
    [state |-> "SERVICESTATE", output |-> "SERVICEOUTPUT", perf |-> "SERVICEPERFDATA",
     command |-> "SERVICECHECKCOMMAND"]

\* parsePNP4NagiosLine and parsePNP4NagiosHostLine.
ParsePnp4nagios(line, isHost) ==
    LET fields == Pnp4nagiosFields(line)
        keys == IF isHost THEN HostKeys ELSE ServiceKeys
        required == IF isHost THEN {"HOSTNAME"} ELSE {"HOSTNAME", "SERVICEDESC"}
        field(key) == IF <<key>> \in DOMAIN fields THEN fields[<<key>>] ELSE <<>>
    IN  IF \E key \in required : <<key>> \notin DOMAIN fields THEN <<>>
        ELSE <<Result(field("HOSTNAME"),
                      IF isHost THEN HostCheck ELSE field("SERVICEDESC"),
                      field(keys.state), field(keys.output), field(keys.perf),
                      field("TIMET"), Before(field(keys.command), "!"))>>

\* What collect makes of one line it has read: trimmed, blank lines skipped.
ParseLine(text, f, isHost) ==
    LET line == TrimSpace(text)
    IN  CASE line = <<>> -> <<>>
          [] line # <<>> /\ f = "pnp4nagios" -> ParsePnp4nagios(line, isHost)
          [] OTHER -> ParseDefault(line, isHost)

-----------------------------------------------------------------------------
\* The result that check c should give; only PNP4Nagios' template has a command.
Meaning(f, c, isHost) ==
    [HostName |-> c.host,
     ServiceDescription |-> IF isHost THEN HostCheck ELSE c.service,
     State |-> IF isHost /\ c.state = 1 THEN 0 ELSE c.state,
     PluginOutput |-> c.output, PerfData |-> c.perf, LastCheck |-> c.time,
     CheckCommand |-> IF f = "pnp4nagios" THEN c.command ELSE <<>>]
=============================================================================
