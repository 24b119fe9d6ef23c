--------------------------- MODULE MCNagiosScraper ---------------------------
(***************************************************************************)
(* NagiosScraper for TLC: two services, or a host and its service          *)
(* "Host Check", whose results share a lastSeen key in file mode.          *)
(***************************************************************************)
EXTENDS NagiosScraper

Services ==
    {[host |-> "web", service |-> "HTTP", command |-> "check_http"],
     [host |-> "web", service |-> "Load", command |-> ""]}
HostAndService ==
    {[host |-> "web", service |-> "Host Check", command |-> "check-host-alive"],
     [host |-> "web", service |-> "Host Check", command |-> "check_http"]}

\* Two perfdata metrics, one with bounds; perfdata that does not parse.
CheckOutcomes ==
    {[state |-> 2, parses |-> TRUE,
      perf |-> {[label |-> "time", bounds |-> {"nagios.perfdata.warning", "nagios.perfdata.max"}],
                [label |-> "size", bounds |-> {}]}],
     [state |-> 3, parses |-> FALSE, perf |-> {}]}

Api == [DefaultConfig EXCEPT !.api = {[endpoint |-> "http://nagios"]}]
File == [DefaultConfig EXCEPT
    !.file = {[service_perfdata_file |-> "service-perfdata", format |-> "pnp4nagios"]}]
Livestatus == [DefaultConfig EXCEPT
    !.livestatus = {[address |-> "live", network |-> "unix", timeout |-> 0]}]

\* Everything is recorded and a service is filtered out; only commands that
\* match are let through, and the check without one; only a metric that an
\* execution may lack.  None of the others may run.
ServiceConfigs ==
    {[Api EXCEPT !.metrics = Metrics,
        !.metrics_exclude = [a \in {"nagios.service.description"} |-> {"HTTP"}]],
     [File EXCEPT !.resource_attributes = {"nagios.service.description", "nagios.check.command", "nagios.source"},
        !.metrics_include = [a \in {"nagios.check.command"} |-> {"check_ping"}]],
     [Livestatus EXCEPT !.metrics = {"nagios.check.last_check"}],
     DefaultConfig,
     [Api EXCEPT !.file = File.file],
     [File EXCEPT !.file = {[service_perfdata_file |-> "", format |-> ""]}],
     [Livestatus EXCEPT !.livestatus = {[address |-> "live", network |-> "udp", timeout |-> 0]}]}
ApiConfigs == {Api}
FileConfigs == {File}
=============================================================================
