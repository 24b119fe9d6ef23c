--------------------------- MODULE ReceiverConfig ---------------------------
(***************************************************************************)
(* The receiver's configuration: Config of config.go and the parts of it   *)
(* that generated_config.go declares, their defaults, Validate, and what   *)
(* scraper.go makes of the sections.                                       *)
(*                                                                         *)
(* A section is a pointer: {} is nil, and {s} points to section s.  An     *)
(* empty path, address or endpoint is "".                                  *)
(***************************************************************************)
EXTENDS Integers, FiniteSets

Metrics ==
    {"nagios.check.state", "nagios.check.execution_time", "nagios.check.latency",
     "nagios.check.last_check", "nagios.perfdata.value", "nagios.perfdata.warning",
     "nagios.perfdata.critical", "nagios.perfdata.min", "nagios.perfdata.max"}

Attributes ==
    {"host.name", "nagios.service.description", "nagios.check.command",
     "nagios.source"}

\* A filter is the set of the attribute values it matches; an attribute outside
\* the function's domain has none.
NoFilters == [attr \in {} |-> {}]

DefaultMetricsConfig ==
    {"nagios.check.state", "nagios.check.execution_time", "nagios.perfdata.value"}
DefaultResourceAttributesConfig == Attributes

\* createDefaultConfig: the sections are for the user to set.  metrics and
\* resource_attributes are what is enabled.
DefaultConfig ==
    [api |-> {}, file |-> {}, livestatus |-> {},
     metrics |-> DefaultMetricsConfig,
     resource_attributes |-> DefaultResourceAttributesConfig,
     metrics_include |-> NoFilters, metrics_exclude |-> NoFilters]

Modes == {"api", "file", "livestatus"}
Configured(cfg) == {m \in Modes : cfg[m] # {}}

APIConfigValid(api) == api.endpoint # ""

FileConfigValid(file) ==
    /\ file.service_perfdata_file # ""
    /\ file.format \in {"", "default", "pnp4nagios"}

LivestatusConfigValid(livestatus) ==
    /\ livestatus.address # ""
    /\ livestatus.network \in {"unix", "tcp"}
    /\ livestatus.timeout >= 0

SectionsValid(cfg) ==
    /\ \A s \in cfg.api : APIConfigValid(s)
    /\ \A s \in cfg.file : FileConfigValid(s)
    /\ \A s \in cfg.livestatus : LivestatusConfigValid(s)

\* Mutant: more than one section is not looked for.
ValidateSections(cfg) == Configured(cfg) # {} /\ SectionsValid(cfg)

\* Validate returns nil.
Validate(cfg) == Cardinality(Configured(cfg)) = 1 /\ SectionsValid(cfg)

\* sourceName, and the client createDataSource creates: of the sections that
\* are set it takes the first.
SourceName(cfg) ==
    CASE cfg.api # {} -> "api"
      [] cfg.api = {} /\ cfg.file # {} -> "file"
      [] cfg.api = {} /\ cfg.file = {} /\ cfg.livestatus # {} -> "livestatus"
      [] OTHER -> "unknown"
=============================================================================
