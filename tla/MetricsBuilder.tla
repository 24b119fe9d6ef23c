--------------------------- MODULE MetricsBuilder ---------------------------
(***************************************************************************)
(* MetricsBuilder of generated_metrics.go and ResourceBuilder of           *)
(* generated_resource.go: data points are recorded in the metrics, one     *)
(* gauge each, and EmitForResource moves them into a ResourceMetrics that  *)
(* is buffered until Emit returns all of them.                             *)
(*                                                                         *)
(* The same builder serves every scrape.  A data point is known by its     *)
(* metric, its one attribute (the unit is left out), its time stamp and n, *)
(* the check execution its value comes from.  Capacities are left out.     *)
(***************************************************************************)
EXTENDS ReceiverConfig, Sequences

VARIABLES
    cfg,            \* the configuration: what is enabled, and the filters
    data,           \* the data points in the metrics' gauges
    metricsBuffer   \* the ResourceMetrics emitted so far

builderVars == <<data, metricsBuffer>>

NewMetricsBuilder == data = {} /\ metricsBuffer = <<>>

AttributeNagiosState == {"ok", "warning", "critical", "unknown"}

\* The data points of the three kinds of metrics: without attributes, of the
\* state, and of one perfdata value or bound.
CheckPoint(metric, ts, n) == [metric |-> metric, attribute |-> "", ts |-> ts, n |-> n]
StatePoint(state, ts, n) ==
    [metric |-> "nagios.check.state", attribute |-> state, ts |-> ts, n |-> n]
PerfdataPoint(metric, label, ts, n) ==
    [metric |-> metric, attribute |-> label, ts |-> ts, n |-> n]

\* A metric that is not enabled records nothing.
RecordDataPoints(points) == data' = data \cup {p \in points : p.metric \in cfg.metrics}

\* The resource with the attributes given, except those not enabled.
BuildResource(attributes) ==
    [a \in DOMAIN attributes \cap cfg.resource_attributes |-> attributes[a]]

\* A filter has no say about a resource without its attribute.
Filtered(resource) ==
    \/ \E a \in DOMAIN resource \cap DOMAIN cfg.metrics_include :
          resource[a] \notin cfg.metrics_include[a]
    \/ \E a \in DOMAIN resource \cap DOMAIN cfg.metrics_exclude :
          resource[a] \in cfg.metrics_exclude[a]

\* Mutant: a resource that a filter drops returns before its points are moved.
PointsLeftIfFiltered(resource) == IF Filtered(resource) THEN data ELSE {}

\* The points that stay in the metrics: emit has moved all of them by the time
\* the filters are looked at.
PointsLeft(resource) == {}

\* metricsBuffer with the resource, unless it is filtered or has no points.
Buffered(resource) ==
    IF Filtered(resource) \/ data = {} THEN metricsBuffer
    ELSE Append(metricsBuffer, [resource |-> resource, points |-> data])

EmitForResource(resource) ==
    /\ metricsBuffer' = Buffered(resource)
    /\ data' = PointsLeft(resource)

NoResource == [a \in {} |-> ""]

\* What Emit returns: the buffer, and any points left as a resource without
\* attributes.
Emitted == Buffered(NoResource)

Emit ==
    /\ metricsBuffer' = <<>>
    /\ data' = PointsLeft(NoResource)
=============================================================================
