---------------------------- MODULE MCFileTailer ----------------------------
(***************************************************************************)
(* FileTailer for TLC: checks whose texts hold what the parsers look for,  *)
(* and lines that no check wrote.                                          *)
(***************************************************************************)
EXTENDS FileTailer

Http == [host |-> <<"web">>, service |-> <<"http", " ", "get">>, state |-> 0,
         output |-> <<"ok", ":">>, perf |-> <<"std", "::", "err=1">>,
         command |-> <<"check_http">>, arguments |-> <<"!", "80", "!", "90">>,
         time |-> 1]
NoPerf == [host |-> <<"db">>, service |-> <<"sql">>, state |-> 3,
           output |-> <<"out", "::", "of", " ", "reach">>, perf |-> <<>>,
           command |-> <<"check_sql">>, arguments |-> <<>>, time |-> 2]

Strings == STRING

BothChecks == {Http, NoPerf}
WithPerf == {Http}
WithoutPerf == {NoPerf}

\* A blank line, and three that give a result: the start of a PNP4Nagios line, two such
\* lines run into one, and a default line cut in its perfdata.
Fragments ==
    {<<" ">>,
     <<"TIMET", "::", "1", "\t", "HOSTNAME", "::", "web", "\t", "SERVICEDESC", "::", "http">>,
     <<"HOSTNAME", "::", "web", "\t", "SERVICEDESC", "::", "http", "DATATYPE", "::",
       "SERVICEPERFDATA", "\t", "HOSTNAME", "::", "db", "\t", "SERVICEDESC", "::", "sql",
       "\t", "SERVICESTATE", "::", "OK">>,
     <<"[SERVICEPERFDATA]", "\t", "1", "\t", "web", "\t", "http", "\t", "OK", "\t",
       "ok", "\t", "std">>}

PerFile == [t \in Trackers |-> IF t = "service" THEN 2 ELSE 1]
=============================================================================
