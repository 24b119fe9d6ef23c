--------------------------- MODULE PerfdataStream ---------------------------
(***************************************************************************)
(* What tailing one perfdata file promises the scraper, whatever happens   *)
(* to the file: a written chunk is handed over at most once, never before  *)
(* an older one that is still to come, and is never forgotten.  A chunk    *)
(* may be given up (Waive) or never come within reach (Miss).              *)
(***************************************************************************)
EXTENDS Naturals

VARIABLES
    written,    \* the number of chunks written so far
    pending,    \* written and neither handed over nor given up
    delivered,  \* handed over to collect
    waived      \* given up

streamVars == <<written, pending, delivered, waived>>

StreamInit ==
    /\ written = 0
    /\ pending = {}
    /\ delivered = {}
    /\ waived = {}

Write ==
    /\ written' = written + 1
    /\ pending' = pending \cup {written + 1}
    /\ UNCHANGED <<delivered, waived>>

\* A chunk is written where no tailer will read it.
Miss ==
    /\ written' = written + 1
    /\ waived' = waived \cup {written + 1}
    /\ UNCHANGED <<pending, delivered>>

\* One call of readNewLinesFromTracker hands over the oldest pending chunks.
Deliver ==
    \E batch \in SUBSET pending :
        /\ \A n \in batch, m \in pending \ batch : n < m
        /\ pending' = pending \ batch
        /\ delivered' = delivered \cup batch
        /\ UNCHANGED <<written, waived>>

Waive ==
    \E lost \in SUBSET pending :
        /\ pending' = pending \ lost
        /\ waived' = waived \cup lost
        /\ UNCHANGED <<written, delivered>>

StreamNext == Write \/ Miss \/ Deliver \/ Waive
StreamSpec == StreamInit /\ [][StreamNext]_streamVars
=============================================================================
