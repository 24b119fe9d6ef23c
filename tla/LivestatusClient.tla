-------------------------- MODULE LivestatusClient --------------------------
(***************************************************************************)
(* livestatusClient of livestatus_client.go: one collect opens a           *)
(* connection, bounds it by a deadline, sends the query and reads rows     *)
(* until the server closes.  The server sends its rows piece by piece; it  *)
(* may stall, close early, or reset the connection at any point.           *)
(***************************************************************************)
EXTENDS Naturals, Sequences

CONSTANTS
    Timeouts,       \* values of cfg.Timeout in units of time, 0 when unset
    DefaultTimeout, \* defaultLivestatusTimeout
    CtxDeadlines,   \* deadlines of the scrape context, 0 when it has none
    MaxDial,        \* bound: how long the kernel tries to connect
    MaxTime,        \* bound: where the clock of one collect stops counting
    MaxRow          \* bound: the number of rows of a response

ASSUME LivestatusClientAssumption ==
    /\ Timeouts \subseteq Nat /\ DefaultTimeout \in Nat \ {0}
    /\ CtxDeadlines \subseteq Nat
    /\ MaxDial \in Nat /\ MaxTime \in Nat /\ MaxRow \in Nat

VARIABLES
    \* The server
    server,     \* open, closed (end of stream) or reset
    answer,     \* the rows the query selects
    sent,       \* how many of them it has sent whole
    piece,      \* how much of the next one it has sent
    \* collect
    timeout,    \* c.cfg.Timeout
    ctxDeadline,\* ctx.Deadline()
    pc,         \* idle, dial, write, read
    now,        \* the time since collect began
    deadline,   \* the connection's deadline, 0 for none
    taken,      \* how many rows the scanner has returned
    results,    \* collect's results
    outcome     \* what the last collect returned

connVars == <<server, answer, sent, piece>>
cfgVars == <<timeout, ctxDeadline>>
vars == <<server, answer, sent, piece,
          timeout, ctxDeadline, pc, now, deadline, taken, results, outcome>>

\* A row parses; parses and has a tab in its perf_data or plugin_output; does
\* not parse (state is no number, or it is empty); or is longer than
\* bufio.MaxScanTokenSize.
RowKinds == {"good", "tabbed", "bad", "long"}
Parses == {"good", "tabbed"}

\* Of a row that is not whole: nothing, fewer than nine fields, a part of the ninth.
Pieces == {"none", "columns", "ninth"}

\* A result and the row it is of.  Its columns are the row's; or the latency
\* may lack digits (cut); or those behind the tab are in the place of others
\* (shifted); or some were never read (lost).
Result == [row : Nat \ {0}, columns : {"whole", "cut", "shifted", "lost"}]

-----------------------------------------------------------------------------
(***************************************************************************)
(* The Livestatus server                                                   *)
(***************************************************************************)
ServerSends ==
    /\ pc = "read" /\ server = "open" /\ sent < Len(answer)
    /\ \/ piece = "none" /\ piece' = "columns" /\ UNCHANGED sent
       \/ piece = "columns" /\ piece' = "ninth" /\ UNCHANGED sent
       \/ piece = "ninth" /\ piece' = "none" /\ sent' = sent + 1
    /\ UNCHANGED <<server, answer, cfgVars, pc, now, deadline, taken, results, outcome>>

\* It has sent every row; or it closes early, as when its process ends.
ServerCloses ==
    /\ pc = "read" /\ server = "open"
    /\ server' = "closed"
    /\ UNCHANGED <<answer, sent, piece, cfgVars, pc, now, deadline, taken, results, outcome>>

ServerResets ==
    /\ pc \in {"write", "read"} /\ server = "open"
    /\ server' = "reset"
    /\ UNCHANGED <<answer, sent, piece, cfgVars, pc, now, deadline, taken, results, outcome>>

-----------------------------------------------------------------------------
(***************************************************************************)
(* collect                                                                 *)
(***************************************************************************)
Collect ==
    /\ pc = "idle"
    /\ pc' = "dial"
    /\ now' = 0
    /\ deadline' = 0
    /\ taken' = 0
    /\ results' = <<>>
    /\ outcome' = "none"
    /\ ctxDeadline' \in CtxDeadlines
    /\ UNCHANGED timeout
    /\ server' = "open"
    /\ answer' = <<>>
    /\ sent' = 0
    /\ piece' = "none"

ReturnWith(o) ==
    /\ outcome' = o
    /\ pc' = "idle"

\* Mutants: only a configured timeout counts; the context is not asked.
ConfiguredOnly == IF timeout = 0 THEN ctxDeadline ELSE now + timeout
ContextIgnored == now + (IF timeout = 0 THEN DefaultTimeout ELSE timeout)

\* The deadline set when the connection is there.
Deadline ==
    LET own == now + (IF timeout = 0 THEN DefaultTimeout ELSE timeout)
    IN  IF ctxDeadline # 0 /\ ctxDeadline < own THEN ctxDeadline ELSE own

Dialed ==
    /\ pc = "dial"
    /\ deadline' = Deadline
    /\ pc' = "write"
    /\ UNCHANGED <<connVars, cfgVars, now, taken, results, outcome>>

\* Refused, unreachable, or the context's deadline has passed.
DialFails ==
    /\ pc = "dial"
    /\ ReturnWith("error")
    /\ UNCHANGED <<connVars, cfgVars, now, deadline, taken, results>>

Expired == deadline # 0 /\ now >= deadline

\* The query goes out, to which the server has its answer, and the write side
\* is closed.
WriteQuery ==
    /\ pc = "write" /\ server = "open" /\ ~Expired
    /\ pc' = "read"
    /\ \E n \in 0..MaxRow : answer' \in [1..n -> RowKinds]
    /\ UNCHANGED <<server, sent, piece, cfgVars, now, deadline, taken, results, outcome>>

WriteFails ==
    /\ pc = "write" /\ (server = "reset" \/ Expired)
    /\ ReturnWith("error")
    /\ UNCHANGED <<connVars, cfgVars, now, deadline, taken, results>>

\* The fields of this piece of a row; the tab in a column makes one more.
Fields(kind, p) ==
    CASE p = "none" -> 0
      [] p = "columns" -> 8
      [] p = "ninth" -> 9
      [] p = "whole" -> IF kind = "tabbed" THEN 10 ELSE 9

\* Mutant: parseLivestatusLine without the count of its fields.
AnyFields(kind, p) == p # "none"

NineFields(kind, p) == Fields(kind, p) >= 9

Columns(kind, p) ==
    CASE p = "columns" -> "lost"
      [] p # "columns" /\ kind = "tabbed" -> "shifted"
      [] p = "ninth" /\ kind # "tabbed" -> "cut"
      [] p = "whole" /\ kind # "tabbed" -> "whole"

\* What a token made of this piece of the n-th row adds to the results; one
\* that does not parse is logged and skipped.
Parsed(n, p) ==
    IF NineFields(answer[n], p) /\ answer[n] \in Parses
      THEN <<[row |-> n, columns |-> Columns(answer[n], p)]>>
      ELSE <<>>

\* The next row fills the Scanner's buffer before its newline.
TooLong ==
    \/ taken < sent /\ answer[taken + 1] = "long"
    \/ taken = sent /\ piece = "ninth" /\ answer[taken + 1] = "long"

\* Scan returns a whole row.
ReadRow ==
    /\ pc = "read" /\ taken < sent /\ ~TooLong
    /\ results' = results \o Parsed(taken + 1, "whole")
    /\ taken' = taken + 1
    /\ UNCHANGED <<connVars, cfgVars, pc, now, deadline, outcome>>

\* At the end of the stream Scan makes a token of an unterminated row.
ReadToEnd ==
    /\ pc = "read" /\ taken = sent /\ server = "closed" /\ ~TooLong
    /\ results' = results \o Parsed(taken + 1, piece)
    /\ ReturnWith("results")
    /\ UNCHANGED <<connVars, cfgVars, now, deadline, taken>>

\* Mutant: collect without the test of scanner.Err().
ErrIgnored == "results"

\* return results, fmt.Errorf(...)
ReadOutcome == "error"

\* How much of the next row the Scanner may hold when reading fails: what it
\* has not read of what arrived is gone.
Held ==
    CASE taken < sent -> Pieces
      [] taken = sent /\ piece = "none" -> {"none"}
      [] taken = sent /\ piece = "columns" -> {"none", "columns"}
      [] taken = sent /\ piece = "ninth" -> Pieces

\* The deadline has passed or the connection is reset.  What the Scanner holds
\* of an unterminated row is a token all the same.
ReadFails ==
    /\ pc = "read" /\ (server = "reset" \/ Expired)
    /\ \E p \in Held : results' = results \o Parsed(taken + 1, p)
    /\ ReturnWith(ReadOutcome)
    /\ UNCHANGED <<connVars, cfgVars, now, deadline, taken>>

ReadTooLong ==
    /\ pc = "read" /\ TooLong
    /\ ReturnWith(ReadOutcome)
    /\ UNCHANGED <<connVars, cfgVars, now, deadline, taken, results>>

\* The dialer gives up at the context's deadline, and a connection's reads and
\* writes at its own: both are due at once.
Tick ==
    /\ \/ pc = "dial" /\ now < MaxDial /\ (ctxDeadline = 0 \/ now < ctxDeadline)
       \/ pc \in {"write", "read"} /\ ~Expired
    /\ now' = IF now < MaxTime THEN now + 1 ELSE now
    /\ UNCHANGED <<connVars, cfgVars, pc, deadline, taken, results, outcome>>

Init ==
    /\ server = "closed"
    /\ answer = <<>>
    /\ sent = 0
    /\ piece = "none"
    /\ timeout \in Timeouts
    /\ ctxDeadline = 0
    /\ pc = "idle"
    /\ now = 0
    /\ deadline = 0
    /\ taken = 0
    /\ results = <<>>
    /\ outcome = "none"

Server == ServerSends \/ ServerCloses \/ ServerResets
Client ==
    \/ Collect \/ Dialed \/ DialFails \/ WriteQuery \/ WriteFails
    \/ ReadRow \/ ReadToEnd \/ ReadFails \/ ReadTooLong
Next == Server \/ Client \/ Tick

Spec == Init /\ [][Next]_vars

\* The collector runs and time passes.  The server need not do anything.
FairSpec == Spec /\ WF_vars(Client) /\ WF_vars(Tick)

-----------------------------------------------------------------------------
(***************************************************************************)
(* Properties.                                                             *)
(***************************************************************************)
\* Every variable has its type, no exchange goes on without a deadline, and no
\* row is there before the query is.
TypeOK ==
    /\ server \in {"open", "closed", "reset"}
    /\ answer \in Seq(RowKinds)
    /\ sent \in 0..Len(answer)
    /\ piece \in Pieces
    /\ piece # "none" => sent < Len(answer)
    /\ timeout \in Timeouts
    /\ ctxDeadline \in CtxDeadlines \cup {0}
    /\ pc \in {"idle", "dial", "write", "read"}
    /\ now \in 0..MaxTime
    /\ deadline \in Nat
    /\ taken \in 0..sent
    /\ results \in Seq(Result)
    /\ outcome \in {"none", "results", "error"}
    /\ pc \in {"write", "read"} => deadline > 0
    /\ pc \in {"dial", "write"} => answer = <<>>

\* Results are rows of the answer, in its order, each once, and only rows that
\* parse.  A result has the columns of its row, with two exceptions.  Columns
\* are shifted in the result of a row with a tab of its own, as more than nine
\* fields pass parseLivestatusLine's test.  And the row at which reading ended
\* is a result when nine fields of it had arrived: the last one, and with a
\* latency that may lack digits.  No row that was cut before that is a result.
ResultsAreRows ==
    /\ \A j, k \in DOMAIN results : j < k => results[j].row < results[k].row
    /\ \A k \in DOMAIN results :
          /\ results[k].row \in DOMAIN answer
          /\ answer[results[k].row] \in Parses
          /\ results[k].columns # "lost"
          /\ results[k].columns = "shifted" => answer[results[k].row] = "tabbed"
          /\ results[k].columns = "cut" => k = Len(results) /\ results[k].row = taken + 1

\* A collect that returns no error has read to the end of the stream, and has a
\* result for every row that was sent whole and parses: neither a deadline, nor
\* a reset, nor a row too long for the Scanner passes for the end.  That the
\* stream ended with the answer it does not say: when the server closes early,
\* what collect returns without an error is the rows sent until then.
NoErrorNoRowSkipped ==
    outcome = "results" =>
        /\ server = "closed"
        /\ \A n \in 1..sent :
              answer[n] \in Parses => \E k \in DOMAIN results : results[k].row = n

\* "The scrape controller's timeout, when configured, further caps the
\* effective deadline" (config.go), the dial included.
ContextCapsCollect == ctxDeadline # 0 /\ pc # "idle" => now <= ctxDeadline

\* "It keeps a reachable-but-unresponsive livestatus server from hanging the
\* scrape": every collect returns, also without any timeout configured.
CollectEnds == pc # "idle" ~> pc = "idle"
=============================================================================
