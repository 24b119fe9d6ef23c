----------------------------- MODULE FileTailer -----------------------------
(***************************************************************************)
(* fileTailer of file_tailer.go: one tracker for the service perfdata file *)
(* and, when configured, one for the host perfdata file; start, collect    *)
(* and shutdown over both.                                                 *)
(*                                                                         *)
(* TrackedFile models one call of readNewLinesFromTracker system call by   *)
(* system call.  Here such a call is one step with its possible outcomes;  *)
(* what matters is what collect makes of the two sets of lines and errors, *)
(* and of each line, which PerfdataLine parses.                            *)
(***************************************************************************)
EXTENDS PerfdataLine

CONSTANTS
    Words,          \* what the texts of a check are made of
    HostConfigured, \* cfg.HostPerfdataFile is set
    Formats,        \* the values of cfg.Format, which "" leaves at its default
    Checks,         \* what the checks of a host or a service may give
    NoCheck,        \* stands for the check of a line that no template wrote whole
    Others,         \* the texts of such lines: fragments, joined lines, blank ones
    MaxLine,        \* bound: the number of lines Nagios writes to each file
    OpenErrs,       \* the trackers whose file may fail to open (not ENOENT)
    StatErrs        \* the trackers whose path may fail to stat (not ENOENT)

Trackers == {"service", "host"}

ASSUME FileTailerAssumption ==
    /\ HostConfigured \in BOOLEAN
    /\ Formats \subseteq {"", "default", "pnp4nagios"}
    /\ NoCheck \notin Checks
    /\ MaxLine \in [Trackers -> Nat]
    /\ OpenErrs \subseteq Trackers
    /\ StatErrs \subseteq Trackers

Check ==
    [host : Seq(Words), service : Seq(Words), state : 0..3, output : Seq(Words),
     perf : Seq(Words), command : Seq(Words), arguments : Seq(Words), time : 0..9]

Lacks(texts, c) == \A s \in texts : c \notin ToSet(s)
EndsBlank(s) == s # <<>> /\ Last(s) \in Blanks

\* A template puts tabs between the fields, so no field holds one; "!" separates a
\* command from its arguments; and the fields that end a line do not end in blanks.
ASSUME ChecksAssumption ==
    \A c \in Checks :
        /\ c \in Check
        /\ Lacks({c.host, c.service, c.output, c.perf, c.command, c.arguments}, "\t")
        /\ ~EndsBlank(c.perf)
        /\ ~EndsBlank(c.command \o c.arguments)
        /\ Lacks({c.command}, "!")
        /\ c.arguments # <<>> => Head(c.arguments) = "!"

\* The other lines are any texts at all.
ASSUME OthersAssumption == \A s \in Others : s \in Seq(Words) /\ s # <<>>

VARIABLES
    format,     \* cfg.Format
    \* The two files
    place,      \* "same": the path names the open file; "new": another; "gone"
    old,        \* the unread lines of the file the tracker has open
    new,        \* the lines of the file under the path, when it is another
    written,    \* the number of lines written to each file
    \* The tailer
    life,       \* new, starting (service file opened), started, failed, stopped
    pc,         \* where collect is
    fds,        \* t.file: "nil", "open", or "closed" but not nil
    results,    \* the results of the running collect
    returned,   \* the results of all collects that returned without an error
    \* History
    read,       \* the lines each tracker has read
    withError,  \* service lines that came with an error collect returned
    waived      \* lines from before start

fileVars == <<place, old, new, written>>
vars == <<format, place, old, new, written,
          life, pc, fds, results, returned, read, withError, waived>>

\* A line is the n-th of its file; its text follows from the check it is about.
Line == [n : Nat, check : Checks \cup {NoCheck}, text : Others \cup {<<>>}]

\* What collect makes of each line: no result if it does not parse or is blank.
Outcome ==
    [f \in Formats |-> [t \in Trackers |->
    [check \in Checks \cup {NoCheck} |-> [text \in Others \cup {<<>>} |->
        LET isHost == t = "host"
        IN  ParseLine(IF check = NoCheck THEN text ELSE NagiosLine(f, check, isHost),
                      f, isHost)]]]]

Used == IF HostConfigured THEN Trackers ELSE {"service"}

Numbers(ls) == {line.n : line \in ToSet(ls)}

-----------------------------------------------------------------------------
(***************************************************************************)
(* The files.  A rotation waits until the tailer has the file open: what   *)
(* becomes of faster ones is the subject of TrackedFile.                   *)
(***************************************************************************)
LogLine(t) ==
    /\ place[t] # "gone" /\ written[t] < MaxLine[t]
    /\ written' = [written EXCEPT ![t] = @ + 1]
    /\ \E check \in Checks \cup {NoCheck}, text \in Others \cup {<<>>} :
          LET line == [n |-> written[t] + 1, check |-> check, text |-> text]
          IN  /\ (check = NoCheck) = (text # <<>>)
              /\ IF place[t] = "same"
                   THEN old' = [old EXCEPT ![t] = Append(@, line)] /\ UNCHANGED new
                   ELSE new' = [new EXCEPT ![t] = Append(@, line)] /\ UNCHANGED old
    /\ UNCHANGED <<format, place,
                   life, pc, fds, results, returned, read, withError, waived>>

Rotate(t) ==
    /\ place[t] = "same"
    /\ place' = [place EXCEPT ![t] = "gone"]
    /\ UNCHANGED <<format, old, new, written,
                   life, pc, fds, results, returned, read, withError, waived>>

\* The next file appears, empty.
Create(t) ==
    /\ place[t] = "gone"
    /\ place' = [place EXCEPT ![t] = "new"]
    /\ UNCHANGED <<format, old, new, written,
                   life, pc, fds, results, returned, read, withError, waived>>

-----------------------------------------------------------------------------
(***************************************************************************)
(* start                                                                   *)
(***************************************************************************)
\* initTracker: a missing file is waited for, an existing one is read from its
\* end.
InitTracker(t) ==
    /\ fds' = [fds EXCEPT ![t] = IF place[t] = "gone" THEN "nil" ELSE "open"]
    /\ place' = [place EXCEPT ![t] = IF @ = "gone" THEN "gone" ELSE "same"]
    /\ waived' = [waived EXCEPT ![t] = @ \cup Numbers(new[t])]
    /\ new' = [new EXCEPT ![t] = <<>>]
    /\ UNCHANGED <<old, written>>

StartService ==
    /\ life = "new"
    /\ InitTracker("service")
    /\ life' = IF HostConfigured THEN "starting" ELSE "started"
    /\ UNCHANGED <<format, pc, results, returned, read, withError>>

StartHost ==
    /\ life = "starting"
    /\ InitTracker("host")
    /\ life' = "started"
    /\ UNCHANGED <<format, pc, results, returned, read, withError>>

\* start returns the error; the service file it has opened stays open.
StartFails ==
    /\ \/ life = "new" /\ "service" \in OpenErrs
       \/ life = "starting" /\ "host" \in OpenErrs
    /\ life' = "failed"
    /\ UNCHANGED <<format, fileVars,
                   pc, fds, results, returned, read, withError, waived>>

-----------------------------------------------------------------------------
(***************************************************************************)
(* collect                                                                 *)
(***************************************************************************)
\* What one line gives: a result, labelled with where it was read, or nothing.
ResultsOf(t, line) ==
    LET parsed == Outcome[format][t][line.check][line.text]
    IN  [k \in DOMAIN parsed |-> [tracker |-> t, n |-> line.n, result |-> parsed[k]]]

\* The results of the lines that parse, in their order.
Parsed(t, ls) == FlattenSeq([k \in DOMAIN ls |-> ResultsOf(t, ls[k])])

\* Mutant: a reader that starts every collect at the beginning of the file.
UnreadFromStart(ls) == ls

\* What is left of the lines ls behind the descriptor once they are read.
Unread(ls) == <<>>

\* A readNewLinesFromTracker that returns the lines ls and no error.
ReadsOk(t, ls) ==
    /\ CASE place[t] = "same" ->
              ls = old[t] /\ UNCHANGED <<place, fds>>
         [] place[t] = "gone" ->
              /\ ls = old[t]
              /\ fds' = [fds EXCEPT ![t] = "nil"]
              /\ UNCHANGED place
         [] place[t] = "new" ->
              /\ ls = old[t] \o new[t]
              /\ fds' = [fds EXCEPT ![t] = "open"]
              /\ place' = [place EXCEPT ![t] = "same"]
    /\ new' = IF place[t] = "new" THEN [new EXCEPT ![t] = <<>>] ELSE new
    /\ old' = [old EXCEPT ![t] = Unread(ls)]
    /\ read' = [read EXCEPT ![t] = @ \cup ToSet(ls)]
    /\ UNCHANGED written

\* A rotation that stat could not tell is left to the next collect.
MissesRotation(t, ls) ==
    /\ t \in StatErrs
    /\ ls = old[t]
    /\ old' = [old EXCEPT ![t] = Unread(ls)]
    /\ read' = [read EXCEPT ![t] = @ \cup ToSet(ls)]
    /\ UNCHANGED <<place, new, written, fds>>

\* The old file has been drained and closed, the new one does not open: the
\* lines ls come back together with an error.
ReadsAndFails(t, ls) ==
    /\ t \in OpenErrs /\ place[t] = "new"
    /\ ls = old[t]
    /\ fds' = [fds EXCEPT ![t] = "nil"]
    /\ old' = [old EXCEPT ![t] = Unread(ls)]
    /\ read' = [read EXCEPT ![t] = @ \cup ToSet(ls)]
    /\ UNCHANGED <<place, new, written>>

CollectService ==
    /\ life = "started" /\ pc = "idle"
    /\ \E ls \in {old["service"], old["service"] \o new["service"]} :
          /\ ReadsOk("service", ls) \/ MissesRotation("service", ls)
          /\ results' = Parsed("service", ls)
    /\ pc' = IF HostConfigured THEN "host" ELSE "return"
    /\ UNCHANGED <<format, life, returned, withError, waived>>

\* return nil, err: the lines are not looked at.
CollectServiceFails ==
    /\ life = "started" /\ pc = "idle"
    /\ ReadsAndFails("service", old["service"])
    /\ withError' = withError \cup ToSet(old["service"])
    /\ UNCHANGED <<format, life, pc, results, returned, waived>>

CollectHost ==
    /\ pc = "host"
    /\ \E ls \in {old["host"], old["host"] \o new["host"]} :
          /\ ReadsOk("host", ls) \/ MissesRotation("host", ls)
          /\ results' = results \o Parsed("host", ls)
    /\ pc' = "return"
    /\ UNCHANGED <<format, life, returned, withError, waived>>

\* Mutant: the host file's error treated like the service file's.
AfterHostErrorAsService(ls) == results' = <<>> /\ pc' = "idle"

\* Mutant: a host error that returns the parsed lines at once.
AfterHostErrorReturns(ls) ==
    /\ results' = results \o Parsed("host", ls)
    /\ pc' = "idle"

\* The host file's error is logged; its lines are parsed all the same.
AfterHostError(ls) ==
    /\ results' = results \o Parsed("host", ls)
    /\ pc' = "return"

CollectHostFails ==
    /\ pc = "host"
    /\ ReadsAndFails("host", old["host"])
    /\ AfterHostError(old["host"])
    /\ UNCHANGED <<format, life, returned, withError, waived>>

Return ==
    /\ pc = "return"
    /\ returned' = returned \o results
    /\ results' = <<>>
    /\ pc' = "idle"
    /\ UNCHANGED <<format, fileVars, life, fds, read, withError, waived>>

\* Mutant: a shutdown that leaves a start that failed halfway alone.
ToCloseIfStarted == IF life = "started" THEN Trackers ELSE {}

\* shutdown closes what is not nil, and is called after a failed start as well.
ToClose == Trackers

Shutdown ==
    /\ life \in {"started", "failed"} /\ pc = "idle"
    /\ life' = "stopped"
    /\ fds' = [t \in Trackers |->
                 IF t \in ToClose /\ fds[t] = "open" THEN "closed" ELSE fds[t]]
    /\ UNCHANGED <<format, fileVars, pc, results, returned, read, withError, waived>>

Collect ==
    \/ CollectService \/ CollectServiceFails
    \/ CollectHost \/ CollectHostFails
    \/ Return

Init ==
    /\ format \in Formats
    /\ place = [t \in Trackers |-> "gone"]
    /\ old = [t \in Trackers |-> <<>>]
    /\ new = [t \in Trackers |-> <<>>]
    /\ written = [t \in Trackers |-> 0]
    /\ life = "new"
    /\ pc = "idle"
    /\ fds = [t \in Trackers |-> "nil"]
    /\ results = <<>>
    /\ returned = <<>>
    /\ read = [t \in Trackers |-> {}]
    /\ withError = {}
    /\ waived = [t \in Trackers |-> {}]

Next ==
    \/ \E t \in Used : LogLine(t) \/ Rotate(t) \/ Create(t)
    \/ StartService \/ StartHost \/ StartFails
    \/ Collect
    \/ Shutdown

Spec == Init /\ [][Next]_vars

\* The controller calls collect again and again, and the new service file does
\* not fail to open for ever.  Nothing is assumed of the host file.
FairSpec == Spec /\ WF_vars(Collect) /\ SF_vars(CollectService)

-----------------------------------------------------------------------------
(***************************************************************************)
(* Properties.                                                             *)
(***************************************************************************)
\* What a parser can make of a text of the given words.
ResultOver(words) ==
    [HostName : Seq(words), ServiceDescription : Seq(words) \cup {HostCheck},
     State : 0..3, PluginOutput : Seq(words), PerfData : Seq(words),
     LastCheck : Nat, CheckCommand : Seq(words)]

CheckResult == [tracker : Trackers, n : Nat, result : ResultOver(Words)]

\* Every variable has its type; results is local to one collect, which runs
\* only between start and shutdown.
TypeOK ==
    /\ format \in Formats
    /\ place \in [Trackers -> {"same", "new", "gone"}]
    /\ old \in [Trackers -> Seq(Line)]
    /\ new \in [Trackers -> Seq(Line)]
    /\ written \in [Trackers -> Nat]
    /\ life \in {"new", "starting", "started", "failed", "stopped"}
    /\ pc \in {"idle", "host", "return"}
    /\ fds \in [Trackers -> {"nil", "open", "closed"}]
    /\ results \in Seq(CheckResult)
    /\ returned \in Seq(CheckResult)
    /\ read \in [Trackers -> SUBSET Line]
    /\ withError \in SUBSET Line
    /\ waived \in [Trackers -> SUBSET Nat]
    /\ \A t \in Trackers : written[t] <= MaxLine[t]
    /\ pc = "idle" => results = <<>>
    /\ pc # "idle" => life = "started"

Kept == ToSet(results \o returned)
ResultOf(t, line) == \E r \in Kept : r.tracker = t /\ r.n = line.n

\* The default layout ends in the perfdata; without any, collect trims the
\* field off the line.
LosesItsLastField(line) == format # "pnp4nagios" /\ line.check.perf = <<>>

\* A check result that has been read off its file reaches the scraper, unless
\* the service file's reader returned it with an error (the descriptor has moved
\* past it, so no later collect can read it again) or its line has lost its last
\* field.  (The host file's error, the skipping of lines that do not parse, and
\* the rotation that drains the old file before the new one opens.)
NothingDropped ==
    \A t \in Trackers : \A line \in read[t] :
        line.check # NoCheck =>
            \/ ResultOf(t, line)
            \/ t = "service" /\ line \in withError
            \/ LosesItsLastField(line)

\* Everything in r stands in the text: what the text lacks is empty, UNKNOWN or 0.
StandsIn(r, text) ==
    /\ r \in ResultOver(ToSet(text))
    /\ r.State = 3 \/ \E w \in ToSet(text) : NagiosState(<<w>>) = r.State
    /\ r.LastCheck = 0 \/ \E w \in ToSet(text) : Timet(<<w>>) = r.LastCheck

\* Every result comes from one line of its file.  If a check wrote that line, the result
\* is what the check gave, each field in its place: in either format, for hosts and
\* services, with blanks and "::" in the texts, and among whatever fragments.  Other
\* lines are not kept from becoming results, which no check gave (a fragment with
\* HOSTNAME and SERVICEDESC is one in state UNKNOWN; of two lines run into one, later
\* keys replace earlier ones); such a result has nothing in it that is not in its line.
ResultsAreOfTheirLines ==
    \A r \in Kept : \E line \in read[r.tracker] :
        /\ line.n = r.n
        /\ IF line.check = NoCheck
             THEN StandsIn(r.result, line.text)
             ELSE r.result = Meaning(format, line.check, r.tracker = "host")

\* No line is returned twice, and the lines of one file keep their order.
ReturnedInOrder ==
    \A i, j \in DOMAIN returned :
        i < j /\ returned[i].tracker = returned[j].tracker =>
            returned[i].n < returned[j].n

\* A start that fails on the host file has opened the service file already;
\* after shutdown neither t.file is open.
NoDescriptorLeak ==
    life = "stopped" => \A t \in Trackers : fds[t] # "open"

\* "Rotation must surface data from BOTH the pre-rotation file (drained from
\* the old fd) and the post-rotation file": service lines that were drained from
\* a rotated file reach the scraper (file_tailer_test.go).
RotationSurfacesOldLines ==
    \A line \in read["service"] :
        line.check # NoCheck => ResultOf("service", line)

\* "Format: [SERVICEPERFDATA]\t<timestamp>\t...\t<output>\t<perfdata>": what is
\* written in this format gives a result, also for a check without perfdata
\* (parseDefaultLine).
FormatIsParsed ==
    \A line \in read["service"] :
        line.check # NoCheck => ResultOf("service", line) \/ line \in withError

\* However often the host file cannot be opened or rotates, what Nagios writes
\* to the service file while the tailer runs is returned by some collect (or
\* was drained in one that failed).
ServiceLinesReturned ==
    \A n \in 1..MaxLine["service"] :
        (life = "started" /\ n <= written["service"]) ~>
            \/ life = "stopped"
            \/ n \in waived["service"]
            \/ \E line \in read["service"] :
                  /\ line.n = n
                  /\ \/ line.check = NoCheck \/ LosesItsLastField(line)
                     \/ line \in withError
                     \/ pc = "idle" /\ ResultOf("service", line)
=============================================================================
