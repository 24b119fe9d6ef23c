# TLA+ models of nagioscheckreceiver

The repository is an OpenTelemetry collector receiver that turns Nagios check
results into metrics.  It reads them in one of three ways: by polling the JSON
CGI API, by tailing the perfdata files Nagios writes, or by querying an MK
Livestatus socket.  This directory models the parts of it that keep state or
run against a concurrent environment, checks them with TLC on small instances,
and proves every invariant they check, and the refinement, with TLAPS for every instance.

    tlc -config MCTrackedFileAll.cfg MCTrackedFile        # one run
    tlapm TrackedFileProofs.tla                           # the proofs of one module

## 1. Inventory

| Part | Source | State | Operations |
|---|---|---|---|
| Perfdata file tracker | `file_tailer.go` `trackedFile` | open file, its inode, its offset (kept by the kernel) | `initTracker`, `readNewLinesFromTracker`, `checkRotation`, `openAndGetInode`, `readLines` |
| File tailer | `file_tailer.go` `fileTailer` | service tracker, optional host tracker | `start`, `collect`, `shutdown` |
| Perfdata line parsers | `file_tailer.go:143-409` | none | `parseLine` and the three field layouts, `parseNagiosState`, `parseTimet` |
| Scraper | `scraper.go` | `lastSeen`: the last_check emitted per host and service; the data source | `start`, `createDataSource`, `scrape`, `shutdown` |
| Metrics builder | `internal/metadata/generated_metrics.go` | data points of the current resource, `metricsBuffer` of emitted resources | `Record…DataPoint`, `EmitForResource`, `Emit` |
| API client | `api_client.go` | per collect: the back-off and the last response | `collect` (retries), `fetchServiceList`, `parseServiceListResponse` |
| Livestatus client | `livestatus_client.go` | per collect: connection, deadline, scanner | `collect`, `parseLivestatusLine` |
| Perfdata value parser | `perfdata_parser.go` | none | `ParsePerfdata`, tokenizer, token and threshold grammars |
| Configuration, factory | `config.go`, `factory.go` | none | `Validate`, `createDefaultConfig`, `createMetricsReceiver` |
| Generated resource and config code | `generated_resource.go`, `generated_config.go` | attributes of one resource; what is enabled; the filters | setters, defaults |

**Interaction.** `scraperhelper`'s controller (a library) owns the one goroutine:
a ticker calls `scrape`, never twice at once, and its shutdown waits for a
running call.  `scrape` calls `collect` of the data source, which runs to its
end.  If `scrape` returns an error that is no partial-scrape error, the
controller passes no metric on.  There is no locking inside the receiver; what
is concurrent is the world: Nagios appending to its perfdata file, the rotation
renaming, recreating or truncating it, Nagios running checks between scrapes, the
HTTP server, the Livestatus server, clocks, and the collector's restart.

**What is hard, and the properties it calls for.**

* *Tracker.*  Every system call can be separated from the next by a write or a
  rotation.  Lines must come once, in order, whole, and none may be lost to a
  rotation that hits the window between reading and `stat`.
* *Tailer.*  Two trackers share one result and one error.  Reading moves an
  offset, so an error returned afterwards loses what was read.
* *Scraper.*  The same execution is collected many times; it must be emitted
  exactly once, though clocks are set back, collects fail, and the controller
  throws a scrape away.
* *Metrics builder.*  Points recorded for one check must leave with its resource, or be
  dropped with it, whatever is filtered, disabled or fails to parse.
* *Line parsers.*  Fields hold the separators the parsers look for, and may be empty;
  what Nagios wrote must come back field by field.  The code asks little of a line, so
  fragments of lines pass as results, too, and must not disturb the others.
* *API client.*  Retries must end: by success, a permanent error, elapsed time or
  the context.
* *Livestatus client.*  A collect must end whatever the server does, and an expired
  deadline, a reset or an oversized row must not pass as the end of the response.  That a
  server closed early cannot be told: what had come then passes as all.
* *Perfdata value parser.*  A plugin writes a label, a number, a unit and ranges without
  separators between some of them; each must be found where it ends.

`PROJECT.json` lists the hazards one by one, each at its line with the properties
that watch it.

## 2. Modules

| Module | Models | State ↔ code |
|---|---|---|
| `PerfdataStream` | the contract of a tracker: chunks are written, handed over at most once each and oldest first, or given up | abstract |
| `TrackedFile` | one `trackedFile` and the file system around it, one system call per step | `file`, `ino` = `t.file`, `t.ino`; `off` = kernel offset; `fd` = the file `os.Open` has returned, before `f.Stat` and the assignments; `held` = the Scanner's buffer; `lines` = `allLines`; `out` = everything returned to `collect`; `pc` = the place in the code |
| `TrackedFileProofs`, `TrackedFileContractProofs` | theorems about `TrackedFile` | |
| `Text` | the functions of Go's `strings` the parsers use: `Split`, `Trim`, `Index` …; a text is a sequence | |
| `TextProofs` | lemmas about `Text`, for texts of any length | |
| `PerfdataLine` | the templates Nagios writes lines by, and `parseLine` with its four parsers | `NagiosLine` = what Nagios writes; `Result` = `NagiosCheckResult`; `Meaning` = what a check's line should give |
| `FileTailer` | `fileTailer` with both trackers; a whole `readNewLinesFromTracker` is one step here, since `TrackedFile` has its inside | `fds` = the trackers' files; `old`, `new` = unread lines of the open file and of the one now under the path; `results` = `collect`'s slice; `format` = `cfg.Format` |
| `FileTailerProofs` | theorems about `PerfdataLine` and `FileTailer` | |
| `ReceiverConfig` | `Config`, its defaults, `Validate`, `sourceName` and `createDataSource` | a pointer to a section = a set of at most one |
| `MetricsBuilder` | `MetricsBuilder` and `ResourceBuilder`: enabled metrics and attributes, resource filters, `EmitForResource`, `Emit` | `data` = the points in the gauges; `metricsBuffer` |
| `NagiosScraper` | `scrape` over a data source, on top of the two; Nagios running checks; the controller's reaction | `cfg`, `source` = `s.cfg`, `s.source`; `lastSeen`, `errs`; `results` = what the loop has still to look at |
| `NagiosScraperProofs` | theorems about `NagiosScraper`, and so about `MetricsBuilder` | |
| `ApiClient` | one `collect` of the API client with `backoff.Retry` of cenkalti/backoff v4 | `interval`, `next` = the back-off; `spent`, `elapsed` = time |
| `ApiClientProofs` | theorems about `ApiClient` | |
| `LivestatusClient` | one `collect` of the Livestatus client | `deadline` = the connection's; `answer`, `sent`, `piece` = the rows the query selects and how far the server has sent them; `taken` = the rows the scanner has returned |
| `LivestatusClientProofs` | theorems about `LivestatusClient` | |
| `PerfdataParser` | `ParsePerfdata`: one step per character of the tokenizer and per token; the grammars of a token, a value and a threshold as operators | `at` = `i`, and the index of the token loop; `current`, `inQuote`, `tokens` = the tokenizer's; `metrics`, `parseErrors` = `ParsePerfdata`'s; `meant` = what the text was written from |
| `PerfdataParserProofs` | theorems about `PerfdataParser` | |
| `MC…` | instances for TLC | |

Texts are sequences.  In `PerfdataLine` their elements are words, and a separator (`"\t"`,
`"::"`, `"!"`, a blank) is a word of its own, so that fields may hold any number of any of
them; in `PerfdataParser` they are characters, of which the ones the parser tells apart
stand for all.  Three assumptions name what is taken for granted of the writers, and TLC
evaluates them on its instances:

* `ChecksAssumption`: no field of a check holds a tab (the templates separate by it), the
  fields that may end a line (perfdata, command) do not end in blanks, and a command's
  arguments begin at its first `!`.  Nothing else: any field may hold `::`, blanks, or the
  name of a key, and may be empty.
* `OthersAssumption`: the lines no check wrote are any texts at all, of the words of the
  module.  Many of them parse: a fragment of a PNP4Nagios line with a host and a service
  becomes a result in state UNKNOWN, two lines run into one become one result, a default
  line cut late becomes a result with less perfdata.  The code does not keep these out, so
  no property says it does.
* `TextsAssumption`: what a plugin writes follows its guidelines, as in `Measurement`: a
  label has no quote and no `=`, and is quoted if it has a space; a unit has no digit,
  quote, space or semicolon.  One thing the guidelines allow is excluded: a unit that
  begins with a dot.  What is *not* written by the guidelines is in `Texts`, which may be
  any texts at all.

`TrackedFile` implements `PerfdataStream` under the mapping in its `Stream`
instance (`KeepsTheContract`).  `FileTailer` and `NagiosScraper` abstract the
component below: a tracker's call becomes one step, a data source becomes "the
results of this collect".  `FileTailer` extends `PerfdataLine`, so each line it reads is
parsed; `NagiosScraper` extends `MetricsBuilder`, which extends `ReceiverConfig`, so every
scrape runs under a configuration that `Validate` has accepted and with one builder.

### The tracker in detail

Nagios writes *chunks*, numbered by `clock`: a whole `line`; the `start` of a line
whose `rest` follows in another write; or a `huge` one, the first 64 KiB of a line
that exceeds bufio's token limit.  Text is left out; what a token is made of (the chunks
in it, and whether they are exactly one line) is kept.  Inode numbers
are reused as soon as no name and no descriptor holds them.  `readLines` is one step
per chunk, so Nagios can append while the file is read.

The environment's faults are a constant, so that each run says under which of them
its properties hold: `split`, `huge`, `lateWriter` (rename while Nagios has the file
open), `truncate`, `readErr`, `statErr`, `openErr` (the open, and then the `Stat` or the `Seek` of what was opened), `crash`.

`waived` holds the chunks that are lost for a cause with a name, and is written by the
action that causes it: what was in the file when the tailer started (it seeks to the
end) and what was written before a stop; a file renamed before a descriptor reached it, or before a descriptor that had reached it
was closed again because its `Stat` or its `Seek` failed; what a truncation takes away unread, and what is then written below the old offset; what a late writer appends
to a file the tailer has finished with; a line of more than 64 KiB, and what a drain that
fails or meets one leaves behind.  Properties read it, the code's actions do not.  So
`NoLineLost` holds under every fault, and says that no *other* loss exists: none by a
rotation between the read and the `stat`, none by a failing `stat` or `open`.

### The scraper in detail

An *execution* is one run of a check; its number `n` stands for all its values.  A polling
source returns the latest execution of every check in any order, the file source those
logged since the last collect.  From the CGI a state comes as a bit and no command comes
at all.  A data point is its metric, its attribute, its time stamp and `n`, so that a
point under the wrong resource, an old stamp or a missing bound is told apart.  `delivered`
and `discarded` record what the controller did with each scrape, `seenBefore` what
`lastSeen` held when the running scrape began.

## 3. Runs

Every `CONSTANT` bound is in the cfg.  All checks together are a few minutes.

| Run | Question | Result |
|---|---|---|
| `tailer_all_faults` | under every fault at once: types, no use of a nil file (`TypeOK`), lines once and in order (`InOrder`), none lost without a named cause (`NoLineLost`), and every step one of the contract of `PerfdataStream` (`KeepsTheContract`) | holds |
| `tailer_live` | does the tracker end up on the file under the path (`CatchesUp`), and deliver everything (`EventuallyDelivered`), though `stat` and `open` fail now and then? | holds |
| `tailer_partial_line` | "returns all new complete lines" (`OnlyCompleteLines`) | violated |
| `two_files` | either file may fail to open, the host file for ever, in both formats: are lines dropped, other than with an error of the service file (`NothingDropped`), misread, or mixed up with the fragments among them (`ResultsAreOfTheirLines`), or repeated (`ReturnedInOrder`), do service lines get through (`ServiceLinesReturned`), is either `t.file` open after shutdown (`NoDescriptorLeak`)? | holds |
| `two_files_no_perfdata` | "Format: [SERVICEPERFDATA]\t…\t\<perfdata\>" for a check without perfdata (`FormatIsParsed`) | violated |
| `two_files_service_error` | "Rotation must surface data from BOTH …" when the new service file does not open (`RotationSurfacesOldLines`) | violated |
| `scrape` | under every fault, with a polling or the file source: is every measurement passed on (`AllReported`, `LatestIsReported`), no execution twice between two starts (`NeverTwice`), each resource one execution, whole and under its own attributes (`OneExecution`), and nothing left in the builder (`TypeOK`)? | holds |
| `scrape_unparsable` | "lastSeen tracks the most recent last_check emitted" (`LastSeenWasEmitted`) | violated |
| `scrape_host_check` | "Skip … when its last_check is unchanged since the previous scrape" (`SkipsOnlyUnchanged`) | violated |
| `api_retries` | does a collect end, and when (`CollectIsBounded`, and `CollectReturns` if every request ends); does it give up on a transient error only when no further wait fits (`RetriesUseTheirTime`); without a limit, does the context end it (`CancelEndsCollect`)? | holds |
| `livestatus` | with and without timeouts: does a collect end (`CollectEnds`), in the scrape's time (`ContextCapsCollect`), which rows become results, and with which columns (`ResultsAreRows`); without an error, has every row that was sent become one (`NoErrorNoRowSkipped`)? | holds |
| `perfdata` | is every text split at its unquoted spaces (`TokensAreSplit`), and does what a plugin writes come back as meant, but for measurements without a value or with a unit that begins like an exponent, and fail as a whole only when there are no others (`RoundTrip`)? | holds |

### What the violations show

1. `tailer_partial_line`: a scrape that reaches a line of which Nagios has written a
   part gets that part as a line (bufio's last token needs no newline) and the rest
   as another line later.
2. `two_files_service_error`: `readNewLinesFromTracker` returns the drained lines
   with the error; `collect` drops them for the service file and keeps them for the
   host file.
3. `two_files_no_perfdata`: `collect` trims the line before `parseDefaultLine` splits it at
   tabs, so an empty last field goes with its tab and the line is dropped: in the default
   format a check without perfdata is never reported.
4. `scrape_unparsable`: `lastSeen` is set before the outcome of the scrape is known.
   One check whose perfdata does not parse makes the controller discard the scrape,
   and its other checks are skipped from then on until they run again.
5. `scrape_host_check`: host results of the file mode share the key of a service
   named "Host Check".

Losses that the passing runs name in `waived` instead: a file truncated in place (rotation
is recognised by inode only, so the offset stays beyond the end), a file renamed while
Nagios goes on writing to it, a read error or a line of more than 64 KiB in the drain of a
rotated file, two rotations between two scrapes, a rotation between a successful open and the
`Stat` that then fails.
Losses and errors that other properties of passing runs name: of `5EB` the `E` is read as
part of the number, which then is none, so the measurement is lost, and if it is the only one
the text counts as unparsable (`Lost`, in `RoundTrip`); of a Livestatus server that closes
early the rows sent until then pass as all, the last of them perhaps with a latency cut short,
and a tab within the plugin output or the perfdata shifts the columns behind it
(`ResultsAreRows`, `NoErrorNoRowSkipped`); fragments of lines become results that no check
gave (`ResultsAreOfTheirLines`).

Met while reading, without a run of their own because no text of the repository promises
otherwise or the text is a generated one: a resource filter says nothing about a resource
that lacks its attribute, so an include filter on the check command lets every API result
through ("only metrics with matching resource attribute values will be emitted",
`generated_config.go`); file mode sets no execution time or latency and emits both as 0;
a service the API reports with last_check 0 is emitted in every scrape; of
`retry_on_failure` the multiplier is not handed to the back-off.

### Bounds

* `TrackedFile`: three inode numbers and three chunks under every fault, two for the
  refinement and liveness, which need every state.  Three inodes are the file that is open,
  the one under the path and one between them, or the number of the first used again; three
  chunks are a line in two writes and one before, during or after a rotation, or one per
  file.  A tracker looks at one descriptor and one path, so more files only add rotations
  that it cannot see; and the safety part holds for all bounds (section 4).
* `FileTailer`: two service lines and a host line: one unread and one after a rotation, next
  to the other file.  Two checks, one with blanks and separators in its texts and one
  without perfdata, and four fragments: a blank one, the beginning of a PNP4Nagios line as far
  as the service, two PNP4Nagios lines run into one, and a default line cut in its perfdata.
  All but the blank one become results in one of the formats.
* `NagiosScraper`: two checks, two seconds, three executions: one check twice with
  the other between, a clock set back, a second that repeats.  One configuration for each
  source, with a filter that excludes, a filter that includes (and a check without the
  attribute), and an execution of which nothing is enabled; and four that `Validate`
  has to refuse.
* `ApiClient`: intervals 2, 3, 4 (growth and cap) with their jitter, a limit of 12 on the
  elapsed time, which three waits can exhaust and the shortest ones do not; and all intervals
  0, as they are when only `enabled` is set.
* `LivestatusClient`: three rows, each one that parses, parses with a tab in a column, does not
  parse or is too long, and cut nowhere, before the ninth field or within it; a timeout of two or three units, each met in the
  dial, the write and the read.
* `PerfdataParser`: every text of up to five characters of four classes (quote, space,
  `=`, digit), enough for a quoted space inside a label between two tokens; every single
  measurement over three labels, three values (`-.2e-1` and `U` among them), four units (one
  begins with `e`, one ends with it) and the forms of a range, and every two of a smaller
  kind.  A letter or a digit stands for all that the code treats alike; `-` stands for both
  signs, `e` for `E` as well.
* `MaxTime` stops a clock that nothing reads any more; `MaxDial` is the kernel's own
  limit on connecting, `MaxRequest` that of an HTTP exchange.

### Fairness

The controller's ticker calls `scrape` again and again and each call runs on, so the
steps of the code (`Collect`, reading, `Scrape`, `Client`) are weakly fair.  In
`TrackedFile` a `stat` or an `open` that is tried in every scrape does not fail for ever
nor does the `Stat` of what was opened (strong
fairness of `CheckRotation`, `OpenNew` and `AdoptNew`), nor does the service file of
`FileTailer` (`CollectService`); its host file may.  Time passes
(`Tick`), timers and deadlines fire when due.  An HTTP request is answered or fails
within a bound: this the configuration has to provide (`timeout` of the client);
without one a request that is never answered ends with the context only.  Nothing is
assumed of Nagios, the rotation, the servers or a restart: they may stop for ever, so
every liveness property either starts from what they did or says under which lasting
state of theirs it holds.

## 4. Proofs

Each module of proofs assumes no more than the named `ASSUME` of the module it is about
(kinds of the constants: a number, a finite set, a known fault) and, where said, a premise
in the theorem itself.  The constants are otherwise arbitrary, so each theorem covers any
number of files, lines, rows, checks, executions, configurations and faults.

**`TrackedFileProofs`**

* `TypeCorrect`: `Spec => []TypeOK`.  This includes that no step reads, drains or
  closes a nil file, which is why the type invariant relates `pc` and `file`.
* `LinesInOrder`: `Spec => []InOrder`.  `InOrder` speaks of the lines handed over only
  and is not inductive: nothing in it says that the next chunk read is newer.  The
  inductive invariant `OrderInv` adds
  - `Numbered`: the chunks of a file are numbered in ascending order, up to `clock`;
  - `Fresh(clock + 1)`: everything handed over or held is older than any chunk that is
    still to be written;
  - `HeldIsLast`: the scanner's buffer is newer than everything handed over;
  - `Position`: what the place in `readNewLinesFromTracker` says of the descriptors (the
    new one is open exactly between open and adoption; `t.ino` is the inode of an open
    `t.file`; the buffer is empty outside a scan; a file is drained and closed only once
    it has left the path);
  - `RestIsFresh`: what the open file still has behind the offset, or the whole of a file
    just opened, is newer than everything handed over;
  - `NextIsFresh`: a file that has replaced the open one under the path is newer than
    everything handed over and than the open file, which Nagios has left.
  Each action preserves each conjunct it can disturb; TLC has checked `OrderInv` itself
  on the instance of `tailer_all_faults`.
* `NoLineIsLost`: `Spec => []NoLineLost`.  Besides `OrderInv` it needs one more conjunct,
  `Drained`: when a descriptor is about to be closed, what is behind its offset has been
  waived, as the drain got to the end or failed.  The hard steps are the ones that lose sight of a file:
  `CloseOld`, `AdoptNew`, `Rotate` and `Truncate`.

**`TrackedFileContractProofs`**, on the invariants of these:

* `ImplementsTheContract`: `Spec => KeepsTheContract`, under every fault.  Every step is a
  `Write`, a `Miss`, a `Deliver`, a `Waive` or a stutter of `PerfdataStream`.  `ContractInv`
  adds that no chunk is in two files (`Distinct`), that only what has been written is handed
  over or given up (`Known`), and that nothing is given up that is in hand or still read
  (`Unwaived`).  With `NoLineLost` what is pending is then exactly what was written and is
  neither handed over nor waived, and with `OrderInv` a `Return` takes the oldest of it.  That
  a token is the *set* of its chunks matters here: after a truncation the Scanner may join the
  start of an old line with a new line, across lines that are lost.  TLC has checked
  `ContractInv`, too, on the instance of `tailer_all_faults`.

**`TextProofs`** has no theorem of its own.  `Split`, `Join`, `FlattenSeq` are recursive, so
what they do to a text of any length takes induction, and a rule of induction over a property
cannot be instantiated here.  Lemma `Induction` is the rule over a *set*: if `0 \in S` and
`n + 1 \in S` whenever `n \in S` and `n < N`, then `0..N \subseteq S`.  It follows from the
natural numbers being well founded, and a property becomes the set of the numbers that have
it.  On it rest the facts that the parsers need: splitting what was joined gives the parts
back (`SplitOfJoin`), a part that holds no separator stays whole, what a text and its pieces
have in common, that trimming takes off just the ends.

**`FileTailerProofs`**

* `CheckLinesParse`: for every check, host or service, and either format,
  `ParseLine(NagiosLine(…))` is the check's `Meaning`, or nothing in the default layout without
  perfdata (violation 3, here shown to be the *only* loss).  For the default layout the parts
  of the trimmed line are the fields written.  For PNP4Nagios each key's pair is found though
  values may hold `::` and key names: the key ends at the first `::`, and no two pairs of a
  template have one key.
* `TypesKept`, `NothingIsDropped`, `EachOfItsLine`, `ResultsInOrder`: the run's invariants
  `TypeOK`, `NothingDropped`, `ResultsAreOfTheirLines`, `ReturnedInOrder`.  None of the last three is
  inductive; all follow from `TailerInv` (`TailerInvariant`):
  - `LinesInv`: in each file the lines read and the lines unread (of the open file, then of
    the one under the path) are numbered in order, the read ones before the unread ones, up to
    `written`;
  - `ResultsInv`: what is kept is the result of a line that was read; a line that was read and
    has a result is kept, or came with the service file's error; and in `returned \o results`
    the results of one file are in the order of their lines.
  A line that a check wrote has the result that `CheckLinesParse` gives it (`LineParses`).  Any
  other line, of whatever words, has none or one made of its own words (`ParsedIsOver`): what
  the parsers split, trim and look up are pieces of the line, the state is UNKNOWN or stands in
  it, the time is 0 or stands in it.  So the fragments cannot disturb what the checks' lines give.
* `NothingLeaks`: `Spec => []NoDescriptorLeak`, from "a collect runs only while the tailer is
  started".

**`NagiosScraperProofs`**

* `TypeCorrect`: with the type invariant go that executions are numbered in order, that only
  what ran is queued or collected, and `BuilderInv`: what is recorded between `Record` and
  `EmitCheck` is the result at the head of the queue.
* `EmittedOnce`: `Spec => []NeverTwice` (between two starts, as `lastSeen` is not kept) if no two checks share a key of `lastSeen`
  (`UniqueKeys`).  `lastSeen` holds one time per check only, so the invariant is about order:
  what is queued of a check is newer than what has been passed on (`GoneIsOlder`), and
  whatever is gone *and can be collected again* is what `lastSeen` holds (`GoneIsSeen`); of a
  polling source that is the latest execution, of the file source nothing.
* `NothingSkippedIsLost`: `Spec => []AllReported` under the same premise.  What `lastSeen`
  holds is a measurement that is reported or at the head of the queue (`SeenIsReported`);
  everything else that was collected is queued or reported (`Accounted`).
* `ResourcesAreUnmixed`: `Spec => []OneExecution` if an exit code is 0 to 3 and no perfdata
  poses as a state (`KnownOutcomes`), which the parsers ensure.

`UniqueKeys` is a real premise: in file mode a host and its service "Host Check" share a key
(violation 5), and the second of two results of one second is then skipped.

**`ApiClientProofs`**: `TypeCorrect`, `TakesBoundedTime` (`BeganInTime` says by when the
running request or wait began, since no wait begins that would end after the limit) and
`GivesUpInTime`: retries end with a transient error only when what is left of the limit is less
than the longest jittered wait.

**`LivestatusClientProofs`**: `TypeCorrect`; `ResultsAreRowsOfTheAnswer` and `NoRowIsSkipped` from
`Taken` (the results are the rows that parse among those the scanner has taken, and at the end
perhaps one cut in its ninth field); and
`ContextCapsIt` from `DeadlineIsCapped`.

**`PerfdataParserProofs`**

* `TypesKept`: `Spec => []TypeOK`, which includes that no token is empty and that nothing but
  the characters of numbers gets into a metric's value and bounds, whatever the text.
* `TextsAreSplit`: `Spec => []TokensAreSplit`, for every text.  `SplitInv` says the same of the
  characters read so far: `inQuote` is the parity of the quotes before `at`; `tokens` are the
  stretches that are complete, the k-th the one that begins at the k-th start; `current` is the
  stretch that is open, and empty in a gap.
* `WrittenComesBack`: `Spec => []RoundTrip`, for any measurements that fit `Measurement`.
  Lemma `TokenRoundTrip` is about one token: parsing what was written for a measurement gives
  its meaning, and fails exactly if it has no value or its unit begins like an exponent, since
  the quotes come off the label, the number ends where the unit begins, or is none any more if
  the unit goes on as a number may (`SpoiledNumber`), a semicolon within the label is before the `=`, and an omitted
  field reads as an empty one.  `WrittenInv` is about the text: the written measurements lie
  in it one after the other with a gap between them (`Laid`); the tokenizer stands at some place
  of some measurement, with just the beginning of it in `current` and the ones before it in
  `tokens`, and inside a quote exactly if this place of the measurement is (`Stands`); then
  the tokens are what was written (`Writes`) and `metrics` the meanings of the ones parsed.
  TLC has checked `WrittenInv` itself on the instance of `perfdata`.

**Only model-checked** are the liveness properties, which are beyond the prover: `CatchesUp`,
`EventuallyDelivered`, `ServiceLinesReturned`, `LatestIsReported`, `CollectReturns`,
`CancelEndsCollect`, `CollectEnds`.  Every other property of a passing run, each invariant and
the refinement, is a theorem.

## 5. Not modelled, and why

* Log messages, the wording of errors, the values of floating-point numbers, counts of the
  builder's capacities, `Reset` and the builder's options, which the receiver does not call.
* What `confmap` does to read a configuration, and the registration of the receiver type:
  calls into the collector.
* That the API is asked for services only, basic auth, TLS, HTTP and socket transport: in
  libraries, or without a decision.
* What the API says of a check that has not run yet (the pending bit, last_check 0) and status
  bits that its table lacks.  The code makes UNKNOWN of both, and emits the former in every
  scrape; the results of `NagiosScraper` are those of executions, which have one of four states.
* Descriptors that would be lost in a rotation: `FileTailer` has one descriptor per tracker, the
  one in `t.file`; that a rotation closes the old before it stores the new is in `TrackedFile`.
* Growth of `lastSeen`: nothing is ever removed from it.  A model with a fixed set of checks
  bounds the map, and there is no state in which this becomes wrong.
* A request that is never answered and has no client timeout: it ends with the context only,
  which is what a missing timeout means.
* One model of the receiver with the insides of all three sources: the interleavings of a
  source with its environment end with its collect, which returns a value; what scrape makes
  of every such value is in `NagiosScraper`, and the product would only multiply states.

## 6. Plan

Done, most important first: `TrackedFile` with its contract, `FileTailer` with the line
parsers, `NagiosScraper` on `MetricsBuilder` and `ReceiverConfig`, `ApiClient`,
`LivestatusClient`, `PerfdataParser`; the proofs of section 4.

What could follow: a proof that the lines of one file keep their numbers'
order from `TrackedFile` through `collect` (for parsers that return at most one result per
line); the `Deliver`-once contract of `NagiosScraper` as an abstract specification of its own.
