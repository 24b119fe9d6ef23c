---------------------------- MODULE TrackedFile ----------------------------
(***************************************************************************)
(* One tailed perfdata file: the trackedFile of file_tailer.go, the        *)
(* functions that read it (initTracker, readNewLinesFromTracker,           *)
(* checkRotation, openAndGetInode, readLines), and the file system, Nagios *)
(* and log rotation they run against.  Every system call is a step of its  *)
(* own, so writes and rotations happen between any two of them.            *)
(*                                                                         *)
(* Nagios appends CHUNKS, numbered in the order they are written.  A chunk *)
(* is a whole line, the start of a line whose rest follows in a second     *)
(* write, that rest, or the first 64 KiB of a line longer than bufio's     *)
(* token limit (its remainder is again a "rest").                          *)
(***************************************************************************)
EXTENDS Naturals, Sequences

CONSTANTS
    Inodes,     \* the inode numbers of the file system, reused when free
    NoFile,     \* a nil *os.File, or a path that names no file (ENOENT)
    MaxChunk,   \* bound: the number of chunks Nagios writes
    Faults      \* what the environment may do, a subset of AllFaults

AllFaults ==
    {"split",       \* a line reaches the file in two writes
     "huge",        \* a line exceeds bufio.MaxScanTokenSize
     "lateWriter",  \* the file is renamed while Nagios has it open
     "truncate",    \* copytruncate: the file is emptied in place
     "readErr",     \* read(2) fails
     "statErr",     \* stat(2) of the path fails, not with ENOENT
     "openErr",     \* open(2) fails, not with ENOENT; or fstat(2), lseek(2) do
     "crash"}       \* the collector is killed at any point

ASSUME TrackedFileAssumption ==
    /\ NoFile \notin Inodes
    /\ MaxChunk \in Nat
    /\ Faults \subseteq AllFaults

VARIABLES
    \* The environment
    path,       \* the inode t.path names
    data,       \* the content of each inode
    archived,   \* inodes linked under a rotated name
    writer,     \* the inode Nagios has open for appending
    mid,        \* Nagios is between the two writes of one line
    clock,      \* the number of chunks written so far
    \* The tracker
    pc,         \* where the goroutine is
    file,       \* t.file
    ino,        \* t.ino
    off,        \* the file offset of t.file, in chunks
    fd,         \* the *os.File os.Open returned, not yet in t.file
    held,       \* the scanner's buffer: the chunks of an unterminated line
    lines,      \* allLines of the running call
    out,        \* every line returned to collect so far
    \* History
    waived      \* the chunks that are lost, each for a cause named where it is added

fsVars == <<path, data, archived, writer, mid, clock>>
fdVars == <<file, ino, off, fd>>
vars == <<path, data, archived, writer, mid, clock,
          pc, file, ino, off, fd, held, lines, out, waived>>

Kinds == {"line", "start", "rest", "huge"}
Chunk == [id : Nat, kind : Kinds]

\* What Scanner.Text() returns: the chunks it is made of, and whether they are
\* exactly one line of the file.
Token == [of : (SUBSET Nat) \ {{}}, whole : BOOLEAN]

Down == {"stopped", "init", "seek"}
Scanning == {"read", "drain", "readNew"}
Locations == Down \cup Scanning
                  \cup {"idle", "stat", "close", "open", "fstat", "return"}

IdsOf(chunks) == {chunks[k].id : k \in DOMAIN chunks}
IdsFrom(i, k) == {data[i][j].id : j \in (k + 1)..Len(data[i])}

-----------------------------------------------------------------------------
(***************************************************************************)
(* The environment: Nagios appends in mode "a", log rotation renames.      *)
(***************************************************************************)
\* An inode number is reused once no name and no open descriptor pins it.
Free(i) == i \notin archived \cup {path, writer, file, fd}

CreateAt(i) ==
    /\ Free(i)
    /\ path' = i
    /\ data' = [data EXCEPT ![i] = <<>>]

NagiosOpens ==
    /\ writer = NoFile
    /\ IF path = NoFile
         THEN \E i \in Inodes : CreateAt(i) /\ writer' = i
         ELSE writer' = path /\ UNCHANGED <<path, data>>
    /\ UNCHANGED <<archived, mid, clock, pc, fdVars, held, lines, out, waived>>

NagiosCloses ==
    /\ writer # NoFile /\ ~mid
    /\ writer' = NoFile
    /\ UNCHANGED <<path, data, archived, mid, clock,
                   pc, fdVars, held, lines, out, waived>>

Append1(kind) ==
    /\ clock < MaxChunk
    /\ data' = [data EXCEPT ![writer] =
                  Append(@, [id |-> clock + 1, kind |-> kind])]
    /\ clock' = clock + 1

\* What a late writer appends to a file the tailer has finished with or never
\* opened, or below its offset after a truncation, no read returns.
OutOfReach ==
    \/ writer \notin {path, file, fd}
    \/ writer = file /\ (pc = "close" \/ Len(data[file]) < off)

NagiosWrites ==
    /\ writer # NoFile
    /\ \/ ~mid /\ Append1("line") /\ mid' = FALSE
       \/ ~mid /\ "split" \in Faults /\ Append1("start") /\ mid' = TRUE
       \/ ~mid /\ "huge" \in Faults /\ Append1("huge") /\ mid' = TRUE
       \/ mid /\ Append1("rest") /\ mid' = FALSE
    /\ waived' = IF OutOfReach THEN waived \cup {clock + 1} ELSE waived
    /\ UNCHANGED <<path, archived, writer, pc, fdVars, held, lines, out>>

\* Nagios closes its perfdata file before it runs the processing command that
\* renames it; a "lateWriter" rotation does not wait for that.  The lines of a
\* file that is renamed before the tailer has opened it are out of its reach.
Rotate ==
    /\ path # NoFile
    /\ writer = NoFile \/ "lateWriter" \in Faults
    /\ archived' = archived \cup {path}
    /\ path' = NoFile
    /\ waived' = IF path \in {file, fd} THEN waived
                 ELSE waived \cup IdsOf(data[path])
    /\ UNCHANGED <<data, writer, mid, clock, pc, fdVars, held, lines, out>>

\* The rotating program creates the next file itself, empty.
RotatorCreates ==
    /\ path = NoFile
    /\ \E i \in Inodes : CreateAt(i)
    /\ UNCHANGED <<archived, writer, mid, clock,
                   pc, fdVars, held, lines, out, waived>>

PurgeArchive ==
    /\ \E i \in archived : archived' = archived \ {i}
    /\ UNCHANGED <<path, data, writer, mid, clock,
                   pc, fdVars, held, lines, out, waived>>

\* What the tailer has read of the file is in its hands, the rest is lost.
Truncate ==
    /\ "truncate" \in Faults
    /\ path # NoFile
    /\ data' = [data EXCEPT ![path] = <<>>]
    /\ waived' = waived \cup IdsFrom(path, IF path = file THEN off ELSE 0)
    /\ UNCHANGED <<path, archived, writer, mid, clock,
                   pc, fdVars, held, lines, out>>

Environment ==
    \/ NagiosOpens \/ NagiosCloses \/ NagiosWrites
    \/ Rotate \/ RotatorCreates \/ PurgeArchive \/ Truncate

-----------------------------------------------------------------------------
(***************************************************************************)
(* openAndGetInode and checkRotation.                                      *)
(***************************************************************************)
\* Mutant: os.Stat(path) after os.Open(path).
InodeOfThePath(f) == path

\* file.Stat() of the open descriptor, not of the path.
InodeOf(f) == f

\* Mutant: checkRotation without the test for t.file == nil.
RotatedOnlyIfOpen ==
    /\ file # NoFile
    /\ path # ino

\* checkRotation when stat succeeds or says ENOENT.
Rotated ==
    \/ path = NoFile /\ file # NoFile
    \/ path # NoFile /\ (file = NoFile \/ path # ino)

(***************************************************************************)
(* start: initTracker.                                                     *)
(***************************************************************************)
Start ==
    /\ pc = "stopped"
    /\ pc' = "init"
    /\ UNCHANGED <<fsVars, fdVars, held, lines, out, waived>>

\* A missing file is not an error: the tailer waits for it.
InitOpen ==
    /\ pc = "init"
    /\ fd' = path
    /\ pc' = IF path = NoFile THEN "idle" ELSE "seek"
    /\ UNCHANGED <<fsVars, file, ino, off, held, lines, out, waived>>

InitOpenFails ==
    /\ "openErr" \in Faults
    /\ pc = "init"
    /\ pc' = "stopped"
    /\ UNCHANGED <<fsVars, fdVars, held, lines, out, waived>>

\* What goes with a descriptor that is closed unread: the path still leads to
\* its file, or names another by now.
Forgone(f) == IF f = path THEN {} ELSE IdsOf(data[f])

\* The file is open, but it has no inode to be had or the seek fails.
InitSeekFails ==
    /\ "openErr" \in Faults
    /\ pc = "seek"
    /\ fd' = NoFile
    /\ waived' = waived \cup Forgone(fd)
    /\ pc' = "stopped"
    /\ UNCHANGED <<fsVars, file, ino, off, held, lines, out>>

\* Mutant: initTracker without the seek.
StartAtZero(f) == 0

\* The offset initTracker leaves the descriptor at.
StartOffset(f) == Len(data[f])

InitSeek ==
    /\ pc = "seek"
    /\ file' = fd
    /\ ino' = InodeOf(fd)
    /\ off' = StartOffset(fd)
    /\ fd' = NoFile
    /\ waived' = waived \cup IdsOf(data[fd])
    /\ pc' = "idle"
    /\ UNCHANGED <<fsVars, held, lines, out>>

-----------------------------------------------------------------------------
(***************************************************************************)
(* readLines: a bufio.Scanner over t.file, one chunk per step.             *)
(***************************************************************************)
\* Where readNewLinesFromTracker continues after each of its readLines.
AfterScan ==
    CASE pc = "read" -> "stat"
      [] pc = "drain" -> "close"
      [] pc = "readNew" -> "return"

NextChunk == data[file][off + 1]

\* The token that chunk c, which ends in a newline, completes.
Completed(c) ==
    [of |-> held \cup {c.id},
     whole |-> \/ c.kind = "line" /\ held = {}
               \/ c.kind = "rest" /\ held = {c.id - 1}]

\* A newline is in the buffer: Scan returns the text before it.
ScanLine ==
    /\ pc \in Scanning /\ off < Len(data[file])
    /\ NextChunk.kind \in {"line", "rest"}
    /\ lines' = Append(lines, Completed(NextChunk))
    /\ held' = {}
    /\ off' = off + 1
    /\ UNCHANGED <<fsVars, pc, file, ino, fd, out, waived>>

\* No newline yet: the scanner keeps the data and reads again.
ScanMore ==
    /\ pc \in Scanning /\ off < Len(data[file])
    /\ NextChunk.kind = "start"
    /\ held' = held \cup {NextChunk.id}
    /\ off' = off + 1
    /\ UNCHANGED <<fsVars, pc, file, ino, fd, lines, out, waived>>

\* What a drain leaves unread behind offset k goes with the descriptor.
CutOff(k) == IF pc = "drain" THEN IdsFrom(file, k) ELSE {}

\* ErrTooLong: the full buffer is dropped and the scan ends.
ScanTooLong ==
    /\ pc \in Scanning /\ off < Len(data[file])
    /\ NextChunk.kind = "huge"
    /\ held' = {}
    /\ off' = off + 1
    /\ pc' = AfterScan
    /\ waived' = waived \cup held \cup {NextChunk.id} \cup CutOff(off + 1)
    /\ UNCHANGED <<fsVars, file, ino, fd, lines, out>>

\* Mutant: a reader that waits for the newline and forgets the start.
NoRemainder == <<>>

\* ScanLines returns the last, unterminated line of its input as a token.
Remainder ==
    IF held = {} THEN <<>> ELSE <<[of |-> held, whole |-> FALSE]>>

\* read(2) returns 0 at the end of the file, or fails anywhere.
ScanEnds ==
    /\ pc \in Scanning
    /\ off >= Len(data[file]) \/ "readErr" \in Faults
    /\ lines' = lines \o Remainder
    /\ held' = {}
    /\ pc' = AfterScan
    /\ waived' = waived \cup CutOff(off)
    /\ UNCHANGED <<fsVars, fdVars, out>>

-----------------------------------------------------------------------------
(***************************************************************************)
(* readNewLinesFromTracker.                                                *)
(***************************************************************************)
Collect ==
    /\ pc = "idle"
    /\ pc' = IF file # NoFile THEN "read" ELSE "stat"
    /\ UNCHANGED <<fsVars, fdVars, held, lines, out, waived>>

\* Mutants: readNewLinesFromTracker that does not drain, or drains nil.
CloseWithoutDrain == IF file # NoFile THEN "close" ELSE "open"
AlwaysDrain == "drain"

\* Where a rotation leads when a descriptor is open: drain it first.
AfterRotation == IF file # NoFile THEN "drain" ELSE "open"

CheckRotation ==
    /\ pc = "stat"
    /\ pc' = IF Rotated THEN AfterRotation ELSE "return"
    /\ UNCHANGED <<fsVars, fdVars, held, lines, out, waived>>

CheckRotationFails ==
    /\ "statErr" \in Faults
    /\ pc = "stat"
    /\ pc' = "return"
    /\ UNCHANGED <<fsVars, fdVars, held, lines, out, waived>>

\* t.file.Close(); t.file = nil.  t.ino keeps its value.
CloseOld ==
    /\ pc = "close"
    /\ file' = NoFile
    /\ off' = 0
    /\ pc' = "open"
    /\ UNCHANGED <<fsVars, ino, fd, held, lines, out, waived>>

OpenNew ==
    /\ pc = "open"
    /\ fd' = path
    /\ pc' = IF path = NoFile THEN "return" ELSE "fstat"
    /\ UNCHANGED <<fsVars, file, ino, off, held, lines, out, waived>>

\* The caller gets the lines read so far together with the error.
OpenNewFails ==
    /\ "openErr" \in Faults
    /\ pc = "open"
    /\ pc' = "return"
    /\ UNCHANGED <<fsVars, fdVars, held, lines, out, waived>>

\* The new file is open, but its inode is not to be had: it is closed again, and
\* a rotation in between has put its lines out of reach.
FstatFails ==
    /\ "openErr" \in Faults
    /\ pc = "fstat"
    /\ fd' = NoFile
    /\ waived' = waived \cup Forgone(fd)
    /\ pc' = "return"
    /\ UNCHANGED <<fsVars, file, ino, off, held, lines, out>>

AdoptNew ==
    /\ pc = "fstat"
    /\ file' = fd
    /\ ino' = InodeOf(fd)
    /\ off' = 0
    /\ fd' = NoFile
    /\ pc' = "readNew"
    /\ UNCHANGED <<fsVars, held, lines, out, waived>>

Return ==
    /\ pc = "return"
    /\ out' = out \o lines
    /\ lines' = <<>>
    /\ pc' = "idle"
    /\ UNCHANGED <<fsVars, fdVars, held, waived>>

\* shutdown comes between two collects, a crash at any point.  Neither leaves
\* anything behind: a new process has a new tailer, which keeps no position.
Stop ==
    /\ pc = "idle" \/ ("crash" \in Faults /\ pc # "stopped")
    /\ pc' = "stopped"
    /\ file' = NoFile
    /\ ino' = NoFile
    /\ off' = 0
    /\ fd' = NoFile
    /\ held' = {}
    /\ lines' = <<>>
    /\ waived' = waived \cup 1..clock
    /\ UNCHANGED <<fsVars, out>>

Starting == Start \/ InitOpen \/ InitOpenFails \/ InitSeek \/ InitSeekFails
ReadLines == ScanLine \/ ScanMore \/ ScanTooLong \/ ScanEnds
ReadNewLines ==
    \/ ReadLines
    \/ CheckRotation \/ CheckRotationFails
    \/ CloseOld \/ OpenNew \/ OpenNewFails \/ FstatFails \/ AdoptNew
    \/ Return
Tracker == Starting \/ Collect \/ ReadNewLines \/ Stop

Init ==
    /\ path = NoFile
    /\ data = [i \in Inodes |-> <<>>]
    /\ archived = {}
    /\ writer = NoFile
    /\ mid = FALSE
    /\ clock = 0
    /\ pc = "stopped"
    /\ file = NoFile
    /\ ino = NoFile
    /\ off = 0
    /\ fd = NoFile
    /\ held = {}
    /\ lines = <<>>
    /\ out = <<>>
    /\ waived = {}

Next == Environment \/ Tracker

Spec == Init /\ [][Next]_vars

\* The controller's ticker calls scrape again and again; each call runs to its
\* end, and so does start.  A stat, an open or an fstat that is tried again and
\* again does not fail for ever.  Nothing is assumed of Nagios, of the rotation or of a
\* restart.
FairSpec ==
    /\ Spec
    /\ WF_vars(InitOpen \/ InitSeek \/ Collect \/ ReadNewLines)
    /\ SF_vars(CheckRotation) /\ SF_vars(OpenNew) /\ SF_vars(AdoptNew)

-----------------------------------------------------------------------------
(***************************************************************************)
(* Properties.                                                             *)
(***************************************************************************)
InodeOrNone == Inodes \cup {NoFile}

\* Every variable has its type, and the goroutine never reads, drains or
\* closes a nil *os.File (readLines, t.file.Close).
TypeOK ==
    /\ path \in InodeOrNone
    /\ data \in [Inodes -> Seq(Chunk)]
    /\ archived \in SUBSET Inodes
    /\ writer \in InodeOrNone
    /\ mid \in BOOLEAN
    /\ clock \in 0..MaxChunk
    /\ pc \in Locations
    /\ file \in InodeOrNone
    /\ ino \in InodeOrNone
    /\ off \in Nat
    /\ fd \in InodeOrNone
    /\ held \subseteq Nat
    /\ lines \in Seq(Token)
    /\ out \in Seq(Token)
    /\ waived \subseteq Nat
    /\ pc \in Scanning \cup {"close"} => file # NoFile
    /\ pc \in {"seek", "fstat"} => fd # NoFile

\* Everything handed over so far, the lines of the running call included.
Handed == out \o lines

\* The scraper sees the file's lines once and in the order Nagios wrote them,
\* however rotations, reads, failed calls and restarts interleave
\* (readNewLinesFromTracker).
InOrder ==
    \A i, j \in DOMAIN Handed :
        i < j => \A m \in Handed[i].of, n \in Handed[j].of : m < n

Covered(tokens) == UNION {tokens[k].of : k \in DOMAIN tokens}

\* What the running or the next call of readNewLinesFromTracker still reads.
Readable ==
    (IF file # NoFile THEN IdsFrom(file, off) ELSE {})
    \cup (IF fd # NoFile THEN IdsFrom(fd, 0) ELSE {})
    \cup (IF path \notin {NoFile, file, fd} THEN IdsFrom(path, 0) ELSE {})
InHand == Covered(lines) \cup held

\* "reads any new data from a tracked file, handles rotation detection": what
\* was written is handed over, being handed over or still within reach, whatever
\* fails and however the rotation interleaves, except what was written while no
\* tailer ran, to a file that was renamed or truncated before a read reached it,
\* and what a drain that failed or a line beyond 64 KiB cut off.  A rotation
\* between the read and the stat, or a failing stat or open, loses nothing; a
\* failing fstat only what is in a file renamed since it was opened.
NoLineLost ==
    1..clock \subseteq waived \cup Covered(out) \cup InHand \cup Readable

\* "returns all new complete lines" (the comment of readNewLinesFromTracker):
\* every string handed over is one whole line.
OnlyCompleteLines == \A k \in DOMAIN out : out[k].whole

\* The tailer keeps the contract of PerfdataStream.
Stream == INSTANCE PerfdataStream WITH
    written <- clock,
    pending <- (InHand \cup Readable) \ (waived \cup Covered(out)),
    delivered <- Covered(out),
    waived <- waived \ Covered(out)
KeepsTheContract == Stream!StreamSpec

\* Once a file stays under the tracked path and the tailer runs on, the tailer
\* opens exactly that file and reads it to its end, whatever was rotated before.
CatchesUp ==
    \A i \in Inodes :
        <>[](path = i /\ pc # "stopped") =>
            <>[](file = i /\ off = Len(data[i]))

\* Once the tailer is started everything written is handed over in the end,
\* also the lines Nagios wrote to a file that has been renamed meanwhile, and
\* though stat, open and fstat fail for a while.
EventuallyDelivered ==
    \A n \in 1..MaxChunk :
        (n <= clock /\ pc \notin Down) ~>
            (n \in waived \cup Covered(out))
=============================================================================
