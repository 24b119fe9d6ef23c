--------------------- MODULE TrackedFileContractProofs ---------------------
(***************************************************************************)
(* That TrackedFile implements the contract of PerfdataStream, for any set *)
(* of inodes, any number of chunks and any set of faults.                  *)
(***************************************************************************)
EXTENDS TrackedFileProofs

USE TrackedFileAssumption

\* What is waived, handed over, or about to be, has been written.
Known == waived \cup Covered(out) \cup Covered(lines) \cup held \subseteq 1..clock

\* No chunk is in two files.
Distinct ==
    \A i, j \in Inodes : i # j => IdsFrom(i, 0) \cap IdsFrom(j, 0) = {}

NothingYet == pc \in Down \cup {"idle"} => lines = <<>>

\* Nothing is waived that the tailer has read or still reads.
Unwaived ==
    /\ Covered(lines) \cap waived = {}
    /\ held \cap waived = {}
    /\ file # NoFile /\ pc # "close" => IdsFrom(file, off) \cap waived = {}
    /\ pc = "fstat" => IdsFrom(fd, 0) \cap waived = {}
    /\ pc \notin {"stopped", "init"} /\ path \notin {NoFile, file, fd} =>
           IdsFrom(path, 0) \cap waived = {}

ContractInv == Known /\ Distinct /\ NothingYet /\ Unwaived

-----------------------------------------------------------------------------
(***************************************************************************)
(* The sets of chunks.                                                     *)
(***************************************************************************)
\* What is behind an offset is in the file, and has been written.
LEMMA FromFile ==
    ASSUME OrderInv, NEW i \in Inodes, NEW k \in Nat
    PROVE  IdsFrom(i, k) \subseteq IdsFrom(i, 0) /\ IdsFrom(i, 0) \subseteq 1..clock
<1>1. TypeOK /\ Numbered
  BY DEF OrderInv
<1>2. \A j \in (k + 1)..Len(data[i]) : j \in (0 + 1)..Len(data[i])
  BY <1>1, DataType
<1>3. \A j \in (0 + 1)..Len(data[i]) : data[i][j].id \in 1..clock
  BY <1>1, DataType DEF Numbered
<1> QED
  BY <1>2, <1>3 DEF IdsFrom

\* What the tailer holds is older than what it has still to read.
LEMMA HandIsOlder ==
    ASSUME OrderInv, NEW n \in Nat, Fresh(n)
    PROVE  \A m \in Covered(out) \cup Covered(lines) \cup held : m \in Nat /\ m < n
<1>1. TypeOK /\ Covered(Handed) = Covered(out) \cup Covered(lines)
  BY Types, CoveredParts DEF OrderInv, Handed
<1> QED
  BY <1>1, HandedType DEF Fresh

\* The buffer is none of the lines.
LEMMA BufferIsApart ==
    ASSUME OrderInv
    PROVE  Covered(lines) \cap held = {}
<1>1. TypeOK /\ HeldIsLast /\ Covered(lines) \subseteq Covered(Handed)
  BY Types, CoveredParts DEF OrderInv, Handed
<1>2. \A m \in Covered(Handed) \cup held : m \in Nat
  BY <1>1, HandedType
<1> QED
  BY <1>1, <1>2 DEF HeldIsLast

\* What is still to be read is new, behind the offset, in a file just opened,
\* and in the file now under the path.
LEMMA UnreadIsFresh ==
    ASSUME OrderInv
    PROVE  /\ file # NoFile => \A n \in IdsFrom(file, off) : n \in Nat /\ Fresh(n)
           /\ pc \notin {"stopped", "init"} /\ path \notin {NoFile, file, fd} =>
                  \A n \in IdsFrom(path, 0) : n \in Nat /\ Fresh(n)
<1>1. TypeOK /\ RestIsFresh /\ NextIsFresh
  BY DEF OrderInv
<1>2. ASSUME file # NoFile, NEW n \in IdsFrom(file, off)
      PROVE  n \in Nat /\ Fresh(n)
  <2>1. file \in Inodes /\ off \in Nat
    BY <1>2, Types
  <2>2. PICK j \in (off + 1)..Len(data[file]) : n = data[file][j].id
    BY <1>2 DEF IdsFrom
  <2>3. j \in DOMAIN data[file] /\ j > off
    BY <1>1, <2>1, DataType
  <2> QED
    BY <1>1, <1>2, <2>1, <2>2, <2>3, DataType DEF RestIsFresh
<1>3. ASSUME pc \notin {"stopped", "init"}, path \notin {NoFile, file, fd},
             NEW n \in IdsFrom(path, 0)
      PROVE  n \in Nat /\ Fresh(n)
  <2>1. path \in Inodes /\ path # Current
    BY <1>3, Types DEF Current
  <2>2. PICK j \in (0 + 1)..Len(data[path]) : n = data[path][j].id
    BY <1>3 DEF IdsFrom
  <2>3. j \in DOMAIN data[path]
    BY <1>1, <2>1, DataType
  <2> QED
    BY <1>1, <1>3, <2>1, <2>2, <2>3, DataType DEF NextIsFresh
<1> QED
  BY <1>2, <1>3

-----------------------------------------------------------------------------
(***************************************************************************)
(* What the files hold.                                                    *)
(***************************************************************************)
LEMMA DataCreateAt ==
    ASSUME OrderInv, Distinct, NEW i \in Inodes, CreateAt(i)
    PROVE  Distinct'
<1>1. /\ data'[i] = <<>>
      /\ \A j \in Inodes : j # i => data'[j] = data[j]
  BY DEF CreateAt, OrderInv, TypeOK
<1>2. IdsFrom(i, 0)' = {}
  <2>1. (0 + 1)..Len(data'[i]) = {}
    BY <1>1
  <2> QED
    BY <2>1 DEF IdsFrom
<1>3. \A j \in Inodes : j # i => IdsFrom(j, 0)' = IdsFrom(j, 0)
  BY <1>1 DEF IdsFrom
<1> QED
  BY <1>2, <1>3 DEF Distinct

LEMMA DataNagiosWrites ==
    ASSUME OrderInv, Distinct, NagiosWrites
    PROVE  Distinct'
<1>1. PICK kind \in Kinds : Append1(kind)
  BY DEF NagiosWrites, Kinds
<1> DEFINE c == [id |-> clock + 1, kind |-> kind]
<1>2. /\ TypeOK /\ Numbered /\ writer \in Inodes /\ writer' = writer
      /\ clock \in Nat /\ clock' = clock + 1 /\ c \in Chunk
  <2>1. TypeOK /\ Numbered /\ clock \in Nat
    BY Types DEF OrderInv
  <2>2. writer \in Inodes /\ writer' = writer
    BY <2>1 DEF NagiosWrites, TypeOK, InodeOrNone
  <2>3. clock' = clock + 1
    BY <1>1 DEF Append1
  <2>4. c \in Chunk
    BY <2>1 DEF Chunk
  <2> QED
    BY <2>1, <2>2, <2>3, <2>4
<1>3. /\ data'[writer] = Append(data[writer], c)
      /\ \A i \in Inodes : i # writer => data'[i] = data[i]
  BY <1>1, <1>2 DEF Append1, TypeOK
<1>4. /\ Len(data'[writer]) = Len(data[writer]) + 1
      /\ DOMAIN data'[writer] = 1..(Len(data[writer]) + 1)
      /\ data'[writer][Len(data[writer]) + 1] = c
      /\ \A k \in 1..Len(data[writer]) : data'[writer][k] = data[writer][k]
      /\ Len(data[writer]) \in Nat
  <2>1. data[writer] \in Seq(Chunk)
    BY <1>2 DEF TypeOK
  <2> HIDE DEF c
  <2> QED
    BY <1>2, <1>3, <2>1
<1>5. c.id = clock + 1
  OBVIOUS
<1> HIDE DEF c
<1>6. IdsFrom(writer, 0)' \subseteq IdsFrom(writer, 0) \cup {clock + 1}
  <2>1. \A k \in (0 + 1)..Len(data'[writer]) :
            \/ k \in (0 + 1)..Len(data[writer]) /\ data'[writer][k] = data[writer][k]
            \/ data'[writer][k].id = clock + 1
    BY <1>4, <1>5
  <2> QED
    BY <1>2, <2>1 DEF IdsFrom
<1>7. \A i \in Inodes : i # writer => IdsFrom(i, 0)' = IdsFrom(i, 0)
  BY <1>3 DEF IdsFrom
<1>8. \A i \in Inodes : clock + 1 \notin IdsFrom(i, 0)
  BY <1>2, FromFile
<1> QED
  BY <1>2, <1>6, <1>7, <1>8 DEF Distinct

\* Only Nagios and the rotation change what the files hold.
LEMMA DataNext ==
    ASSUME OrderInv, Distinct, Next
    PROVE  Distinct'
<1>1. CASE NagiosOpens
  <2>1. CASE path = NoFile
    BY <1>1, <2>1, DataCreateAt DEF NagiosOpens
  <2>2. CASE path # NoFile
    BY <1>1, <2>2, FromSame DEF NagiosOpens, Distinct
  <2> QED
    BY <2>1, <2>2
<1>2. CASE NagiosWrites
  BY <1>2, DataNagiosWrites
<1>3. CASE RotatorCreates
  BY <1>3, DataCreateAt DEF RotatorCreates
<1>4. CASE Truncate
  <2>1. path \in Inodes /\ TypeOK /\ data' = [data EXCEPT ![path] = <<>>]
    BY <1>4, Types DEF Truncate, OrderInv
  <2>2. \A i \in Inodes : IdsFrom(i, 0)' = IF i = path THEN {} ELSE IdsFrom(i, 0)
    BY <2>1, FromTruncated
  <2> QED
    BY <2>2 DEF Distinct
<1>5. CASE NagiosCloses \/ Rotate \/ PurgeArchive \/ Tracker
  <2>1. UNCHANGED data
    BY <1>5 DEF NagiosCloses, Rotate, PurgeArchive, Tracker, Starting, Start, InitOpen,
                InitOpenFails, InitSeek, InitSeekFails, Collect, ReadNewLines, ReadLines,
                ScanLine, ScanMore, ScanTooLong, ScanEnds, CheckRotation, CheckRotationFails,
                CloseOld, OpenNew, OpenNewFails, FstatFails, AdoptNew, Return, Stop, fsVars
  <2> QED
    BY <2>1, FromSame DEF Distinct
<1> QED
  BY <1>1, <1>2, <1>3, <1>4, <1>5 DEF Next, Environment

-----------------------------------------------------------------------------
(***************************************************************************)
(* What the tailer holds.                                                  *)
(***************************************************************************)
\* The next chunk read, as the file holds it.
LEMMA NextInFile ==
    ASSUME OrderInv, pc \in Scanning, off < Len(data[file])
    PROVE  /\ file \in Inodes /\ file # NoFile /\ off \in Nat
           /\ off + 1 \in DOMAIN data[file]
           /\ NextChunk \in Chunk /\ NextChunk.id \in 1..clock
           /\ NextChunk.id \in IdsFrom(file, off)
           /\ \A n \in IdsFrom(file, off + 1) : NextChunk.id < n
<1>1. TypeOK /\ Numbered
  BY DEF OrderInv
<1>2. file \in Inodes /\ file # NoFile /\ off \in Nat
  BY <1>1, Types DEF Scanning, TypeOK
<1>3. /\ off + 1 \in (off + 1)..Len(data[file])
      /\ off + 1 \in DOMAIN data[file]
      /\ \A j \in (off + 1 + 1)..Len(data[file]) : j \in DOMAIN data[file] /\ off + 1 < j
  BY <1>1, <1>2, DataType
<1>4. NextChunk \in Chunk /\ NextChunk.id \in 1..clock
  BY <1>1, <1>2, <1>3, NextChunkType DEF Numbered, NextChunk
<1>5. NextChunk.id \in IdsFrom(file, off)
  BY <1>3 DEF IdsFrom, NextChunk
<1>6. \A n \in IdsFrom(file, off + 1) : NextChunk.id < n
  BY <1>1, <1>2, <1>3 DEF IdsFrom, NextChunk, Numbered
<1> QED
  BY <1>2, <1>3, <1>4, <1>5, <1>6

\* lines is empty outside a call of readNewLinesFromTracker.
LEMMA NothingYetNext ==
    ASSUME NothingYet, Next
    PROVE  NothingYet'
<1>1. CASE Environment
  BY <1>1 DEF NothingYet, Environment, NagiosOpens, NagiosCloses, NagiosWrites, Rotate,
              RotatorCreates, PurgeArchive, Truncate
<1>2. CASE ReadLines
  BY <1>2 DEF ReadLines, ScanLine, ScanMore, ScanTooLong, ScanEnds, AfterScan, NothingYet,
              Scanning, Down
<1>3. CASE Return \/ Stop
  BY <1>3 DEF Return, Stop, NothingYet
<1>4. CASE \/ Starting \/ Collect \/ CheckRotation \/ CheckRotationFails \/ CloseOld
           \/ OpenNew \/ OpenNewFails \/ FstatFails \/ AdoptNew
  <2>1. UNCHANGED lines /\ (pc' \in Down \cup {"idle"} => pc \in Down)
    BY <1>4 DEF Starting, Start, InitOpen, InitOpenFails, InitSeek, InitSeekFails, Collect,
                CheckRotation, CheckRotationFails, AfterRotation, CloseOld, OpenNew,
                OpenNewFails, FstatFails, AdoptNew, Down
  <2> QED
    BY <2>1 DEF NothingYet
<1> QED
  BY <1>1, <1>2, <1>3, <1>4 DEF Next, Tracker, ReadNewLines

-----------------------------------------------------------------------------
(***************************************************************************)
(* What is given up.                                                       *)
(***************************************************************************)
LEMMA UnwaivedCreateAt ==
    ASSUME OrderInv, Known, Unwaived, NEW i \in Inodes, CreateAt(i),
           UNCHANGED <<clock, pc, file, off, fd, held, lines, out, waived>>
    PROVE  (Known /\ Unwaived)'
<1>1. i \notin {file, fd} /\ path' = i
  BY DEF CreateAt, Free
<1>2. /\ data'[i] = <<>>
      /\ \A j \in Inodes : j # i => data'[j] = data[j]
  BY DEF CreateAt, OrderInv, TypeOK
<1>3. \A j \in Inodes, k \in Nat : j # i => IdsFrom(j, k)' = IdsFrom(j, k)
  BY <1>2 DEF IdsFrom
<1>4. IdsFrom(i, 0)' = {}
  <2>1. (0 + 1)..Len(data'[i]) = {}
    BY <1>2
  <2> QED
    BY <2>1 DEF IdsFrom
<1>5. /\ file # NoFile => IdsFrom(file, off)' = IdsFrom(file, off)
      /\ pc = "fstat" => IdsFrom(fd, 0)' = IdsFrom(fd, 0)
  BY <1>1, <1>3, Types
<1> QED
  BY <1>1, <1>4, <1>5 DEF Known, Unwaived, Covered

LEMMA UnwaivedNagiosWrites ==
    ASSUME OrderInv, Known, Unwaived, Drained, NagiosWrites
    PROVE  (Known /\ Unwaived)'
<1>1. PICK kind \in Kinds : Append1(kind)
  BY DEF NagiosWrites, Kinds
<1> DEFINE c == [id |-> clock + 1, kind |-> kind]
<1>2. TypeOK /\ writer \in Inodes /\ clock \in Nat /\ c \in Chunk
  <2>1. TypeOK /\ clock \in Nat
    BY Types DEF OrderInv
  <2>2. writer \in Inodes
    BY <2>1 DEF NagiosWrites, TypeOK, InodeOrNone
  <2>3. c \in Chunk
    BY <2>1 DEF Chunk
  <2> QED
    BY <2>1, <2>2, <2>3
<1>3. data'[writer] = Append(data[writer], c) /\ clock' = clock + 1
  BY <1>1, <1>2 DEF Append1, TypeOK
<1>4. \A i \in Inodes : i # writer => data'[i] = data[i]
  BY <1>1, <1>2 DEF Append1, TypeOK
<1>5. UNCHANGED <<path, writer, pc, file, off, fd, held, lines, out>>
  BY DEF NagiosWrites, fdVars
<1>6. waived' = IF OutOfReach THEN waived \cup {clock + 1} ELSE waived
  BY DEF NagiosWrites
<1>7. \A m \in Covered(lines) \cup held : m # clock + 1
  BY <1>2, HandIsOlder DEF OrderInv
<1>8. c.id = clock + 1 /\ data[writer] \in Seq(Chunk)
  BY <1>2 DEF TypeOK
<1> HIDE DEF c
<1>9. \A i \in Inodes, k \in Nat :
          IdsFrom(i, k)' \subseteq IdsFrom(i, k) \cup (IF i = writer THEN {clock + 1} ELSE {})
  <2> SUFFICES ASSUME NEW i \in Inodes, NEW k \in Nat
               PROVE  IdsFrom(i, k)' \subseteq
                          IdsFrom(i, k) \cup (IF i = writer THEN {clock + 1} ELSE {})
    OBVIOUS
  <2>1. CASE i = writer
    <3>1. \A j \in (k + 1)..Len(data'[i]) :
              \/ j \in (k + 1)..Len(data[i]) /\ data'[i][j] = data[i][j]
              \/ data'[i][j].id = clock + 1
      BY <1>2, <1>3, <1>8, <2>1
    <3> QED
      BY <2>1, <3>1 DEF IdsFrom
  <2>2. CASE i # writer
    BY <1>4, <2>2 DEF IdsFrom
  <2> QED
    BY <2>1, <2>2
<1>10. \A i \in Inodes, k \in Nat : \A n \in IdsFrom(i, k) : n \in 1..clock
  BY FromFile
<1>11. clock + 1 \notin waived
  BY <1>2 DEF Known
<1>12. Known'
  <2>1. \A n \in 1..clock : n \in 1..clock'
    BY <1>2, <1>3
  <2>2. clock + 1 \in 1..clock'
    BY <1>2, <1>3
  <2> QED
    BY <1>5, <1>6, <2>1, <2>2 DEF Known, Covered
<1>13. file # NoFile /\ pc # "close" => IdsFrom(file, off)' \cap waived' = {}
  <2> SUFFICES ASSUME file # NoFile, pc # "close" PROVE IdsFrom(file, off)' \cap waived' = {}
    OBVIOUS
  <2>1. file \in Inodes /\ off \in Nat /\ IdsFrom(file, off) \cap waived = {}
    BY Types DEF Unwaived
  <2>2. \A n \in IdsFrom(file, off) : n # clock + 1
    BY <1>2, <1>10, <2>1
  <2>3. CASE writer # file \/ ~OutOfReach
    BY <1>5, <1>6, <1>9, <1>11, <2>1, <2>2, <2>3
  <2>4. CASE writer = file /\ OutOfReach
    <3>1. Len(data'[file]) < off + 1
      BY <1>2, <1>3, <1>8, <2>1, <2>4 DEF OutOfReach
    <3>2. (off + 1)..Len(data'[file]) = {}
      <4>1. Len(data'[file]) \in Nat
        BY <1>2, <1>3, <1>8, <2>4
      <4> QED
        BY <2>1, <3>1, <4>1
    <3> QED
      BY <1>5, <3>2 DEF IdsFrom
  <2> QED
    BY <2>3, <2>4
<1>14. \A i \in {fd, path} : i \in Inodes /\ i # file /\ IdsFrom(i, 0) \cap waived = {} =>
           IdsFrom(i, 0)' \cap waived' = {}
  <2> SUFFICES ASSUME NEW i \in {fd, path}, i \in Inodes, i # file,
                      IdsFrom(i, 0) \cap waived = {}
               PROVE  IdsFrom(i, 0)' \cap waived' = {}
    OBVIOUS
  <2>1. \A n \in IdsFrom(i, 0) : n # clock + 1
    BY <1>2, <1>10
  <2>2. writer = i => ~OutOfReach
    BY DEF OutOfReach
  <2> QED
    BY <1>6, <1>9, <1>11, <2>1, <2>2
<1>15. /\ Covered(lines') \cap waived' = {}
       /\ held' \cap waived' = {}
  BY <1>5, <1>6, <1>7 DEF Unwaived, Covered
<1>16. pc' = "fstat" => IdsFrom(fd, 0)' \cap waived' = {}
  <2>1. pc = "fstat" => fd \in Inodes /\ file = NoFile
    BY <1>2, Types DEF OrderInv, Position
  <2>2. NoFile \notin Inodes
    BY DEF TrackedFileAssumption
  <2> QED
    BY <1>5, <1>14, <2>1, <2>2 DEF Unwaived
<1>17. pc' \notin {"stopped", "init"} /\ path' \notin {NoFile, file', fd'} =>
           IdsFrom(path, 0)' \cap waived' = {}
  BY <1>5, <1>14, Types DEF Unwaived
<1> QED
  BY <1>5, <1>12, <1>13, <1>15, <1>16, <1>17 DEF Unwaived

\* What the file under the path holds that the tailer has not read: what a
\* rename or a truncation takes out of its reach.
Unread == IdsFrom(path, IF path = file THEN off ELSE 0)

LEMMA UnreadIsApart ==
    ASSUME OrderInv, NothingYet, path \in Inodes
    PROVE  /\ Unread \subseteq 1..clock /\ Unread \subseteq IdsFrom(path, 0)
           /\ Unread \cap (Covered(lines) \cup held) = {}
<1>1. TypeOK /\ Position /\ RestIsFresh /\ path # NoFile /\ off \in Nat
  BY Types DEF OrderInv, TrackedFileAssumption
<1>2. Unread \subseteq 1..clock /\ Unread \subseteq IdsFrom(path, 0)
  <2>1. \A k \in Nat : IdsFrom(path, k) \subseteq IdsFrom(path, 0) /\ IdsFrom(path, 0) \subseteq 1..clock
    BY FromFile
  <2> QED
    BY <1>1, <2>1 DEF Unread
<1>3. Unread \cap (Covered(lines) \cup held) = {}
  <2>1. CASE pc \in Down
    <3>1. held = {} /\ lines = <<>>
      BY <1>1, <2>1 DEF NothingYet, Position, Down, Scanning
    <3> QED
      BY <3>1, CoveredNone
  <2>2. CASE pc \notin Down
    <3>1. \A n \in Unread : n \in Nat /\ Fresh(n)
      <4>1. CASE path = file
        BY <1>1, <4>1, UnreadIsFresh DEF Unread
      <4>2. CASE path # file /\ path = fd
        <5>1. pc = "fstat"
          BY <1>1, <2>2, <4>2 DEF Position, Down
        <5>2. \A k \in (0 + 1)..Len(data[path]) : k \in DOMAIN data[path]
          BY <1>1, DataType
        <5> QED
          BY <1>1, <4>2, <5>1, <5>2, DataType DEF Unread, IdsFrom, RestIsFresh
      <4>3. CASE path \notin {file, fd}
        BY <1>1, <2>2, <4>3, UnreadIsFresh DEF Unread, Down
      <4> QED
        BY <4>1, <4>2, <4>3
    <3> QED
      BY <3>1, HandIsOlder
  <2> QED
    BY <2>1, <2>2
<1> QED
  BY <1>2, <1>3

LEMMA UnwaivedEnvironment ==
    ASSUME OrderInv, Known, Distinct, NothingYet, Unwaived, Drained, Environment
    PROVE  (Known /\ Unwaived)'
<1>1. CASE NagiosOpens
  <2>1. CASE path = NoFile
    BY <1>1, <2>1, UnwaivedCreateAt DEF NagiosOpens, fdVars
  <2>2. CASE path # NoFile
    <3>1. UNCHANGED <<path, data, clock, pc, file, off, fd, held, lines, out, waived>>
      BY <1>1, <2>2 DEF NagiosOpens, fdVars
    <3> QED
      BY <3>1, FromSame DEF Known, Unwaived, Covered
  <2> QED
    BY <2>1, <2>2
<1>2. CASE NagiosCloses \/ PurgeArchive
  <2>1. UNCHANGED <<path, data, clock, pc, file, off, fd, held, lines, out, waived>>
    BY <1>2 DEF NagiosCloses, PurgeArchive, fdVars
  <2> QED
    BY <2>1, FromSame DEF Known, Unwaived, Covered
<1>3. CASE NagiosWrites
  BY <1>3, UnwaivedNagiosWrites
<1>4. CASE Rotate
  <2>1. /\ UNCHANGED <<data, clock, pc, file, off, fd, held, lines, out>>
        /\ path' = NoFile /\ path # NoFile
        /\ waived' = IF path \in {file, fd} THEN waived ELSE waived \cup IdsOf(data[path])
    BY <1>4 DEF Rotate, fdVars
  <2>2. TypeOK /\ path \in Inodes /\ IdsOf(data[path]) = IdsFrom(path, 0)
    BY <2>1, Types, FromZero DEF OrderInv
  <2>3. CASE path \in {file, fd}
    BY <2>1, <2>3, FromSame DEF Known, Unwaived, Covered
  <2>4. CASE path \notin {file, fd}
    <3>1. waived' = waived \cup Unread
      BY <2>1, <2>2, <2>4 DEF Unread
    <3>2. /\ Unread \subseteq 1..clock /\ Unread \subseteq IdsFrom(path, 0)
          /\ Unread \cap (Covered(lines) \cup held) = {}
      BY <2>2, UnreadIsApart
    <3>3. file # NoFile => IdsFrom(file, off) \cap Unread = {}
      BY <2>2, <2>4, <3>2, Types, FromFile DEF Distinct
    <3>4. pc = "fstat" => IdsFrom(fd, 0) \cap Unread = {}
      BY <2>2, <2>4, <3>2, Types DEF Distinct
    <3>5. Covered(lines)' = Covered(lines) /\ Covered(out)' = Covered(out)
      BY <2>1 DEF Covered
    <3>6. IdsFrom(file, off)' = IdsFrom(file, off) /\ IdsFrom(fd, 0)' = IdsFrom(fd, 0)
      BY <2>1, FromSame
    <3>7. Known'
      BY <2>1, <3>1, <3>2, <3>5 DEF Known
    <3> QED
      BY <2>1, <3>1, <3>2, <3>3, <3>4, <3>5, <3>6, <3>7 DEF Unwaived
  <2> QED
    BY <2>3, <2>4
<1>5. CASE RotatorCreates
  BY <1>5, UnwaivedCreateAt DEF RotatorCreates, fdVars
<1>6. CASE Truncate
  <2>1. /\ UNCHANGED <<path, clock, pc, file, off, fd, held, lines, out>>
        /\ waived' = waived \cup Unread /\ data' = [data EXCEPT ![path] = <<>>]
        /\ path \in Inodes /\ path # NoFile /\ TypeOK
    BY <1>6, Types DEF Truncate, Unread, fdVars, OrderInv
  <2>2. \A i \in Inodes, k \in Nat :
            IdsFrom(i, k)' = IF i = path THEN {} ELSE IdsFrom(i, k)
    BY <2>1, FromTruncated
  <2>3. /\ Unread \subseteq 1..clock /\ Unread \subseteq IdsFrom(path, 0)
        /\ Unread \cap (Covered(lines) \cup held) = {}
    BY <2>1, UnreadIsApart
  <2>4. file # NoFile /\ pc # "close" => IdsFrom(file, off)' \cap waived' = {}
    <3>1. CASE file = path
      BY <2>1, <2>2, <3>1, Types
    <3>2. CASE file # path /\ file # NoFile
      <4>1. IdsFrom(file, off) \cap Unread = {}
        BY <2>1, <2>3, <3>2, Types, FromFile DEF Distinct
      <4> QED
        BY <2>1, <2>2, <3>2, <4>1, Types DEF Unwaived
    <3> QED
      BY <3>1, <3>2
  <2>5. pc = "fstat" => IdsFrom(fd, 0)' \cap waived' = {}
    <3>1. CASE fd = path
      BY <2>1, <2>2, <3>1
    <3>2. CASE fd # path /\ pc = "fstat"
      <4>1. fd \in Inodes /\ IdsFrom(fd, 0) \cap Unread = {}
        BY <2>1, <2>3, <3>2, Types DEF Distinct
      <4> QED
        BY <2>1, <2>2, <3>2, <4>1 DEF Unwaived
    <3> QED
      BY <3>1, <3>2
  <2>6. IdsFrom(path, 0)' = {}
    BY <2>1, <2>2
  <2>7. Covered(lines)' = Covered(lines) /\ Covered(out)' = Covered(out)
    BY <2>1 DEF Covered
  <2>8. Known'
    BY <2>1, <2>3, <2>7 DEF Known
  <2>9. (Covered(lines) \cap waived = {})' /\ (held \cap waived = {})'
    BY <2>1, <2>3, <2>7 DEF Unwaived
  <2> QED
    BY <2>1, <2>4, <2>5, <2>6, <2>8, <2>9 DEF Unwaived
<1> QED
  BY <1>1, <1>2, <1>3, <1>4, <1>5, <1>6 DEF Environment

\* A scan covers what it takes off the file, and gives up only what it will not
\* read.
LEMMA UnwaivedReadLines ==
    ASSUME OrderInv, Known, Distinct, Unwaived, ReadLines
    PROVE  (Known /\ Unwaived)'
<1>1. /\ TypeOK /\ pc \in Scanning /\ file \in Inodes /\ file # NoFile
      /\ fd = NoFile /\ off \in Nat /\ lines \in Seq(Token) /\ clock \in Nat
  <2>1. TypeOK /\ Position /\ pc \in Scanning
    BY DEF ReadLines, ScanLine, ScanMore, ScanTooLong, ScanEnds, OrderInv
  <2> QED
    BY <2>1, Types DEF TypeOK, Position, Scanning
<1>2. UNCHANGED <<path, data, clock, file, fd, out>>
  BY DEF ReadLines, ScanLine, ScanMore, ScanTooLong, ScanEnds, fsVars, fdVars
<1>3. \A i \in Inodes, k \in Nat : IdsFrom(i, k)' = IdsFrom(i, k)
  BY <1>2, FromSame
<1>4. pc' # "fstat" /\ pc' \notin {"stopped", "init"}
  BY <1>1 DEF ReadLines, ScanLine, ScanMore, ScanTooLong, ScanEnds, AfterScan, Scanning
<1>5. IdsFrom(file, off) \cap waived = {}
  BY <1>1 DEF Unwaived, Scanning
<1>6. off < Len(data[file]) => IdsFrom(file, off + 1) \subseteq IdsFrom(file, off)
  <2>1. \A j \in (off + 1 + 1)..Len(data[file]) : j \in (off + 1)..Len(data[file])
    BY <1>1, DataType
  <2> QED
    BY <2>1 DEF IdsFrom
<1>7. path \notin {NoFile, file, fd} => path \in Inodes /\ IdsFrom(path, 0) \cap waived = {}
  BY <1>1, Types DEF Unwaived, Scanning
<1>8. ASSUME waived' = waived, pc' = pc, off' = off + 1, off < Len(data[file]),
             Covered(lines') \cup held' \subseteq
                 Covered(lines) \cup held \cup {NextChunk.id}
      PROVE  (Known /\ Unwaived)'
  <2>1. NextChunk.id \in IdsFrom(file, off) /\ NextChunk.id \in 1..clock
    BY <1>1, <1>8, NextInFile
  <2>2. NextChunk.id \notin waived
    BY <1>5, <2>1
  <2>3. (Covered(lines') \cup held') \cap waived' = {}
    BY <1>8, <2>2 DEF Unwaived
  <2>5. Known'
    BY <1>2, <1>8, <2>1 DEF Known, Covered
  <2>6. IdsFrom(file, off)' = IdsFrom(file, off + 1)
    BY <1>2, <1>8, FromSame
  <2> QED
    BY <1>2, <1>3, <1>4, <1>5, <1>6, <1>7, <1>8, <2>3, <2>5, <2>6 DEF Unwaived, Covered
<1>9. CASE ScanLine
  <2> DEFINE t == Completed(NextChunk)
  <2>1. /\ lines' = Append(lines, t) /\ held' = {} /\ off' = off + 1 /\ pc' = pc
        /\ waived' = waived /\ off < Len(data[file])
    BY <1>9 DEF ScanLine
  <2>2. t \in Token
    BY <1>1, <2>1, NextInFile, CompletedType
  <2>3. t.of = held \cup {NextChunk.id}
    BY DEF Completed
  <2> HIDE DEF t
  <2>4. Covered(lines') = Covered(lines) \cup held \cup {NextChunk.id}
    BY <1>1, <2>1, <2>2, <2>3, CoveredAppend
  <2> QED
    BY <1>8, <2>1, <2>4
<1>10. CASE ScanMore
  <2>1. /\ lines' = lines /\ off' = off + 1 /\ pc' = pc
        /\ held' = held \cup {NextChunk.id}
        /\ waived' = waived /\ off < Len(data[file])
    BY <1>10 DEF ScanMore
  <2> QED
    BY <1>8, <2>1 DEF Covered
<1>11. CASE ScanTooLong
  <2>1. /\ lines' = lines /\ off' = off + 1 /\ pc' = AfterScan
        /\ waived' = waived \cup held \cup {NextChunk.id} \cup CutOff(off + 1)
        /\ off < Len(data[file]) /\ held' = {}
    BY <1>11 DEF ScanTooLong
  <2>2. /\ NextChunk.id \in IdsFrom(file, off) /\ NextChunk.id \in 1..clock
        /\ \A n \in IdsFrom(file, off + 1) : NextChunk.id < n
    BY <1>1, <2>1, NextInFile
  <2> DEFINE L == held \cup {NextChunk.id} \cup CutOff(off + 1)
  <2>3. L \subseteq held \cup IdsFrom(file, off)
    BY <1>6, <2>1, <2>2 DEF CutOff
  <2>4. \A n \in IdsFrom(file, off) : n \in Nat /\ Fresh(n) /\ n \in 1..clock
    BY <1>1, UnreadIsFresh, FromFile
  <2>5. \A m \in Covered(lines) \cup held, n \in IdsFrom(file, off) : m < n /\ m \in Nat
    BY <2>4, HandIsOlder
  <2>6. Covered(lines) \cap L = {}
    BY <2>3, <2>4, <2>5, BufferIsApart
  <2>8. Known'
    <3>1. waived' \subseteq 1..clock
      BY <2>1, <2>3, <2>4 DEF Known
    <3>2. Covered(lines)' = Covered(lines) /\ Covered(out)' = Covered(out)
      BY <1>2, <2>1 DEF Covered
    <3> QED
      BY <1>2, <2>1, <3>1, <3>2 DEF Known
  <2>9. pc' # "close" => IdsFrom(file, off + 1) \cap L = {}
    <3>1. pc' # "close" => CutOff(off + 1) = {}
      BY <2>1 DEF CutOff, AfterScan
    <3> QED
      BY <1>6, <2>1, <2>2, <2>4, <2>5, <3>1
  <2>10. path \notin {NoFile, file, fd} => IdsFrom(path, 0) \cap L = {}
    <3> SUFFICES ASSUME path \notin {NoFile, file, fd} PROVE IdsFrom(path, 0) \cap L = {}
      OBVIOUS
    <3>1. \A n \in IdsFrom(path, 0) : n \in Nat /\ Fresh(n)
      BY <1>1, UnreadIsFresh DEF Scanning
    <3>2. IdsFrom(path, 0) \cap held = {}
      BY <3>1, HandIsOlder
    <3>3. IdsFrom(path, 0) \cap IdsFrom(file, off) = {}
      BY <1>1, <1>7, FromFile DEF Distinct
    <3> QED
      BY <2>3, <3>2, <3>3
  <2>11. waived' = waived \cup L
    BY <2>1
  <2>12. IdsFrom(file, off)' = IdsFrom(file, off + 1) /\ IdsFrom(path, 0)' = IdsFrom(path, 0)
    BY <1>2, <2>1, FromSame
  <2>13. Covered(lines)' = Covered(lines)
    BY <2>1 DEF Covered
  <2> HIDE DEF L
  <2> QED
    BY <1>2, <1>4, <1>5, <1>6, <1>7, <2>1, <2>6, <2>8, <2>9, <2>10, <2>11, <2>12, <2>13
       DEF Unwaived
<1>12. CASE ScanEnds
  <2>1. /\ lines' = lines \o Remainder /\ off' = off /\ pc' = AfterScan
        /\ waived' = waived \cup CutOff(off) /\ held' = {}
    BY <1>12 DEF ScanEnds, fdVars
  <2>2. Covered(Remainder) = held /\ Remainder \in Seq(Token)
    BY <1>1, CoveredRemainder, RemainderType
  <2>3. Covered(lines') = Covered(lines) \cup held
    BY <1>1, <2>1, <2>2, CoveredParts
  <2>4. \A n \in IdsFrom(file, off) : n \in Nat /\ Fresh(n) /\ n \in 1..clock
    BY <1>1, UnreadIsFresh, FromFile
  <2>5. (Covered(lines) \cup held) \cap IdsFrom(file, off) = {}
    BY <2>4, HandIsOlder
  <2>6. CutOff(off) \subseteq IdsFrom(file, off) /\ (pc' # "close" => CutOff(off) = {})
    BY <2>1 DEF CutOff, AfterScan
  <2>8. Known'
    <3>1. waived' \subseteq 1..clock /\ Covered(lines') \subseteq 1..clock
      BY <2>1, <2>3, <2>4, <2>6 DEF Known
    <3>2. Covered(lines)' = Covered(lines') /\ Covered(out)' = Covered(out)
      BY <1>2 DEF Covered
    <3> QED
      BY <1>2, <2>1, <3>1, <3>2 DEF Known
  <2>9. path \notin {NoFile, file, fd} => IdsFrom(path, 0) \cap IdsFrom(file, off) = {}
    BY <1>1, <1>7, FromFile DEF Distinct
  <2>10. /\ IdsFrom(file, off)' = IdsFrom(file, off) /\ IdsFrom(path, 0)' = IdsFrom(path, 0)
         /\ Covered(lines)' = Covered(lines')
    BY <1>2, <2>1, FromSame DEF Covered
  <2> QED
    BY <1>2, <1>4, <1>5, <1>7, <2>1, <2>3, <2>5, <2>6, <2>8, <2>9, <2>10 DEF Unwaived
<1> QED
  BY <1>9, <1>10, <1>11, <1>12 DEF ReadLines

LEMMA UnwaivedTracker ==
    ASSUME OrderInv, Known, Distinct, NothingYet, Unwaived, Tracker
    PROVE  (Known /\ Unwaived)'
<1>1. TypeOK /\ Position
  BY DEF OrderInv
<1>2. CASE ReadLines
  BY <1>2, UnwaivedReadLines
<1>3. CASE Start \/ InitOpenFails \/ Collect \/ CheckRotation \/ CheckRotationFails \/ OpenNewFails
  <2>1. /\ UNCHANGED <<path, data, clock, file, off, fd, held, lines, out, waived>>
        /\ pc # "close" /\ pc' # "fstat"
        /\ pc' \notin {"stopped", "init"} => pc \notin {"stopped", "init"}
    BY <1>3 DEF Start, InitOpenFails, Collect, CheckRotation, CheckRotationFails,
                OpenNewFails, AfterRotation, fsVars, fdVars
  <2> QED
    BY <2>1, FromSame DEF Known, Unwaived, Covered
<1>4. CASE InitOpen \/ OpenNew
  <2>1. /\ UNCHANGED <<path, data, clock, file, off, held, lines, out, waived>>
        /\ fd' = path /\ pc \in {"init", "open"}
        /\ pc = "init" => pc' # "fstat"
        /\ pc' = "fstat" => path # NoFile
    BY <1>4 DEF InitOpen, OpenNew, fsVars
  <2>2. file = NoFile /\ fd = NoFile
    BY <1>1, <2>1 DEF Position, Down
  <2>3. pc' = "fstat" => IdsFrom(fd, 0)' \cap waived = {}
    BY <2>1, <2>2, FromSame DEF Unwaived
  <2> QED
    BY <2>1, <2>2, <2>3 DEF Known, Unwaived, Covered
<1>5. CASE InitSeek
  <2>1. /\ UNCHANGED <<path, data, clock, held, lines, out>>
        /\ pc = "seek" /\ pc' = "idle" /\ fd' = NoFile /\ file' = fd
        /\ off' = Len(data[fd])
        /\ waived' = waived \cup IdsOf(data[fd])
    BY <1>5 DEF InitSeek, fsVars, StartOffset
  <2>2. /\ fd \in Inodes /\ file = NoFile /\ held = {} /\ lines = <<>>
        /\ IdsOf(data[fd]) = IdsFrom(fd, 0)
    BY <1>1, <2>1, Types, FromZero DEF Position, NothingYet, Down, Scanning
  <2>3. Covered(lines)' = {} /\ held' = {} /\ Covered(out)' = Covered(out)
    BY <2>1, <2>2, CoveredNone DEF Covered
  <2>4. IdsFrom(file, off)' = {}
    <3>1. Len(data[fd]) \in Nat
      BY <1>1, <2>2, DataType
    <3>2. (Len(data[fd]) + 1)..Len(data[fd]) = {}
      BY <3>1
    <3> QED
      BY <2>1, <3>2 DEF IdsFrom
  <2>5. path \notin {NoFile, fd} => IdsFrom(path, 0)' \cap waived' = {}
    <3> SUFFICES ASSUME path \notin {NoFile, fd} PROVE IdsFrom(path, 0)' \cap waived' = {}
      OBVIOUS
    <3>1. IdsFrom(path, 0) \cap waived = {}
      BY <2>1, <2>2 DEF Unwaived
    <3>2. IdsFrom(path, 0) \cap IdsFrom(fd, 0) = {}
      BY <2>2, Types DEF Distinct
    <3> QED
      BY <2>1, <2>2, <3>1, <3>2, FromSame
  <2>6. Known'
    BY <2>1, <2>2, <2>3, FromFile DEF Known
  <2> QED
    BY <2>1, <2>3, <2>4, <2>5, <2>6 DEF Unwaived
<1>6. CASE CloseOld
  <2>1. /\ UNCHANGED <<path, data, clock, fd, held, lines, out, waived>>
        /\ pc = "close" /\ pc' = "open" /\ file' = NoFile
    BY <1>6 DEF CloseOld, fsVars
  <2>2. path # file
    BY <1>1, <2>1 DEF Position
  <2> QED
    BY <2>1, <2>2, FromSame DEF Known, Unwaived, Covered
<1>7. CASE AdoptNew
  <2>1. /\ UNCHANGED <<path, data, clock, held, lines, out, waived>>
        /\ pc = "fstat" /\ pc' = "readNew" /\ fd' = NoFile /\ file' = fd /\ off' = 0
    BY <1>7 DEF AdoptNew, fsVars
  <2>2. file = NoFile
    BY <1>1, <2>1 DEF Position
  <2>3. IdsFrom(file, off)' = IdsFrom(fd, 0) /\ IdsFrom(path, 0)' = IdsFrom(path, 0)
    BY <2>1 DEF IdsFrom
  <2> QED
    BY <2>1, <2>2, <2>3 DEF Known, Unwaived, Covered
<1>8. CASE Return
  <2>1. /\ UNCHANGED <<path, data, clock, file, off, fd, held, waived>>
        /\ out' = out \o lines /\ lines' = <<>> /\ pc = "return" /\ pc' = "idle"
    BY <1>8 DEF Return, fsVars, fdVars
  <2>2. Covered(out') = Covered(out) \cup Covered(lines) /\ Covered(lines') = {}
    BY <2>1, Types, CoveredParts, CoveredNone
  <2>3. Covered(out)' = Covered(out') /\ Covered(lines)' = Covered(lines')
    BY DEF Covered
  <2> QED
    BY <2>1, <2>2, <2>3, FromSame DEF Known, Unwaived
<1>9. CASE Stop
  <2>1. /\ waived' = waived \cup 1..clock /\ clock' = clock /\ out' = out
        /\ lines' = <<>> /\ held' = {} /\ file' = NoFile /\ pc' = "stopped"
    BY <1>9 DEF Stop, fsVars
  <2>2. Covered(out)' = Covered(out) /\ Covered(lines)' = {}
    BY <2>1, CoveredNone DEF Covered
  <2> QED
    BY <2>1, <2>2 DEF Known, Unwaived
<1>10. CASE InitSeekFails \/ FstatFails
  <2>1. /\ UNCHANGED <<path, data, clock, file, off, held, lines, out>>
        /\ pc \in {"seek", "fstat"} /\ pc' \in {"stopped", "return"} /\ fd' = NoFile
        /\ pc = "seek" => pc' = "stopped"
        /\ waived' = waived \cup Forgone(fd)
    BY <1>10 DEF InitSeekFails, FstatFails, fsVars
  <2>2. fd \in Inodes /\ file = NoFile /\ held = {}
    BY <1>1, <2>1, Types DEF Position, Down, Scanning
  <2>3. /\ Forgone(fd) \subseteq IdsFrom(fd, 0) /\ Forgone(fd) \subseteq 1..clock
        /\ fd = path => Forgone(fd) = {}
    BY <1>1, <2>2, FromZero, FromFile DEF Forgone
  <2>4. Covered(lines)' = Covered(lines) /\ Covered(out)' = Covered(out)
    BY <2>1 DEF Covered
  <2>5. Known'
    BY <2>1, <2>3, <2>4 DEF Known
  <2>6. Covered(lines) \cap waived' = {}
    <3>1. CASE pc = "seek"
      <4>1. lines = <<>>
        BY <3>1 DEF NothingYet, Down
      <4> QED
        BY <4>1, CoveredNone
    <3>2. CASE pc = "fstat"
      <4>1. \A n \in IdsFrom(fd, 0) : n \in Nat /\ Fresh(n)
        <5>1. \A k \in (0 + 1)..Len(data[fd]) : k \in DOMAIN data[fd]
          BY <1>1, <2>2, DataType
        <5> QED
          BY <1>1, <2>2, <3>2, <5>1, DataType DEF OrderInv, IdsFrom, RestIsFresh
      <4>2. IdsFrom(fd, 0) \cap Covered(lines) = {}
        BY <4>1, HandIsOlder
      <4> QED
        BY <2>1, <2>3, <4>2 DEF Unwaived
    <3> QED
      BY <2>1, <3>1, <3>2
  <2>7. pc = "fstat" /\ path # NoFile => IdsFrom(path, 0) \cap waived' = {}
    <3> SUFFICES ASSUME pc = "fstat", path # NoFile PROVE IdsFrom(path, 0) \cap waived' = {}
      OBVIOUS
    <3>1. CASE path = fd
      BY <2>1, <2>3, <3>1 DEF Unwaived
    <3>2. CASE path # fd
      <4>1. IdsFrom(path, 0) \cap waived = {}
        BY <2>2, <3>2 DEF Unwaived
      <4>2. IdsFrom(path, 0) \cap IdsFrom(fd, 0) = {}
        BY <2>2, <3>2, Types DEF Distinct
      <4> QED
        BY <2>1, <2>3, <4>1, <4>2
    <3> QED
      BY <3>1, <3>2
  <2> QED
    BY <2>1, <2>2, <2>4, <2>5, <2>6, <2>7, FromSame DEF Unwaived
<1> QED
  BY <1>2, <1>3, <1>4, <1>5, <1>6, <1>7, <1>8, <1>9, <1>10 DEF Tracker, Starting, ReadNewLines

LEMMA ContractNext ==
    ASSUME OrderInv, Drained, ContractInv, [Next]_vars
    PROVE  ContractInv'
<1> USE DEF ContractInv
<1>1. CASE Next
  <2>1. (Known /\ Unwaived)'
    BY <1>1, UnwaivedEnvironment, UnwaivedTracker DEF Next
  <2> QED
    BY <1>1, <2>1, DataNext, NothingYetNext
<1>2. CASE UNCHANGED vars
  <2>1. UNCHANGED <<path, data, clock, pc, file, off, fd, held, lines, out, waived>>
    BY <1>2 DEF vars
  <2> QED
    BY <2>1, FromSame DEF Known, Distinct, NothingYet, Unwaived, Covered
<1> QED
  BY <1>1, <1>2

-----------------------------------------------------------------------------
(***************************************************************************)
(* The steps of the contract.                                              *)
(***************************************************************************)
Pending == (InHand \cup Readable) \ (waived \cup Covered(out))

\* What is pending is all that was written, and neither handed over nor waived.
LEMMA PendingIsRest ==
    ASSUME OrderInv, Known, NoLineLost
    PROVE  Pending = (1..clock) \ (waived \cup Covered(out))
<1>1. TypeOK /\ Numbered /\ Position /\ clock \in Nat
  BY Types DEF OrderInv
<1>3. Readable \subseteq 1..clock
  <2>1. \A i \in Inodes, k \in Nat : IdsFrom(i, k) \subseteq 1..clock
    BY FromFile
  <2> QED
    BY <2>1, Types DEF Readable
<1> QED
  BY <1>3 DEF Pending, NoLineLost, InHand, Known

\* All that readNewLinesFromTracker returns is pending, and the oldest of it.
LEMMA ReturnDelivers ==
    ASSUME OrderInv, ContractInv, NoLineLost, Return
    PROVE  /\ Covered(lines) \subseteq Pending
           /\ \A n \in Covered(lines), m \in Pending \ Covered(lines) : n < m
<1>1. /\ pc = "return" /\ TypeOK /\ Position /\ InOrder
      /\ out \in Seq(Token) /\ lines \in Seq(Token)
  BY Types DEF Return, OrderInv
<1>2. Covered(lines) \cap Covered(out) = {}
  <2> SUFFICES ASSUME NEW n \in Covered(lines), n \in Covered(out) PROVE FALSE
    OBVIOUS
  <2>1. PICK i \in DOMAIN out : n \in out[i].of
    BY DEF Covered
  <2>2. PICK j \in DOMAIN lines : n \in lines[j].of
    BY DEF Covered
  <2>3. /\ i \in DOMAIN Handed /\ Handed[i] = out[i]
        /\ Len(out) + j \in DOMAIN Handed /\ Handed[Len(out) + j] = lines[j]
        /\ i < Len(out) + j
    BY <1>1 DEF Handed
  <2>4. n < n
    BY <1>1, <2>1, <2>2, <2>3 DEF InOrder
  <2>5. n \in Nat
    BY <1>1, CoveredParts, HandedType DEF Handed
  <2> QED
    BY <2>4, <2>5
<1>3. Covered(lines) \cap waived = {}
  BY DEF ContractInv, Unwaived
<1>4. held = {} /\ fd = NoFile
  BY <1>1 DEF Position, Scanning
<1>5. \A m \in Readable : m \in Nat /\ Fresh(m)
  BY <1>1, <1>4, UnreadIsFresh DEF Readable
<1>6. \A n \in Covered(lines), m \in Readable : n < m
  BY <1>5, HandIsOlder
<1> QED
  BY <1>2, <1>3, <1>4, <1>6 DEF Pending, InHand

\* A step gives up what it adds to waived, which may be nothing.
LEMMA IsWaive ==
    ASSUME clock' = clock, Covered(out)' = Covered(out), waived \subseteq waived',
           waived' \ (waived \cup Covered(out)) \subseteq Pending,
           Pending' = Pending \ waived'
    PROVE  Stream!Waive
<1> DEFINE D == Covered(out)
           P == Pending
           lost == waived' \ (waived \cup D)
<1>1. P \cap (waived \cup D) = {}
  BY DEF Pending
<1>2. lost \in SUBSET P /\ P' = P \ lost
  BY <1>1
<1>3. waived' \ D = (waived \ D) \cup lost
  OBVIOUS
<1> HIDE DEF lost
<1>4. /\ P' = P \ lost /\ (waived \ D)' = (waived \ D) \cup lost
      /\ clock' = clock /\ D' = D
  BY <1>2, <1>3
<1> QED
  BY <1>2, <1>4 DEF Stream!Waive, Pending

LEMMA IsWrite ==
    ASSUME clock' = clock + 1, Covered(out)' = Covered(out), waived' = waived,
           Pending' = Pending \cup {clock + 1}
    PROVE  Stream!Write
BY DEF Stream!Write, Pending

LEMMA IsMiss ==
    ASSUME clock' = clock + 1, Covered(out)' = Covered(out),
           waived' = waived \cup {clock + 1}, clock + 1 \notin Covered(out),
           Pending' = Pending
    PROVE  Stream!Miss
<1>1. (waived \ Covered(out))' = (waived \ Covered(out)) \cup {clock + 1}
  OBVIOUS
<1> QED
  BY <1>1 DEF Stream!Miss, Pending

LEMMA IsDeliver ==
    ASSUME NEW B, clock' = clock, waived' = waived, B \subseteq Pending,
           \A n \in B, m \in Pending \ B : n < m,
           Covered(out)' = Covered(out) \cup B, Pending' = Pending \ B
    PROVE  Stream!Deliver
<1>1. B \in SUBSET Pending /\ B \cap waived = {}
  BY DEF Pending
<1>2. (waived \ Covered(out))' = waived \ Covered(out)
  BY <1>1
<1> QED
  BY <1>1, <1>2 DEF Stream!Deliver, Pending

\* Every step is one of the contract's, or changes nothing that it speaks of.
LEMMA StepOfTheContract ==
    ASSUME OrderInv, OrderInv', ContractInv, ContractInv', NoLineLost, NoLineLost',
           [Next]_vars
    PROVE  [Stream!StreamNext]_Stream!streamVars
<1> DEFINE D == Covered(out)
           P == Pending
<1>1. /\ P = (1..clock) \ (waived \cup D)
      /\ P' = (1..clock') \ (waived' \cup D')
  <2>1. P = (1..clock) \ (waived \cup D)
    BY PendingIsRest DEF ContractInv
  <2>2. (Pending = (1..clock) \ (waived \cup Covered(out)))'
    BY PendingIsRest, PTL DEF ContractInv
  <2> QED
    BY <2>1, <2>2
<1>2. /\ waived \subseteq 1..clock /\ waived' \subseteq 1..clock' /\ D \subseteq 1..clock
      /\ clock \in Nat
  BY Types DEF ContractInv, Known
<1>3. CASE Return
  <2>1. clock' = clock /\ waived' = waived /\ out' = out \o lines
    BY <1>3 DEF Return, fsVars
  <2>2. D' = D \cup Covered(lines)
    <3>1. Covered(out') = Covered(out) \cup Covered(lines)
      BY <2>1, Types, CoveredParts
    <3> QED
      BY <3>1 DEF Covered
  <2>3. /\ Covered(lines) \subseteq P
        /\ \A n \in Covered(lines), m \in P \ Covered(lines) : n < m
    BY <1>3, ReturnDelivers
  <2>4. P' = P \ Covered(lines)
    BY <1>1, <2>1, <2>2, <2>3
  <2>5. Stream!Deliver
    BY <2>1, <2>2, <2>3, <2>4, IsDeliver
  <2> QED
    BY <2>5 DEF Stream!StreamNext
<1>4. CASE NagiosWrites
  <2>1. /\ clock' = clock + 1 /\ out' = out
        /\ waived' = waived \/ waived' = waived \cup {clock + 1}
    BY <1>4 DEF NagiosWrites, Append1
  <2>2. D' = D /\ clock + 1 \notin waived \cup D
    BY <1>2, <2>1 DEF Covered
  <2>3. 1..clock' = (1..clock) \cup {clock + 1}
    BY <1>2, <2>1
  <2>4. CASE waived' = waived
    <3>1. P' = P \cup {clock + 1}
      BY <1>1, <2>2, <2>3, <2>4
    <3>2. Stream!Write
      BY <2>1, <2>2, <2>4, <3>1, IsWrite
    <3> QED
      BY <3>2 DEF Stream!StreamNext
  <2>5. CASE waived' = waived \cup {clock + 1}
    <3>1. P' = P
      BY <1>1, <1>2, <2>2, <2>3, <2>5
    <3>2. Stream!Miss
      BY <2>1, <2>2, <2>5, <3>1, IsMiss
    <3> QED
      BY <3>2 DEF Stream!StreamNext
  <2> QED
    BY <2>1, <2>4, <2>5
<1>5. CASE ~Return /\ ~NagiosWrites
  <2>1. clock' = clock /\ out' = out /\ waived \subseteq waived'
    BY <1>5 DEF Next, Environment, NagiosOpens, NagiosCloses, Rotate, RotatorCreates,
                PurgeArchive, Truncate, Tracker, Starting, Start, InitOpen, InitOpenFails,
                InitSeek, InitSeekFails, Collect, ReadNewLines, ReadLines, ScanLine, ScanMore,
                ScanTooLong, ScanEnds, CheckRotation, CheckRotationFails, CloseOld, OpenNew,
                OpenNewFails, FstatFails, AdoptNew, Stop, fsVars, vars
  <2>2. D' = D
    BY <2>1 DEF Covered
  <2>3. waived' \ (waived \cup D) \subseteq P /\ P' = P \ waived'
    BY <1>1, <1>2, <2>1, <2>2
  <2>4. Stream!Waive
    BY <2>1, <2>2, <2>3, IsWaive
  <2> QED
    BY <2>4 DEF Stream!StreamNext
<1> QED
  BY <1>3, <1>4, <1>5

LEMMA ContractInit == Init => ContractInv /\ Stream!StreamInit
<1> SUFFICES ASSUME Init PROVE ContractInv /\ Stream!StreamInit
  OBVIOUS
<1>1. /\ out = <<>> /\ lines = <<>> /\ held = {} /\ clock = 0 /\ waived = {}
      /\ file = NoFile /\ fd = NoFile /\ path = NoFile /\ pc = "stopped"
      /\ \A i \in Inodes : data[i] = <<>>
  BY DEF Init
<1>2. Covered(out) = {} /\ Covered(lines) = {} /\ Readable = {}
  BY <1>1, CoveredNone DEF Readable
<1>3. Distinct
  <2>1. (0 + 1)..Len(<<>>) = {}
    OBVIOUS
  <2> QED
    BY <1>1, <2>1 DEF Distinct, IdsFrom
<1>5. ContractInv
  BY <1>1, <1>2, <1>3 DEF ContractInv, Known, NothingYet, Unwaived
<1>6. Stream!StreamInit
  BY <1>1, <1>2 DEF Stream!StreamInit, InHand
<1> QED
  BY <1>5, <1>6

\* Everything that Nagios, the rotation, truncation, the tailer and its restarts
\* do is a step of the contract, or none that it speaks of: chunks are written,
\* handed over the oldest first and once, and given up, and nothing else happens
\* to them.
THEOREM ImplementsTheContract == Spec => KeepsTheContract
<1>1. Init => OrderInv /\ NoLineLost /\ Drained /\ ContractInv
  BY OrderInit, LossInit, ContractInit
<1>2. OrderInv /\ NoLineLost /\ Drained /\ ContractInv /\ [Next]_vars =>
          (OrderInv /\ NoLineLost /\ Drained /\ ContractInv)'
  BY OrderNext, LostNext, ContractNext
<1>3. OrderInv /\ ContractInv /\ NoLineLost /\ (OrderInv /\ ContractInv /\ NoLineLost)'
          /\ [Next]_vars => [Stream!StreamNext]_Stream!streamVars
  BY StepOfTheContract
<1>4. Init => Stream!StreamInit
  BY ContractInit
<1> QED
  BY <1>1, <1>2, <1>3, <1>4, PTL DEF Spec, KeepsTheContract, Stream!StreamSpec
=============================================================================
