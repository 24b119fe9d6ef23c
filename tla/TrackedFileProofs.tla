------------------------- MODULE TrackedFileProofs -------------------------
(***************************************************************************)
(* What TLAPS proves of TrackedFile, for any set of inodes, any number of  *)
(* chunks and any set of faults.                                           *)
(***************************************************************************)
EXTENDS TrackedFile, TLAPS

USE TrackedFileAssumption

-----------------------------------------------------------------------------
(***************************************************************************)
(* Type correctness.                                                       *)
(***************************************************************************)
\* The token that a chunk completes, or that ends a scan, is a token.
LEMMA CompletedType ==
    ASSUME TypeOK, NEW c \in Chunk
    PROVE  Completed(c) \in Token
BY DEF TypeOK, Completed, Token, Chunk

LEMMA RemainderType ==
    ASSUME TypeOK
    PROVE  Remainder \in Seq(Token)
<1> DEFINE t == [of |-> held, whole |-> FALSE]
<1>1. held # {} => t \in Token
  BY DEF TypeOK, Token
<1>2. (held # {} => <<t>> \in Seq(Token)) /\ <<>> \in Seq(Token)
  BY <1>1
<1> QED
  BY <1>2 DEF Remainder

\* What a scanner reads is a chunk of the open file.
LEMMA NextChunkType ==
    ASSUME TypeOK, pc \in Scanning, off < Len(data[file])
    PROVE  NextChunk \in Chunk
<1>1. file \in Inodes
  BY DEF TypeOK, InodeOrNone, Scanning
<1>2. data[file] \in Seq(Chunk)
  BY <1>1 DEF TypeOK
<1>3. off + 1 \in 1..Len(data[file])
  BY <1>2 DEF TypeOK
<1> QED
  BY <1>2, <1>3 DEF NextChunk

\* The chunks of a file are numbered by naturals.
LEMMA IdsType ==
    ASSUME NEW chunks \in Seq(Chunk)
    PROVE  IdsOf(chunks) \subseteq Nat
<1>1. \A k \in DOMAIN chunks : chunks[k] \in Chunk
  OBVIOUS
<1>2. \A c \in Chunk : c.id \in Nat
  BY DEF Chunk
<1> QED
  BY <1>1, <1>2 DEF IdsOf

\* So is what lies behind an offset, which a drain cuts off or a truncation.
LEMMA FromType ==
    ASSUME TypeOK, NEW i \in Inodes, NEW k \in Nat
    PROVE  IdsFrom(i, k) \subseteq Nat
<1>1. data[i] \in Seq(Chunk)
  BY DEF TypeOK
<1>2. \A j \in (k + 1)..Len(data[i]) : data[i][j] \in Chunk
  BY <1>1
<1> QED
  BY <1>2 DEF IdsFrom, Chunk

LEMMA CutOffType ==
    ASSUME TypeOK, pc \in Scanning, NEW k \in Nat
    PROVE  CutOff(k) \subseteq Nat
<1>1. file \in Inodes
  BY DEF TypeOK, InodeOrNone, Scanning
<1> QED
  BY <1>1, FromType DEF CutOff

\* A new file is empty.
LEMMA CreateAtType ==
    ASSUME TypeOK, NEW i \in Inodes, CreateAt(i)
    PROVE  path' \in Inodes /\ data' \in [Inodes -> Seq(Chunk)]
<1>1. <<>> \in Seq(Chunk)
  OBVIOUS
<1> QED
  BY <1>1 DEF CreateAt, TypeOK

LEMMA TypeInit == Init => TypeOK
<1> SUFFICES ASSUME Init PROVE TypeOK
  OBVIOUS
<1>1. <<>> \in Seq(Chunk) /\ <<>> \in Seq(Token)
  OBVIOUS
<1>2. data \in [Inodes -> Seq(Chunk)]
  BY <1>1 DEF Init
<1>3. clock \in 0..MaxChunk /\ held \subseteq Nat
  BY DEF Init, TrackedFileAssumption
<1>4. lines \in Seq(Token) /\ out \in Seq(Token)
  BY <1>1 DEF Init
<1> QED
  BY <1>2, <1>3, <1>4 DEF Init, TypeOK, InodeOrNone, Locations, Down, Scanning

\* Nagios and the rotation keep the types.
LEMMA TypeEnvironment == TypeOK /\ Environment => TypeOK'
<1> SUFFICES ASSUME TypeOK, Environment PROVE TypeOK'
  OBVIOUS
<1> USE DEF TypeOK, InodeOrNone, fdVars
<1>1. CASE NagiosOpens
  <2>1. /\ path' \in InodeOrNone /\ writer' \in InodeOrNone
        /\ data' \in [Inodes -> Seq(Chunk)]
    BY <1>1, CreateAtType DEF NagiosOpens
  <2> QED
    BY <1>1, <2>1 DEF NagiosOpens
<1>2. CASE NagiosCloses
  BY <1>2 DEF NagiosCloses
<1>3. CASE NagiosWrites
  <2>1. \A kind \in Kinds : Append1(kind) =>
            /\ data' \in [Inodes -> Seq(Chunk)]
            /\ clock' \in 0..MaxChunk
    <3> SUFFICES ASSUME NEW kind \in Kinds, Append1(kind)
                 PROVE  /\ data' \in [Inodes -> Seq(Chunk)]
                        /\ clock' \in 0..MaxChunk
      OBVIOUS
    <3>1. writer \in Inodes
      BY <1>3 DEF NagiosWrites
    <3>2. [id |-> clock + 1, kind |-> kind] \in Chunk
      BY DEF Chunk
    <3>3. Append(data[writer], [id |-> clock + 1, kind |-> kind]) \in Seq(Chunk)
      BY <3>1, <3>2
    <3> QED
      BY <3>1, <3>3 DEF Append1
  <2>2. waived' \subseteq Nat
    BY <1>3 DEF NagiosWrites
  <2>3. /\ data' \in [Inodes -> Seq(Chunk)] /\ clock' \in 0..MaxChunk
        /\ mid' \in BOOLEAN
    BY <1>3, <2>1 DEF NagiosWrites, Kinds
  <2>4. UNCHANGED <<path, archived, writer, pc, file, ino, off, fd, held, lines, out>>
    BY <1>3 DEF NagiosWrites
  <2> QED
    BY <2>2, <2>3, <2>4
<1>4. CASE Rotate
  <2>1. path \in Inodes => IdsOf(data[path]) \subseteq Nat
    BY IdsType
  <2> QED
    BY <1>4, <2>1 DEF Rotate
<1>5. CASE RotatorCreates
  <2>1. path' \in InodeOrNone /\ data' \in [Inodes -> Seq(Chunk)]
    BY <1>5, CreateAtType DEF RotatorCreates
  <2> QED
    BY <1>5, <2>1 DEF RotatorCreates
<1>6. CASE PurgeArchive
  BY <1>6 DEF PurgeArchive
<1>7. CASE Truncate
  <2>1. waived' \subseteq Nat
    <3>1. path \in Inodes /\ off \in Nat /\ 0 \in Nat
      BY <1>7 DEF Truncate
    <3>2. IdsFrom(path, IF path = file THEN off ELSE 0) \subseteq Nat
      BY <3>1, FromType
    <3> QED
      BY <1>7, <3>2 DEF Truncate
  <2>2. data' \in [Inodes -> Seq(Chunk)]
    <3>1. <<>> \in Seq(Chunk)
      OBVIOUS
    <3> QED
      BY <1>7, <3>1 DEF Truncate
  <2> QED
    BY <1>7, <2>1, <2>2 DEF Truncate
<1> QED
  BY <1>1, <1>2, <1>3, <1>4, <1>5, <1>6, <1>7 DEF Environment

LEMMA TypeReadLines == TypeOK /\ ReadLines => TypeOK'
<1> SUFFICES ASSUME TypeOK, ReadLines PROVE TypeOK'
  OBVIOUS
<1>1. CASE ScanLine
  <2>1. Completed(NextChunk) \in Token
    BY <1>1, NextChunkType, CompletedType DEF ScanLine
  <2>2. lines' \in Seq(Token)
    BY <1>1, <2>1 DEF ScanLine, TypeOK
  <2> QED
    BY <1>1, <2>2 DEF ScanLine, TypeOK, fsVars
<1>2. CASE ScanMore
  <2>1. NextChunk.id \in Nat
    BY <1>2, NextChunkType DEF ScanMore, Chunk
  <2>2. held' \subseteq Nat
    BY <1>2, <2>1 DEF ScanMore, TypeOK
  <2> QED
    BY <1>2, <2>2 DEF ScanMore, TypeOK, fsVars
<1>3. CASE ScanTooLong
  <2>1. pc' \in {"stat", "close", "return"} /\ (pc' = "close" => pc = "drain")
    BY <1>3 DEF ScanTooLong, AfterScan, Scanning
  <2>2. waived' \subseteq Nat
    <3>1. NextChunk.id \in Nat
      BY <1>3, NextChunkType DEF ScanTooLong, Chunk
    <3>2. off \in Nat /\ waived \subseteq Nat
      BY DEF TypeOK
    <3>3. CutOff(off + 1) \subseteq Nat /\ held \subseteq Nat
      BY <1>3, <3>2, CutOffType DEF ScanTooLong, TypeOK
    <3> QED
      BY <1>3, <3>1, <3>2, <3>3 DEF ScanTooLong
  <2> QED
    BY <1>3, <2>1, <2>2 DEF ScanTooLong, TypeOK, fsVars, Locations, Scanning
<1>4. CASE ScanEnds
  <2>1. pc' \in {"stat", "close", "return"} /\ (pc' = "close" => pc = "drain")
    BY <1>4 DEF ScanEnds, AfterScan, Scanning
  <2>2. lines' \in Seq(Token)
    BY <1>4, RemainderType DEF ScanEnds, TypeOK
  <2>3. waived' \subseteq Nat
    <3>1. off \in Nat /\ waived \subseteq Nat
      BY DEF TypeOK
    <3>2. CutOff(off) \subseteq Nat
      BY <1>4, <3>1, CutOffType DEF ScanEnds
    <3> QED
      BY <1>4, <3>1, <3>2 DEF ScanEnds
  <2> QED
    BY <1>4, <2>1, <2>2, <2>3 DEF ScanEnds, TypeOK, fsVars, fdVars, Locations, Scanning
<1> QED
  BY <1>1, <1>2, <1>3, <1>4 DEF ReadLines

LEMMA ForgoneType ==
    ASSUME TypeOK, NEW i \in Inodes
    PROVE  Forgone(i) \subseteq Nat
BY IdsType DEF Forgone, TypeOK

LEMMA TypeTracker == TypeOK /\ Tracker => TypeOK'
<1> SUFFICES ASSUME TypeOK, Tracker PROVE TypeOK'
  OBVIOUS
<1> USE DEF fsVars, fdVars, Locations, Scanning, Down
<1>1. CASE Start
  BY <1>1 DEF Start, TypeOK
<1>2. CASE InitOpen
  BY <1>2 DEF InitOpen, TypeOK, InodeOrNone
<1>3. CASE InitOpenFails
  BY <1>3 DEF InitOpenFails, TypeOK
<1>4. CASE InitSeek
  <2>1. fd \in Inodes
    BY <1>4 DEF InitSeek, TypeOK, InodeOrNone
  <2>2. StartOffset(fd) \in Nat /\ IdsOf(data[fd]) \subseteq Nat
    BY <2>1, IdsType DEF StartOffset, TypeOK
  <2> QED
    BY <1>4, <2>1, <2>2 DEF InitSeek, InodeOf, TypeOK, InodeOrNone
<1>5. CASE Collect
  BY <1>5 DEF Collect, TypeOK
<1>6. CASE ReadLines
  BY <1>6, TypeReadLines
<1>7. CASE CheckRotation
  BY <1>7 DEF CheckRotation, AfterRotation, TypeOK
<1>8. CASE CheckRotationFails
  BY <1>8 DEF CheckRotationFails, TypeOK
<1>9. CASE CloseOld
  BY <1>9 DEF CloseOld, TypeOK, InodeOrNone
<1>10. CASE OpenNew
  BY <1>10 DEF OpenNew, TypeOK
<1>11. CASE OpenNewFails
  BY <1>11 DEF OpenNewFails, TypeOK
<1>12. CASE AdoptNew
  BY <1>12 DEF AdoptNew, InodeOf, TypeOK, InodeOrNone
<1>13. CASE Return
  BY <1>13 DEF Return, TypeOK
<1>14. CASE Stop
  BY <1>14 DEF Stop, TypeOK, InodeOrNone
<1>15. CASE InitSeekFails \/ FstatFails
  <2>1. fd \in Inodes
    BY <1>15 DEF InitSeekFails, FstatFails, TypeOK, InodeOrNone
  <2>2. Forgone(fd) \subseteq Nat
    BY <2>1, ForgoneType
  <2> QED
    BY <1>15, <2>2 DEF InitSeekFails, FstatFails, TypeOK, InodeOrNone
<1> QED
  BY <1>1, <1>2, <1>3, <1>4, <1>5, <1>6, <1>7, <1>8, <1>9, <1>10, <1>11, <1>12,
     <1>13, <1>14, <1>15 DEF Tracker, Starting, ReadNewLines

LEMMA TypeNext == TypeOK /\ [Next]_vars => TypeOK'
<1>1. TypeOK /\ UNCHANGED vars => TypeOK'
  BY DEF TypeOK, vars
<1> QED
  BY <1>1, TypeEnvironment, TypeTracker DEF Next

\* In every reachable state each variable has its type, and the tailer neither
\* reads nor closes a nil *os.File, under any faults.
THEOREM TypeCorrect == Spec => []TypeOK
BY TypeInit, TypeNext, PTL DEF Spec

-----------------------------------------------------------------------------
(***************************************************************************)
(* The order of what is handed over.                                       *)
(*                                                                         *)
(* InOrder is not inductive: a step that reads needs to know that what it  *)
(* reads is newer than everything read before.  That follows from where    *)
(* the descriptor stands in its file, and, across a rotation, from Nagios  *)
(* never going back to a file it has left.                                 *)
(***************************************************************************)
\* Everything handed over, or in the scanner's buffer, is older than chunk n.
Fresh(n) == \A m \in Covered(Handed) \cup held : m < n

\* A file holds its chunks in the order they were written.
Numbered ==
    \A i \in Inodes : \A k \in DOMAIN data[i] :
        /\ data[i][k].id \in 1..clock
        /\ \A j \in DOMAIN data[i] : j < k => data[i][j].id < data[i][k].id

\* An unterminated line in the buffer is newer than every line handed over.
HeldIsLast == \A m \in Covered(Handed), n \in held : m < n

\* What the position in readNewLinesFromTracker says of the descriptors: t.ino
\* is the inode of t.file, which no other file can have while it is open, and
\* a file is drained and closed only when it has left the path.
Position ==
    /\ fd # NoFile <=> pc \in {"seek", "fstat"}
    /\ file # NoFile => ino = file /\ pc \notin Down \cup {"open", "fstat"}
    /\ pc \notin Scanning => held = {}
    /\ pc \in {"drain", "close"} => path # file

\* The file the tailer has open.
Current == IF fd # NoFile THEN fd ELSE file

\* What the open file still holds for the tailer is new.
RestIsFresh ==
    /\ file # NoFile =>
           \A k \in DOMAIN data[file] : k > off => Fresh(data[file][k].id)
    /\ pc = "fstat" =>
           \A k \in DOMAIN data[fd] : Fresh(data[fd][k].id)

\* The file that has replaced the open one is new, and newer than that one,
\* which Nagios has left.
NextIsFresh ==
    pc \notin {"stopped", "init"} /\ path \notin {NoFile, Current} =>
        \A k \in DOMAIN data[path] :
            /\ Fresh(data[path][k].id)
            /\ Current # NoFile =>
                   /\ writer # Current
                   /\ \A j \in DOMAIN data[Current] :
                          data[Current][j].id < data[path][k].id

OrderInv ==
    /\ TypeOK
    /\ InOrder
    /\ Numbered
    /\ Fresh(clock + 1)
    /\ HeldIsLast
    /\ Position
    /\ RestIsFresh
    /\ NextIsFresh

\* The chunks of a file, and what has been handed over, as functions.
LEMMA DataType ==
    ASSUME TypeOK, NEW i \in Inodes
    PROVE  /\ data[i] \in Seq(Chunk)
           /\ Len(data[i]) \in Nat
           /\ DOMAIN data[i] = 1..Len(data[i])
           /\ \A k \in DOMAIN data[i] : data[i][k].id \in Nat
<1>1. data[i] \in Seq(Chunk)
  BY DEF TypeOK
<1>2. \A k \in DOMAIN data[i] : data[i][k] \in Chunk
  BY <1>1
<1>3. \A c \in Chunk : c.id \in Nat
  BY DEF Chunk
<1> QED
  BY <1>1, <1>2, <1>3

LEMMA HandedType ==
    ASSUME TypeOK
    PROVE  /\ Handed \in Seq(Token)
           /\ DOMAIN Handed = 1..Len(Handed) /\ Len(Handed) \in Nat
           /\ Covered(Handed) \cup held \subseteq Nat
<1>1. Handed \in Seq(Token)
  BY DEF TypeOK, Handed
<1>2. \A k \in DOMAIN Handed : Handed[k] \in Token
  BY <1>1
<1>3. \A t \in Token : t.of \subseteq Nat
  BY DEF Token
<1>4. Covered(Handed) \subseteq Nat
  BY <1>2, <1>3 DEF Covered
<1>5. DOMAIN Handed = 1..Len(Handed) /\ Len(Handed) \in Nat
  BY <1>1
<1>6. held \subseteq Nat
  BY DEF TypeOK
<1> QED
  BY <1>1, <1>4, <1>5, <1>6

\* What tokens cover, put together and one by one.
LEMMA CoveredParts ==
    ASSUME NEW a \in Seq(Token), NEW b \in Seq(Token)
    PROVE  Covered(a \o b) = Covered(a) \cup Covered(b)
<1>1. ASSUME NEW n \in Covered(a)
      PROVE  n \in Covered(a \o b)
  <2>1. PICK k \in DOMAIN a : n \in a[k].of
    BY <1>1 DEF Covered
  <2>2. k \in DOMAIN (a \o b) /\ (a \o b)[k] = a[k]
    OBVIOUS
  <2> QED
    BY <2>1, <2>2 DEF Covered
<1>2. ASSUME NEW n \in Covered(b)
      PROVE  n \in Covered(a \o b)
  <2>1. PICK k \in DOMAIN b : n \in b[k].of
    BY <1>2 DEF Covered
  <2>2. Len(a) + k \in DOMAIN (a \o b) /\ (a \o b)[Len(a) + k] = b[k]
    OBVIOUS
  <2> QED
    BY <2>1, <2>2 DEF Covered
<1>3. ASSUME NEW n \in Covered(a \o b)
      PROVE  n \in Covered(a) \cup Covered(b)
  <2>1. PICK k \in DOMAIN (a \o b) : n \in (a \o b)[k].of
    BY <1>3 DEF Covered
  <2>2. CASE k \in DOMAIN a
    BY <2>1, <2>2 DEF Covered
  <2>3. CASE k \notin DOMAIN a
    <3>1. k - Len(a) \in DOMAIN b /\ (a \o b)[k] = b[k - Len(a)]
      BY <2>3
    <3> QED
      BY <2>1, <3>1 DEF Covered
  <2> QED
    BY <2>2, <2>3
<1> QED
  BY <1>1, <1>2, <1>3

LEMMA CoveredSingle ==
    ASSUME NEW t \in Token
    PROVE  Covered(<<t>>) = t.of /\ <<t>> \in Seq(Token)
<1>1. DOMAIN <<t>> = {1} /\ <<t>>[1] = t /\ <<t>> \in Seq(Token)
  OBVIOUS
<1>2. \A n : n \in Covered(<<t>>) <=> n \in t.of
  BY <1>1 DEF Covered
<1> QED
  BY <1>1, <1>2

LEMMA CoveredNone == Covered(<<>>) = {}
<1>1. DOMAIN <<>> = {}
  OBVIOUS
<1> QED
  BY <1>1 DEF Covered

\* A scan adds one token at a time.
LEMMA CoveredAppend ==
    ASSUME NEW a \in Seq(Token), NEW t \in Token
    PROVE  Covered(Append(a, t)) = Covered(a) \cup t.of
<1>1. Append(a, t) = a \o <<t>> /\ <<t>> \in Seq(Token)
  OBVIOUS
<1> QED
  BY <1>1, CoveredParts, CoveredSingle

\* What an interrupted scan hands over is what it had in its buffer.
LEMMA CoveredRemainder ==
    ASSUME TypeOK
    PROVE  Covered(Remainder) = held
<1> DEFINE t == [of |-> held, whole |-> FALSE]
<1>1. held # {} => t \in Token /\ t.of = held
  BY DEF Token, TypeOK
<1>2. Remainder = IF held = {} THEN <<>> ELSE <<t>>
  BY DEF Remainder
<1> HIDE DEF t
<1> QED
  BY <1>1, <1>2, CoveredNone, CoveredSingle

\* A step that hands nothing over leaves all that InOrder depends on.
LEMMA HandedSame ==
    ASSUME UNCHANGED <<lines, out, held>>
    PROVE  /\ Handed' = Handed
           /\ InOrder => InOrder'
           /\ HeldIsLast => HeldIsLast'
           /\ \A n : Fresh(n) => Fresh(n)'
<1>1. Handed' = Handed /\ held' = held
  BY DEF Handed
<1>2. Covered(Handed)' = Covered(Handed)
  BY <1>1 DEF Covered
<1>3. InOrder => InOrder'
  BY <1>1 DEF InOrder
<1> QED
  BY <1>1, <1>2, <1>3 DEF HeldIsLast, Fresh

LEMMA FreshMonotone ==
    ASSUME TypeOK, NEW n \in Nat, NEW m \in Nat, n <= m, Fresh(n)
    PROVE  Fresh(m)
BY HandedType DEF Fresh

LEMMA OrderInit == Init => OrderInv
<1> SUFFICES ASSUME Init PROVE OrderInv
  OBVIOUS
<1>1. TypeOK
  BY TypeInit
<1>2. Handed = <<>>
  BY DEF Handed, Init
<1>3. DOMAIN Handed = {} /\ Covered(Handed) = {}
  BY <1>2, CoveredNone
<1>4. \A i \in Inodes : DOMAIN data[i] = {}
  <2>1. \A i \in Inodes : data[i] = <<>>
    BY DEF Init
  <2>2. DOMAIN <<>> = {}
    OBVIOUS
  <2> QED
    BY <2>1, <2>2
<1>5. Position
  BY DEF Init, Position, Down, Scanning
<1>6. Fresh(clock + 1) /\ InOrder /\ HeldIsLast
  BY <1>3 DEF Init, Fresh, InOrder, HeldIsLast
<1>7. Numbered
  BY <1>4 DEF Numbered
<1>8. RestIsFresh /\ NextIsFresh
  BY DEF Init, RestIsFresh, NextIsFresh
<1> QED
  BY <1>1, <1>5, <1>6, <1>7, <1>8 DEF OrderInv

\* A file created under the path is none the tailer has open.
LEMMA OrderCreateAt ==
    ASSUME OrderInv, TypeOK', NEW i \in Inodes, CreateAt(i),
           UNCHANGED <<pc, file, ino, off, fd, held, lines, out, clock>>
    PROVE  OrderInv'
<1> USE DEF OrderInv
<1>1. i \notin {file, fd} /\ path' = i
  BY DEF CreateAt, Free
<1>2. /\ data'[i] = <<>>
      /\ \A j \in Inodes : j # i => data'[j] = data[j]
  BY DEF CreateAt, TypeOK
<1>3. DOMAIN data'[i] = {}
  BY <1>2
<1>4. InOrder' /\ HeldIsLast' /\ Fresh(clock + 1)'
  BY HandedSame
<1>5. Numbered'
  BY <1>2, <1>3 DEF Numbered
<1>6. Position'
  BY <1>1 DEF Position
<1>7. RestIsFresh'
  BY <1>1, <1>2, HandedSame DEF RestIsFresh, TypeOK, InodeOrNone
<1>8. NextIsFresh'
  BY <1>1, <1>3 DEF NextIsFresh
<1> QED
  BY <1>4, <1>5, <1>6, <1>7, <1>8

LEMMA OrderNagiosWrites ==
    ASSUME OrderInv, TypeOK', NagiosWrites
    PROVE  OrderInv'
<1> USE DEF OrderInv
<1>1. PICK kind \in Kinds : Append1(kind)
  BY DEF NagiosWrites, Kinds
<1>2. writer \in Inodes /\ clock \in Nat /\ clock' = clock + 1
  BY <1>1 DEF NagiosWrites, Append1, TypeOK, InodeOrNone, TrackedFileAssumption
<1> DEFINE len == Len(data[writer])
<1>3. \A j \in Inodes : j # writer => data'[j] = data[j]
  BY <1>1 DEF Append1, TypeOK
<1>4. /\ DOMAIN data'[writer] = 1..(len + 1)
      /\ \A k \in 1..len : data'[writer][k] = data[writer][k]
      /\ data'[writer][len + 1].id = clock + 1
  <2> DEFINE c == [id |-> clock + 1, kind |-> kind]
  <2>1. data'[writer] = Append(data[writer], c)
    BY <1>1, <1>2 DEF Append1, TypeOK
  <2>2. data[writer] \in Seq(Chunk)
    BY <1>2, DataType
  <2>3. c.id = clock + 1
    OBVIOUS
  <2> QED
    BY <2>1, <2>2, <2>3
<1>5. len \in Nat /\ DOMAIN data[writer] = 1..len
  BY <1>2, DataType
<1>6. UNCHANGED <<path, writer, pc, file, ino, off, fd, held, lines, out>>
  BY DEF NagiosWrites, fdVars
<1>7. \A n : Fresh(n) => Fresh(n)'
  BY <1>6, HandedSame
<1>8. Fresh(clock + 1)'
  BY <1>2, <1>6, <1>7, FreshMonotone
\* Every chunk of a file was there before, or is the last one and the newest.
<1>9. \A i \in Inodes : \A k \in DOMAIN data'[i] :
          \/ k \in DOMAIN data[i] /\ data'[i][k].id = data[i][k].id
          \/ /\ i = writer
             /\ data'[i][k].id = clock + 1
             /\ \A j \in DOMAIN data'[i] : j < k => j \in DOMAIN data[i]
  <2> SUFFICES ASSUME NEW i \in Inodes, NEW k \in DOMAIN data'[i]
               PROVE  \/ k \in DOMAIN data[i] /\ data'[i][k].id = data[i][k].id
                      \/ /\ i = writer
                         /\ data'[i][k].id = clock + 1
                         /\ \A j \in DOMAIN data'[i] : j < k => j \in DOMAIN data[i]
    OBVIOUS
  <2>1. CASE i # writer
    BY <1>3, <2>1
  <2>2. CASE i = writer /\ k \in 1..len
    BY <1>4, <1>5, <2>2
  <2>3. CASE i = writer /\ k = len + 1
    BY <1>4, <1>5, <2>3
  <2> QED
    BY <1>4, <1>5, <2>1, <2>2, <2>3
<1>10. Numbered'
  <2> SUFFICES ASSUME NEW i \in Inodes, NEW k \in DOMAIN data'[i]
               PROVE  /\ data'[i][k].id \in 1..clock'
                      /\ \A j \in DOMAIN data'[i] :
                             j < k => data'[i][j].id < data'[i][k].id
    BY DEF Numbered
  <2>1. CASE k \in DOMAIN data[i] /\ data'[i][k].id = data[i][k].id
    <3>1. \A j \in DOMAIN data'[i] :
              j < k => j \in DOMAIN data[i] /\ data'[i][j].id = data[i][j].id
      BY SMTT(30), <1>3, <1>4, <1>5, <2>1, DataType
    <3> QED
      BY <1>2, <2>1, <3>1 DEF Numbered
  <2>2. CASE /\ i = writer
             /\ data'[i][k].id = clock + 1
             /\ \A j \in DOMAIN data'[i] : j < k => j \in DOMAIN data[i]
    <3>1. \A j \in DOMAIN data[i] : data'[i][j].id \in 1..clock
      BY <1>4, <1>5, <2>2 DEF Numbered
    <3> QED
      BY <1>2, <2>2, <3>1
  <2> QED
    BY <1>9, <2>1, <2>2
<1>11. Position'
  BY <1>6 DEF Position
<1>12. RestIsFresh'
  <2>1. /\ file # NoFile => file \in Inodes
        /\ pc = "fstat" => fd \in Inodes
    BY DEF TypeOK, InodeOrNone
  <2>2. Fresh(clock + 1)
    OBVIOUS
  <2>3. ASSUME file # NoFile, NEW k \in DOMAIN data'[file], k > off
        PROVE  Fresh(data[file][k].id)'
    <3>1. Fresh(data'[file][k].id)
      BY <1>9, <2>1, <2>2, <2>3 DEF RestIsFresh
    <3> QED
      BY <1>6, <3>1, HandedSame DEF Fresh
  <2>4. ASSUME pc = "fstat", NEW k \in DOMAIN data'[fd]
        PROVE  Fresh(data[fd][k].id)'
    <3>1. Fresh(data'[fd][k].id)
      BY <1>9, <2>1, <2>2, <2>4 DEF RestIsFresh
    <3> QED
      BY <1>6, <3>1, HandedSame DEF Fresh
  <2> QED
    BY <1>6, <2>3, <2>4 DEF RestIsFresh
<1>13. NextIsFresh'
  <2> SUFFICES ASSUME pc \notin {"stopped", "init"}, path \notin {NoFile, Current},
                      NEW k \in DOMAIN data'[path]
               PROVE  /\ Fresh(data[path][k].id)'
                      /\ Current # NoFile =>
                            /\ writer # Current
                            /\ \A j \in DOMAIN data'[Current] :
                                   data'[Current][j].id < data'[path][k].id
    BY <1>6 DEF NextIsFresh, Current
  <2>1. path \in Inodes /\ (Current # NoFile => Current \in Inodes)
    BY DEF TypeOK, InodeOrNone, Current
  <2>2. Fresh(clock + 1)
    OBVIOUS
  <2>3. Fresh(data'[path][k].id)
    BY <1>9, <2>1, <2>2 DEF NextIsFresh
  <2>4. Fresh(data[path][k].id)'
    BY <1>6, <2>3, HandedSame DEF Fresh
  <2>5. ASSUME Current # NoFile
        PROVE  writer # Current
    BY <1>9, <2>1, <2>5 DEF NextIsFresh
  <2>6. ASSUME Current # NoFile, NEW j \in DOMAIN data'[Current]
        PROVE  data'[Current][j].id < data'[path][k].id
    <3>1. data'[Current] = data[Current]
      BY <1>3, <2>1, <2>5, <2>6
    <3>2. data[Current][j].id \in 1..clock
      BY <2>1, <2>6, <3>1 DEF Numbered
    <3> QED
      BY <1>2, <1>9, <2>1, <2>6, <3>1, <3>2 DEF NextIsFresh
  <2> QED
    BY <2>4, <2>5, <2>6
<1>14. InOrder' /\ HeldIsLast'
  BY <1>6, HandedSame
<1> QED
  BY <1>8, <1>10, <1>11, <1>12, <1>13, <1>14

\* Nagios, the rotation and its clean-up keep the order.
LEMMA OrderEnvironment ==
    ASSUME OrderInv, Environment
    PROVE  OrderInv'
<1> USE DEF OrderInv
<1>1. TypeOK'
  BY TypeEnvironment
<1>2. UNCHANGED <<pc, file, ino, off, fd, held, lines, out>>
  BY DEF Environment, NagiosOpens, NagiosCloses, NagiosWrites, Rotate,
         RotatorCreates, PurgeArchive, Truncate, fdVars
<1>3. /\ InOrder' /\ HeldIsLast'
      /\ \A n : Fresh(n) => Fresh(n)'
  BY <1>2, HandedSame
<1>4. CASE NagiosOpens
  <2>1. CASE path = NoFile
    BY <1>1, <1>2, <1>4, <2>1, OrderCreateAt DEF NagiosOpens
  <2>2. CASE path # NoFile
    BY <1>1, <1>2, <1>3, <1>4, <2>2 DEF NagiosOpens, Numbered, Position, RestIsFresh,
                                        NextIsFresh, Current
  <2> QED
    BY <2>1, <2>2
<1>5. CASE NagiosCloses
  BY <1>1, <1>2, <1>3, <1>5 DEF NagiosCloses, Numbered, Position, RestIsFresh,
                                NextIsFresh, Current
<1>6. CASE NagiosWrites
  BY <1>1, <1>6, OrderNagiosWrites
<1>7. CASE Rotate
  <2>1. path' = NoFile /\ UNCHANGED <<data, writer, clock>>
    BY <1>7 DEF Rotate
  <2>2. pc \in {"drain", "close"} => file # NoFile
    BY DEF TypeOK, Scanning
  <2>3. Position'
    BY <1>2, <2>1, <2>2 DEF Position
  <2>4. NextIsFresh'
    BY <2>1 DEF NextIsFresh
  <2> QED
    BY <1>1, <1>2, <1>3, <2>1, <2>3, <2>4 DEF Numbered, RestIsFresh
<1>8. CASE RotatorCreates
  BY <1>1, <1>2, <1>8, OrderCreateAt DEF RotatorCreates
<1>9. CASE PurgeArchive
  BY <1>1, <1>2, <1>3, <1>9 DEF PurgeArchive, Numbered, Position, RestIsFresh,
                                NextIsFresh, Current
<1>10. CASE Truncate
  <2>1. /\ path \in Inodes
        /\ DOMAIN data'[path] = {}
        /\ \A j \in Inodes : j # path => data'[j] = data[j]
    BY <1>10 DEF Truncate, TypeOK, InodeOrNone
  <2>2. UNCHANGED <<path, writer, clock>>
    BY <1>10 DEF Truncate
  <2>3. Numbered'
    BY <2>1, <2>2 DEF Numbered
  <2>4. RestIsFresh'
    BY <1>2, <1>3, <2>1 DEF RestIsFresh, TypeOK, InodeOrNone
  <2>5. NextIsFresh'
    BY <2>1, <2>2 DEF NextIsFresh
  <2> QED
    BY <1>1, <1>2, <1>3, <2>2, <2>3, <2>4, <2>5 DEF Position
<1> QED
  BY <1>4, <1>5, <1>6, <1>7, <1>8, <1>9, <1>10 DEF Environment

\* A token newer than all handed over, and not newer than n, keeps the order.
LEMMA AppendInOrder ==
    ASSUME OrderInv, TypeOK', NEW t \in Token, NEW n \in Nat,
           lines' = Append(lines, t), out' = out,
           \A m \in Covered(Handed), l \in t.of : m < l,
           Fresh(n), \A l \in t.of \cup held' : l < n
    PROVE  InOrder' /\ Fresh(n)'
<1> USE DEF OrderInv
<1>1. lines \in Seq(Token) /\ out \in Seq(Token)
  BY DEF TypeOK
<1> DEFINE len == Len(Handed)
<1>2. len \in Nat /\ DOMAIN Handed = 1..len
  BY HandedType
<1>3. Handed' = Append(Handed, t)
  BY <1>1 DEF Handed
<1>4. /\ DOMAIN Handed' = 1..(len + 1)
      /\ \A k \in 1..len : Handed'[k] = Handed[k]
      /\ Handed'[len + 1] = t
  BY <1>3, HandedType
<1>5. InOrder'
  <2> SUFFICES ASSUME NEW i \in 1..(len + 1), NEW j \in 1..(len + 1), i < j
               PROVE  \A m \in Handed'[i].of, l \in Handed'[j].of : m < l
    BY <1>4 DEF InOrder
  <2>1. i \in 1..len
    BY <1>2
  <2>2. CASE j \in 1..len
    BY <1>2, <1>4, <2>1, <2>2 DEF InOrder
  <2>3. CASE j = len + 1
    <3>1. Handed[i].of \subseteq Covered(Handed)
      BY <1>2, <2>1 DEF Covered
    <3> QED
      BY <1>2, <1>4, <2>1, <2>3, <3>1
  <2> QED
    BY <1>2, <2>2, <2>3
<1>6. Fresh(n)'
  <2>1. Covered(Handed') = Covered(Handed) \cup t.of
    BY <1>3, HandedType, CoveredAppend
  <2>2. Covered(Handed)' = Covered(Handed')
    BY DEF Covered
  <2> QED
    BY <2>1, <2>2 DEF Fresh
<1> QED
  BY <1>5, <1>6

\* What a scan that consumes at most the next chunk keeps, when all it makes
\* stale is that chunk.
LEMMA ScanKeeps ==
    ASSUME OrderInv, TypeOK', pc \in Scanning, pc' # "fstat",
           UNCHANGED <<path, data, writer, clock, file, fd>>,
           \/ off' = off
           \/ off' = off + 1 /\ off < Len(data[file]),
           \A n \in Nat : Fresh(n) /\ (off' # off => NextChunk.id < n) => Fresh(n)'
    PROVE  Fresh(clock + 1)' /\ RestIsFresh' /\ NextIsFresh' /\ Numbered'
<1> USE DEF OrderInv
<1>1. file \in Inodes /\ fd = NoFile /\ off \in Nat /\ clock \in Nat
  BY DEF TypeOK, InodeOrNone, Scanning, Position, TrackedFileAssumption
<1>2. /\ \A k \in DOMAIN data[file] : data[file][k].id \in 1..clock
      /\ \A k \in DOMAIN data[file] : \A j \in DOMAIN data[file] :
            j < k => data[file][j].id < data[file][k].id
      /\ DOMAIN data[file] = 1..Len(data[file])
      /\ Len(data[file]) \in Nat
  BY <1>1, DataType DEF Numbered
<1>3. off' # off => /\ off + 1 \in DOMAIN data[file]
                    /\ NextChunk = data[file][off + 1]
  BY <1>1, <1>2 DEF NextChunk
<1>4. Fresh(clock + 1)'
  <2>1. Fresh(clock + 1)
    OBVIOUS
  <2>2. off' # off => NextChunk.id < clock + 1
    BY <1>1, <1>2, <1>3
  <2> QED
    BY <1>1, <2>1, <2>2
<1>5. RestIsFresh'
  <2> SUFFICES ASSUME NEW k \in DOMAIN data[file], k > off'
               PROVE  Fresh(data[file][k].id)'
    BY <1>1 DEF RestIsFresh
  <2>1. Fresh(data[file][k].id) /\ data[file][k].id \in Nat
    BY <1>1, <1>2 DEF RestIsFresh
  <2>2. off' # off => NextChunk.id < data[file][k].id
    BY <1>1, <1>2, <1>3
  <2> QED
    BY <2>1, <2>2
<1>6. NextIsFresh'
  <2> SUFFICES ASSUME path \notin {NoFile, Current}, NEW k \in DOMAIN data[path]
               PROVE  Fresh(data[path][k].id)' /\
                      (Current # NoFile =>
                            /\ writer # Current
                            /\ \A j \in DOMAIN data[Current] :
                                   data[Current][j].id < data[path][k].id)
    BY DEF NextIsFresh, Current
  <2>1. Current = file /\ pc \notin {"stopped", "init"} /\ file # NoFile
    BY <1>1 DEF Current, Scanning, TypeOK
  <2>2. /\ Fresh(data[path][k].id)
        /\ writer # file
        /\ \A j \in DOMAIN data[file] : data[file][j].id < data[path][k].id
    BY <2>1 DEF NextIsFresh
  <2>3. data[path][k].id \in Nat
    BY DataType DEF TypeOK, InodeOrNone
  <2>4. off' # off => NextChunk.id < data[path][k].id
    BY <1>3, <2>2
  <2> QED
    BY <2>1, <2>2, <2>3, <2>4
<1> QED
  BY <1>4, <1>5, <1>6 DEF Numbered

LEMMA OrderReadLines ==
    ASSUME OrderInv, ReadLines
    PROVE  OrderInv'
<1> USE DEF OrderInv
<1>1. TypeOK'
  BY TypeReadLines
<1>2. pc \in Scanning
  BY DEF ReadLines, ScanLine, ScanMore, ScanTooLong, ScanEnds
<1>3. file \in Inodes /\ fd = NoFile /\ off \in Nat
  BY <1>2 DEF TypeOK, InodeOrNone, Scanning, Position
<1>4. off < Len(data[file]) =>
          /\ NextChunk \in Chunk /\ NextChunk.id \in Nat
          /\ Fresh(NextChunk.id)
  <2> SUFFICES ASSUME off < Len(data[file])
               PROVE  NextChunk \in Chunk /\ NextChunk.id \in Nat /\ Fresh(NextChunk.id)
    OBVIOUS
  <2>1. NextChunk \in Chunk /\ NextChunk.id \in Nat
    BY <1>2, NextChunkType DEF Chunk
  <2>2. off + 1 \in DOMAIN data[file]
    BY <1>3, DataType
  <2> QED
    BY <1>3, <2>1, <2>2 DEF RestIsFresh, NextChunk
<1>5. UNCHANGED <<path, data, writer, clock, file, ino, fd, out>>
  BY DEF ReadLines, ScanLine, ScanMore, ScanTooLong, ScanEnds, fsVars, fdVars
<1>6. held \subseteq Nat
  BY HandedType
<1>7. CASE ScanLine
  <2> DEFINE t == Completed(NextChunk)
  <2>1. lines' = Append(lines, t) /\ held' = {} /\ off' = off + 1 /\ pc' = pc
    BY <1>7 DEF ScanLine
  <2>2. off < Len(data[file])
    BY <1>7 DEF ScanLine
  <2>3. t \in Token /\ t.of = held \cup {NextChunk.id}
    BY <1>4, <2>2, CompletedType DEF Completed
  <2>4. \A m \in Covered(Handed), l \in t.of : m < l
    BY <1>4, <2>2, <2>3 DEF Fresh, HeldIsLast
  <2>5. \A n \in Nat : Fresh(n) /\ NextChunk.id < n => InOrder' /\ Fresh(n)'
    <3> SUFFICES ASSUME NEW n \in Nat, Fresh(n), NextChunk.id < n
                 PROVE  InOrder' /\ Fresh(n)'
      OBVIOUS
    <3>1. \A l \in t.of \cup held' : l < n
      BY <2>1, <2>3 DEF Fresh
    <3> QED
      BY <1>1, <1>5, <2>1, <2>3, <2>4, <3>1, AppendInOrder
  <2>6. Fresh(clock + 1)' /\ RestIsFresh' /\ NextIsFresh' /\ Numbered'
    BY <1>1, <1>2, <1>3, <1>5, <2>1, <2>2, <2>5, ScanKeeps DEF Scanning
  <2>7. InOrder'
    <3>1. NextChunk.id + 1 \in Nat /\ NextChunk.id < NextChunk.id + 1
      BY <1>4, <2>2
    <3>2. Fresh(NextChunk.id + 1)
      BY <1>4, <2>2, <3>1, FreshMonotone
    <3> QED
      BY <2>5, <3>1, <3>2
  <2>8. HeldIsLast' /\ Position'
    BY <1>2, <1>5, <2>1 DEF HeldIsLast, Position
  <2> QED
    BY <1>1, <2>6, <2>7, <2>8
<1>8. CASE ScanMore
  <2>1. UNCHANGED <<lines, out, pc>> /\ off' = off + 1 /\ off < Len(data[file])
    BY <1>8 DEF ScanMore
  <2>2. held' = held \cup {NextChunk.id}
    BY <1>8 DEF ScanMore
  <2>3. Handed' = Handed
    BY <2>1 DEF Handed
  <2>4. \A n \in Nat : Fresh(n) /\ NextChunk.id < n => Fresh(n)'
    BY <2>2, <2>3 DEF Fresh, Covered
  <2>5. Fresh(clock + 1)' /\ RestIsFresh' /\ NextIsFresh' /\ Numbered'
    BY <1>1, <1>2, <1>3, <1>5, <2>1, <2>4, ScanKeeps DEF Scanning
  <2>6. InOrder' /\ HeldIsLast'
    BY <1>4, <2>1, <2>2, <2>3 DEF InOrder, HeldIsLast, Fresh, Covered
  <2>7. Position'
    BY <1>2, <1>5, <2>1 DEF Position
  <2> QED
    BY <1>1, <2>5, <2>6, <2>7
<1>9. CASE ScanTooLong
  <2>1. UNCHANGED <<lines, out>> /\ off' = off + 1 /\ off < Len(data[file])
    BY <1>9 DEF ScanTooLong
  <2>2. held' = {} /\ pc' = AfterScan
    BY <1>9 DEF ScanTooLong
  <2>3. Handed' = Handed
    BY <2>1 DEF Handed
  <2>4. \A n \in Nat : Fresh(n) /\ NextChunk.id < n => Fresh(n)'
    BY <2>2, <2>3 DEF Fresh, Covered
  <2>5. pc' # "fstat" /\ pc' \notin Scanning \cup Down
        /\ pc' # "open" /\ (pc' = "close" => pc = "drain")
    BY <1>2, <2>2 DEF AfterScan, Scanning, Down
  <2>6. Fresh(clock + 1)' /\ RestIsFresh' /\ NextIsFresh' /\ Numbered'
    BY <1>1, <1>2, <1>3, <1>5, <2>1, <2>4, <2>5, ScanKeeps
  <2>7. InOrder' /\ HeldIsLast'
    BY <2>2, <2>3 DEF InOrder, HeldIsLast
  <2>8. Position'
    BY <1>2, <1>3, <1>5, <2>2, <2>5 DEF Position, Scanning, Down
  <2> QED
    BY <1>1, <2>6, <2>7, <2>8
<1>10. CASE ScanEnds
  <2>1. /\ lines' = lines \o Remainder
        /\ held' = {} /\ pc' = AfterScan /\ off' = off
    BY <1>10 DEF ScanEnds, fdVars
  <2>2. pc' # "fstat" /\ pc' \notin Scanning \cup Down
        /\ pc' # "open" /\ (pc' = "close" => pc = "drain")
    BY <1>2, <2>1 DEF AfterScan, Scanning, Down
  <2> DEFINE t == [of |-> held, whole |-> FALSE]
  <2>3. held # {} => t \in Token /\ t.of = held
    BY <1>6 DEF Token
  <2>4. \A n \in Nat : Fresh(n) => InOrder' /\ Fresh(n)'
    <3> SUFFICES ASSUME NEW n \in Nat, Fresh(n)
                 PROVE  InOrder' /\ Fresh(n)'
      OBVIOUS
    <3>1. \A l \in held \cup held' : l < n
      BY <2>1 DEF Fresh
    <3>2. CASE held = {}
      <4>1. lines' = lines
        BY <2>1, <3>2 DEF Remainder, TypeOK
      <4> QED
        BY <1>5, <2>1, <3>2, <4>1, HandedSame
    <3>3. CASE held # {}
      <4>1. lines' = Append(lines, t)
        <5>1. lines \in Seq(Token) /\ Remainder = <<t>>
          BY <3>3 DEF Remainder, TypeOK
        <5> QED
          BY <2>1, <2>3, <5>1
      <4>2. \A m \in Covered(Handed), l \in t.of : m < l
        BY <2>3, <3>3 DEF HeldIsLast
      <4> QED
        BY <1>1, <1>5, <2>3, <3>1, <3>3, <4>1, <4>2, AppendInOrder
    <3> QED
      BY <3>2, <3>3
  <2>5. Fresh(clock + 1)' /\ RestIsFresh' /\ NextIsFresh' /\ Numbered'
    BY <1>1, <1>2, <1>3, <1>5, <2>1, <2>2, <2>4, ScanKeeps
  <2>6. InOrder'
    <3>1. clock + 1 \in Nat /\ Fresh(clock + 1)
      BY DEF TypeOK, TrackedFileAssumption
    <3> QED
      BY <2>4, <3>1
  <2>7. HeldIsLast' /\ Position'
    BY <1>2, <1>3, <1>5, <2>1, <2>2 DEF HeldIsLast, Position, Scanning, Down
  <2> QED
    BY <1>1, <2>5, <2>6, <2>7
<1> QED
  BY <1>7, <1>8, <1>9, <1>10 DEF ReadLines

\* The steps of start, of readNewLinesFromTracker around its scans, and of
\* shutdown.  None of them hands anything over.
LEMMA OrderTracker ==
    ASSUME OrderInv, Tracker
    PROVE  OrderInv'
<1> USE DEF OrderInv, fsVars, fdVars
<1>1. TypeOK'
  BY TypeTracker
<1>2. ASSUME UNCHANGED <<fsVars, lines, out, held>>
      PROVE  /\ InOrder' /\ HeldIsLast' /\ Fresh(clock + 1)' /\ Numbered'
             /\ \A n : Fresh(n) => Fresh(n)'
  BY <1>2, HandedSame DEF Numbered
<1>3. ASSUME UNCHANGED <<fsVars, fdVars, lines, out, held>>,
             pc \notin {"stopped", "init"}, Position', pc' # "fstat"
      PROVE  OrderInv'
  BY <1>1, <1>2, <1>3 DEF RestIsFresh, NextIsFresh, Current
<1>4. CASE Start
  BY <1>1, <1>2, <1>4 DEF Start, Position, RestIsFresh, NextIsFresh, Down, Scanning
<1>5. CASE InitOpen
  <2>1. file = NoFile /\ pc = "init" /\ fd' = path /\ file' = file
        /\ UNCHANGED <<fsVars, lines, out, held>>
    BY <1>5 DEF InitOpen, Position, Down
  <2>2. Position'
    BY <1>5, <2>1 DEF InitOpen, Position, Down, Scanning
  <2>3. RestIsFresh' /\ NextIsFresh'
    BY <1>5, <2>1 DEF InitOpen, RestIsFresh, NextIsFresh, Current
  <2> QED
    BY <1>1, <1>2, <2>1, <2>2, <2>3
<1>6. CASE InitOpenFails
  BY <1>1, <1>2, <1>6 DEF InitOpenFails, Position, RestIsFresh, NextIsFresh, Down,
                          Scanning
<1>7. CASE InitSeek
  <2>1. /\ pc = "seek" /\ pc' = "idle" /\ fd \in Inodes /\ file' = fd /\ ino' = fd
        /\ fd' = NoFile /\ off' = Len(data[fd])
        /\ UNCHANGED <<fsVars, lines, out, held>>
    BY <1>7 DEF InitSeek, InodeOf, StartOffset, TypeOK, InodeOrNone
  <2>2. Position'
    BY <2>1 DEF Position, Down, Scanning
  <2>3. RestIsFresh'
    BY <2>1, DataType DEF RestIsFresh
  <2>4. Current' = Current
    BY <2>1 DEF Current, TrackedFileAssumption
  <2>5. NextIsFresh'
    BY <1>2, <2>1, <2>4 DEF NextIsFresh
  <2> QED
    BY <1>1, <1>2, <2>1, <2>2, <2>3, <2>5
<1>8. CASE Collect
  <2>1. Position'
    BY <1>8 DEF Collect, Position, Down, Scanning
  <2> QED
    BY <1>3, <1>8, <2>1 DEF Collect
<1>9. CASE ReadLines
  BY <1>9, OrderReadLines
<1>10. CASE CheckRotation
  <2>1. pc' = "drain" => path # file
    BY <1>10 DEF CheckRotation, AfterRotation, Rotated, Position
  <2>2. pc' \in {"drain", "open", "return"} /\ (pc' = "open" => file = NoFile)
    BY <1>10 DEF CheckRotation, AfterRotation
  <2>3. Position'
    BY <1>10, <2>1, <2>2 DEF CheckRotation, Position, Down, Scanning
  <2> QED
    BY <1>3, <1>10, <2>2, <2>3 DEF CheckRotation
<1>11. CASE CheckRotationFails
  <2>1. Position'
    BY <1>11 DEF CheckRotationFails, Position, Down, Scanning
  <2> QED
    BY <1>3, <1>11, <2>1 DEF CheckRotationFails
<1>12. CASE CloseOld
  <2>1. /\ pc = "close" /\ pc' = "open" /\ file' = NoFile /\ fd' = fd /\ fd = NoFile
        /\ UNCHANGED <<fsVars, lines, out, held>>
    BY <1>12 DEF CloseOld, Position
  <2>2. Position'
    BY <2>1 DEF Position, Down, Scanning
  <2>3. RestIsFresh'
    BY <2>1 DEF RestIsFresh
  <2>4. path # file /\ Current = file /\ Current' = NoFile
    BY <2>1 DEF Position, Current
  <2>5. NextIsFresh'
    BY <1>2, <2>1, <2>4 DEF NextIsFresh
  <2> QED
    BY <1>1, <1>2, <2>1, <2>2, <2>3, <2>5
<1>13. CASE OpenNew
  <2>1. /\ pc = "open" /\ file = NoFile /\ fd = NoFile /\ fd' = path /\ file' = file
        /\ pc' = IF path = NoFile THEN "return" ELSE "fstat"
        /\ UNCHANGED <<fsVars, lines, out, held>>
    BY <1>13 DEF OpenNew, Position
  <2>2. Position'
    BY <2>1 DEF Position, Down, Scanning
  <2>3. Current = NoFile
    BY <2>1 DEF Current
  <2>4. RestIsFresh'
    BY <1>2, <2>1, <2>3 DEF RestIsFresh, NextIsFresh
  <2>5. NextIsFresh'
    BY <2>1 DEF NextIsFresh, Current
  <2> QED
    BY <1>1, <1>2, <2>1, <2>2, <2>4, <2>5
<1>14. CASE OpenNewFails
  <2>1. Position'
    BY <1>14 DEF OpenNewFails, Position, Down, Scanning
  <2> QED
    BY <1>3, <1>14, <2>1 DEF OpenNewFails
<1>15. CASE AdoptNew
  <2>1. /\ pc = "fstat" /\ pc' = "readNew" /\ fd \in Inodes /\ file' = fd
        /\ ino' = fd /\ fd' = NoFile /\ off' = 0
        /\ UNCHANGED <<fsVars, lines, out, held>>
    BY <1>15 DEF AdoptNew, InodeOf, TypeOK, InodeOrNone
  <2>2. Position'
    BY <2>1 DEF Position, Down, Scanning
  <2>3. RestIsFresh'
    BY <1>2, <2>1 DEF RestIsFresh
  <2>4. Current' = Current
    BY <2>1 DEF Current, TrackedFileAssumption
  <2>5. NextIsFresh'
    BY <1>2, <2>1, <2>4 DEF NextIsFresh
  <2> QED
    BY <1>1, <1>2, <2>1, <2>2, <2>3, <2>5
<1>16. CASE Return
  <2>1. /\ pc = "return" /\ pc' = "idle" /\ out' = out \o lines /\ lines' = <<>>
        /\ UNCHANGED <<fsVars, fdVars, held>>
    BY <1>16 DEF Return
  <2>2. Handed' = Handed
    <3>1. lines \in Seq(Token) /\ out \in Seq(Token)
      BY DEF TypeOK
    <3> QED
      BY <2>1, <3>1 DEF Handed
  <2>3. \A n : Fresh(n) => Fresh(n)'
    BY <2>1, <2>2 DEF Fresh, Covered
  <2>4. InOrder' /\ HeldIsLast' /\ Fresh(clock + 1)' /\ Numbered'
    BY <2>1, <2>2, <2>3 DEF InOrder, HeldIsLast, Numbered, Covered
  <2>5. Position'
    BY <2>1 DEF Position, Down, Scanning
  <2>6. RestIsFresh' /\ NextIsFresh'
    BY <2>1, <2>3 DEF RestIsFresh, NextIsFresh, Current
  <2> QED
    BY <1>1, <2>4, <2>5, <2>6
<1>17. CASE Stop
  <2>1. /\ pc' = "stopped" /\ file' = NoFile /\ fd' = NoFile /\ held' = {}
        /\ lines' = <<>> /\ out' = out /\ UNCHANGED fsVars
    BY <1>17 DEF Stop
  <2>2. lines \in Seq(Token) /\ out \in Seq(Token)
    BY DEF TypeOK
  <2>3. Handed' = out
    BY <2>1, <2>2 DEF Handed
  <2>4. DOMAIN out \subseteq DOMAIN Handed /\ \A k \in DOMAIN out : Handed[k] = out[k]
    BY <2>2 DEF Handed
  <2>5. InOrder'
    BY <2>3, <2>4 DEF InOrder
  <2>6. Fresh(clock + 1)'
    <3>1. Covered(out) \subseteq Covered(Handed)
      BY <2>4 DEF Covered
    <3>2. Covered(Handed)' = Covered(out)
      BY <2>3 DEF Covered
    <3> QED
      BY <2>1, <3>1, <3>2 DEF Fresh
  <2>7. HeldIsLast' /\ Numbered'
    BY <2>1 DEF HeldIsLast, Numbered
  <2>8. Position' /\ RestIsFresh' /\ NextIsFresh'
    BY <2>1 DEF Position, RestIsFresh, NextIsFresh, Scanning
  <2> QED
    BY <1>1, <2>5, <2>6, <2>7, <2>8
<1>18. CASE InitSeekFails
  <2>1. /\ pc = "seek" /\ pc' = "stopped" /\ fd' = NoFile /\ file' = file /\ file = NoFile
        /\ UNCHANGED <<fsVars, lines, out, held>>
    BY <1>18 DEF InitSeekFails, Position, Down
  <2>2. Position' /\ RestIsFresh' /\ NextIsFresh'
    BY <2>1 DEF Position, RestIsFresh, NextIsFresh, Down, Scanning
  <2> QED
    BY <1>1, <1>2, <2>1, <2>2
<1>19. CASE FstatFails
  <2>1. /\ pc = "fstat" /\ pc' = "return" /\ fd # NoFile /\ fd' = NoFile
        /\ file' = file /\ file = NoFile
        /\ UNCHANGED <<fsVars, lines, out, held>>
    BY <1>19 DEF FstatFails, Position
  <2>2. Position' /\ RestIsFresh'
    BY <2>1 DEF Position, RestIsFresh, Down, Scanning
  <2>3. Current = fd /\ Current' = NoFile
    BY <2>1 DEF Current
  <2>4. path # NoFile => \A k \in DOMAIN data[path] : Fresh(data[path][k].id)
    BY <2>1, <2>3 DEF RestIsFresh, NextIsFresh
  <2>5. NextIsFresh'
    BY <1>2, <2>1, <2>3, <2>4 DEF NextIsFresh
  <2> QED
    BY <1>1, <1>2, <2>1, <2>2, <2>5
<1> QED
  BY <1>4, <1>5, <1>6, <1>7, <1>8, <1>9, <1>10, <1>11, <1>12, <1>13, <1>14, <1>15,
     <1>16, <1>17, <1>18, <1>19 DEF Tracker, Starting, ReadNewLines

LEMMA OrderNext == OrderInv /\ [Next]_vars => OrderInv'
<1>1. OrderInv /\ UNCHANGED vars => OrderInv'
  BY TypeNext DEF OrderInv, vars, InOrder, Numbered, Fresh, HeldIsLast, Position,
                  RestIsFresh, NextIsFresh, Current, Handed, Covered
<1> QED
  BY <1>1, OrderEnvironment, OrderTracker DEF Next

\* The lines a tailer hands over are in the order Nagios wrote them and none is
\* handed over twice, for any faults, any number of rotations and restarts.
THEOREM LinesInOrder == Spec => []InOrder
<1>1. Spec => []OrderInv
  BY OrderInit, OrderNext, PTL DEF Spec
<1>2. OrderInv => InOrder
  BY DEF OrderInv
<1> QED
  BY <1>1, <1>2, PTL

-----------------------------------------------------------------------------
(***************************************************************************)
(* That no line is lost: for any set of inodes, any number of chunks and   *)
(* any set of faults, none is lost without one of the causes that          *)
(* TrackedFile names.                                                      *)
(***************************************************************************)
\* What a drain has left of the old file by the time it is closed is lost for a
\* cause: the drain failed, met a line beyond 64 KiB, or a late writer came
\* after it.
Drained == pc = "close" => IdsFrom(file, off) \subseteq waived

-----------------------------------------------------------------------------
(***************************************************************************)
(* The sets of chunks.                                                     *)
(***************************************************************************)
\* A file's chunks are the ones behind offset 0, and an offset cuts off no more
\* than it has passed.
LEMMA FromZero ==
    ASSUME TypeOK, NEW i \in Inodes
    PROVE  IdsOf(data[i]) = IdsFrom(i, 0)
BY DataType DEF IdsOf, IdsFrom

LEMMA FromNext ==
    ASSUME TypeOK, pc \in Scanning, off < Len(data[file])
    PROVE  IdsFrom(file, off) \subseteq {NextChunk.id} \cup IdsFrom(file, off + 1)
<1>1. file \in Inodes /\ off \in Nat
  BY DEF TypeOK, InodeOrNone, Scanning
<1>2. Len(data[file]) \in Nat
  BY <1>1, DataType
<1>3. \A j \in (off + 1)..Len(data[file]) : j = off + 1 \/ j \in (off + 1 + 1)..Len(data[file])
  BY <1>1, <1>2
<1> QED
  BY <1>3 DEF IdsFrom, NextChunk

LEMMA FromBeyond ==
    ASSUME TypeOK, NEW i \in Inodes, NEW k \in Nat, Len(data[i]) <= k
    PROVE  IdsFrom(i, k) = {}
<1>1. (k + 1)..Len(data[i]) = {}
  BY DataType
<1> QED
  BY <1>1 DEF IdsFrom

\* Nothing that is read, opened or renamed changes what a file holds.
LEMMA FromSame ==
    ASSUME UNCHANGED data
    PROVE  \A i, k : IdsFrom(i, k)' = IdsFrom(i, k)
BY DEF IdsFrom

\* A truncation leaves nothing in its file, and the others alone.
LEMMA FromTruncated ==
    ASSUME TypeOK, NEW i \in Inodes, data' = [data EXCEPT ![i] = <<>>]
    PROVE  \A j \in Inodes, k \in Nat :
               IdsFrom(j, k)' = IF j = i THEN {} ELSE IdsFrom(j, k)
<1> SUFFICES ASSUME NEW j \in Inodes, NEW k \in Nat
             PROVE  IdsFrom(j, k)' = IF j = i THEN {} ELSE IdsFrom(j, k)
  OBVIOUS
<1>1. CASE j = i
  <2>1. data'[j] = <<>> /\ (k + 1)..0 = {}
    BY <1>1 DEF TypeOK
  <2> QED
    BY <1>1, <2>1 DEF IdsFrom
<1>2. CASE j # i
  BY <1>2 DEF TypeOK, IdsFrom
<1> QED
  BY <1>1, <1>2

\* An append adds its chunk behind every offset within the file.
LEMMA FromAppend ==
    ASSUME TypeOK, NEW w \in Inodes, NEW c \in Chunk,
           data' = [data EXCEPT ![w] = Append(@, c)]
    PROVE  /\ \A i \in Inodes, k \in Nat : IdsFrom(i, k) \subseteq IdsFrom(i, k)'
           /\ \A k \in Nat : k <= Len(data[w]) => c.id \in IdsFrom(w, k)'
<1>1. data[w] \in Seq(Chunk) /\ data'[w] = Append(data[w], c)
  BY DEF TypeOK
<1>2. /\ Len(data'[w]) = Len(data[w]) + 1 /\ Len(data[w]) \in Nat
      /\ data'[w][Len(data[w]) + 1] = c
      /\ \A j \in 1..Len(data[w]) : data'[w][j] = data[w][j]
  BY <1>1
<1>3. ASSUME NEW i \in Inodes, NEW k \in Nat
      PROVE  IdsFrom(i, k) \subseteq IdsFrom(i, k)'
  <2>1. CASE i = w
    <3>1. \A j \in (k + 1)..Len(data[w]) :
              j \in (k + 1)..Len(data'[w]) /\ data'[w][j] = data[w][j]
      BY <1>2
    <3> QED
      BY <2>1, <3>1 DEF IdsFrom
  <2>2. CASE i # w
    BY <2>2 DEF IdsFrom, TypeOK
  <2> QED
    BY <2>1, <2>2
<1>4. ASSUME NEW k \in Nat, k <= Len(data[w])
      PROVE  c.id \in IdsFrom(w, k)'
  <2>1. Len(data[w]) + 1 \in (k + 1)..Len(data'[w])
    BY <1>2, <1>4
  <2> QED
    BY <1>2, <2>1 DEF IdsFrom
<1> QED
  BY <1>3, <1>4

\* The types that every case below needs.
LEMMA Types ==
    ASSUME OrderInv
    PROVE  /\ out \in Seq(Token) /\ lines \in Seq(Token)
           /\ off \in Nat /\ clock \in Nat
           /\ file # NoFile => file \in Inodes
           /\ fd # NoFile => fd \in Inodes
           /\ path # NoFile => path \in Inodes
           /\ pc \in Scanning \cup {"close"} => file \in Inodes
           /\ pc \in {"seek", "fstat"} => fd \in Inodes
BY DEF OrderInv, TypeOK, InodeOrNone

-----------------------------------------------------------------------------
(***************************************************************************)
(* The environment.                                                        *)
(***************************************************************************)
\* A new file is none that holds anything within reach.
LEMMA LostCreateAt ==
    ASSUME OrderInv, NoLineLost, Drained, NEW i \in Inodes, CreateAt(i),
           path = NoFile,
           UNCHANGED <<clock, pc, file, off, fd, held, lines, out, waived>>
    PROVE  (NoLineLost /\ Drained)'
<1>1. i \notin {file, fd}
  BY DEF CreateAt, Free
<1>2. \A j \in Inodes : j # i => data'[j] = data[j]
  BY DEF CreateAt, OrderInv, TypeOK
<1>3. \A j \in Inodes, k \in Nat : j # i => IdsFrom(j, k)' = IdsFrom(j, k)
  BY <1>2 DEF IdsFrom
<1>4. Readable \subseteq Readable'
  BY <1>1, <1>3, Types DEF Readable
<1>5. Drained'
  BY <1>1, <1>3, Types DEF Drained
<1>6. NoLineLost'
  BY <1>4 DEF NoLineLost, InHand, Covered
<1> QED
  BY <1>5, <1>6

LEMMA LostNagiosWrites ==
    ASSUME OrderInv, NoLineLost, Drained, NagiosWrites
    PROVE  (NoLineLost /\ Drained)'
<1>1. PICK kind \in Kinds : Append1(kind)
  BY DEF NagiosWrites, Kinds
<1> DEFINE c == [id |-> clock + 1, kind |-> kind]
<1>2. writer \in Inodes /\ c \in Chunk /\ TypeOK
  <2>1. TypeOK /\ writer # NoFile
    BY DEF NagiosWrites, OrderInv
  <2>2. clock + 1 \in Nat
    BY Types
  <2> QED
    BY <2>1, <2>2 DEF TypeOK, InodeOrNone, Chunk
<1>3. data' = [data EXCEPT ![writer] = Append(@, c)] /\ clock' = clock + 1
  BY <1>1 DEF Append1
<1>4. UNCHANGED <<path, writer, pc, file, off, fd, held, lines, out>>
  BY DEF NagiosWrites, fdVars
<1>5. waived' = IF OutOfReach THEN waived \cup {clock + 1} ELSE waived
  BY DEF NagiosWrites
<1>6. /\ \A i \in Inodes, k \in Nat : IdsFrom(i, k) \subseteq IdsFrom(i, k)'
      /\ \A k \in Nat : k <= Len(data[writer]) => clock + 1 \in IdsFrom(writer, k)'
  <2>1. c.id = clock + 1
    OBVIOUS
  <2> HIDE DEF c
  <2> QED
    BY <1>2, <1>3, <1>4, <2>1, FromAppend
<1>7. Readable \subseteq Readable'
  BY <1>4, <1>6, Types DEF Readable
<1>8. clock + 1 \in waived' \cup Readable'
  <2>1. CASE OutOfReach
    BY <1>5, <2>1
  <2>2. CASE ~OutOfReach
    <3>1. Len(data[writer]) \in Nat
      BY <1>2, DataType
    <3>2. CASE writer = file
      <4>1. off <= Len(data[writer])
        BY <2>2, <3>1, <3>2, Types DEF OutOfReach
      <4>2. clock + 1 \in IdsFrom(file, off)'
        BY <1>4, <1>6, <3>2, <4>1, Types
      <4>3. file # NoFile
        BY <3>2 DEF NagiosWrites
      <4> QED
        BY <1>4, <3>2, <4>2, <4>3 DEF Readable
    <3>3. CASE writer # file
      <4>1. writer \in {path, fd} /\ 0 <= Len(data[writer])
        BY <2>2, <3>1, <3>3 DEF OutOfReach
      <4>2. clock + 1 \in IdsFrom(writer, 0)'
        BY <1>4, <1>6, <4>1
      <4>3. writer # NoFile
        BY DEF NagiosWrites
      <4> QED
        BY <1>4, <3>3, <4>1, <4>2, <4>3 DEF Readable
    <3> QED
      BY <3>2, <3>3
  <2> QED
    BY <2>1, <2>2
<1>9. NoLineLost'
  <2>1. \A n \in 1..clock' : n \in 1..clock \/ n = clock + 1
    BY <1>3, Types
  <2> QED
    BY <1>4, <1>5, <1>7, <1>8, <2>1 DEF NoLineLost, InHand, Covered
<1>10. Drained'
  <2> SUFFICES ASSUME pc = "close" PROVE IdsFrom(file, off)' \subseteq waived'
    BY <1>4 DEF Drained
  <2>1. file \in Inodes /\ off \in Nat /\ IdsFrom(file, off) \subseteq waived
    BY Types DEF Drained
  <2>2. CASE writer = file
    <3>1. OutOfReach
      BY <2>2 DEF OutOfReach
    <3>2. data[file] \in Seq(Chunk) /\ data'[file] = Append(data[file], c)
      BY <1>2, <1>3, <2>2 DEF TypeOK
    <3>3. \A j \in (off + 1)..Len(data'[file]) :
              \/ j \in (off + 1)..Len(data[file]) /\ data'[file][j] = data[file][j]
              \/ data'[file][j] = c
      BY <2>1, <3>2
    <3>4. \A n \in IdsFrom(file, off)' : n \in IdsFrom(file, off) \/ n = clock + 1
      BY <1>4, <3>3 DEF IdsFrom
    <3> QED
      BY <1>5, <2>1, <3>1, <3>4
  <2>3. CASE writer # file
    <3>1. data'[file] = data[file]
      BY <1>2, <1>3, <2>1, <2>3 DEF TypeOK
    <3> QED
      BY <1>4, <1>5, <2>1, <3>1 DEF IdsFrom
  <2> QED
    BY <2>2, <2>3
<1> QED
  BY <1>9, <1>10

LEMMA LostEnvironment ==
    ASSUME OrderInv, NoLineLost, Drained, Environment
    PROVE  (NoLineLost /\ Drained)'
<1>1. TypeOK
  BY DEF OrderInv
<1>2. CASE NagiosOpens
  <2>1. CASE path = NoFile
    BY <1>2, <2>1, LostCreateAt DEF NagiosOpens, fdVars
  <2>2. CASE path # NoFile
    BY <1>2, <2>2 DEF NagiosOpens, fdVars, NoLineLost, Drained, Readable, InHand,
                      Covered, IdsFrom
  <2> QED
    BY <2>1, <2>2
<1>3. CASE NagiosCloses \/ PurgeArchive
  BY <1>3 DEF NagiosCloses, PurgeArchive, fdVars, NoLineLost, Drained, Readable, InHand, Covered, IdsFrom
<1>4. CASE NagiosWrites
  BY <1>4, LostNagiosWrites
<1>5. CASE Rotate
  <2>1. path \in Inodes /\ path' = NoFile
    BY <1>5, Types DEF Rotate
  <2>2. UNCHANGED <<data, clock, pc, file, off, fd, held, lines, out>>
    BY <1>5 DEF Rotate, fdVars
  <2>3. IdsOf(data[path]) = IdsFrom(path, 0)
    BY <1>1, <2>1, FromZero
  <2>4. waived' = IF path \in {file, fd} THEN waived ELSE waived \cup IdsFrom(path, 0)
    BY <1>5, <2>3 DEF Rotate
  <2>5. waived \cup Readable \subseteq (waived \cup Readable)'
    BY <2>1, <2>2, <2>4, FromSame DEF Readable
  <2>6. Drained'
    BY <2>2, <2>4, FromSame DEF Drained
  <2> QED
    BY <2>2, <2>5, <2>6 DEF NoLineLost, InHand, Covered
<1>6. CASE RotatorCreates
  BY <1>6, LostCreateAt DEF RotatorCreates, fdVars
<1>7. CASE Truncate
  <2>1. path \in Inodes /\ data' = [data EXCEPT ![path] = <<>>]
    BY <1>7, Types DEF Truncate
  <2>2. UNCHANGED <<path, clock, pc, file, off, fd, held, lines, out>>
    BY <1>7 DEF Truncate, fdVars
  <2>3. waived' = waived \cup IdsFrom(path, IF path = file THEN off ELSE 0)
    BY <1>7 DEF Truncate
  <2>4. \A i \in Inodes, k \in Nat :
            IdsFrom(i, k)' = IF i = path THEN {} ELSE IdsFrom(i, k)
    BY <1>1, <2>1, FromTruncated
  <2>5. fd # NoFile => file = NoFile
    BY DEF OrderInv, Position, Down
  <2>6. waived \cup Readable \subseteq (waived \cup Readable)'
    BY <2>1, <2>2, <2>3, <2>4, <2>5, Types DEF Readable
  <2>7. Drained'
    BY <2>2, <2>3, <2>4, Types DEF Drained
  <2> QED
    BY <2>2, <2>6, <2>7 DEF NoLineLost, InHand, Covered
<1> QED
  BY <1>2, <1>3, <1>4, <1>5, <1>6, <1>7 DEF Environment

-----------------------------------------------------------------------------
(***************************************************************************)
(* The tracker.                                                            *)
(***************************************************************************)
\* A step that only moves on: what is accounted for stays so.
LEMMA LostUnchanged ==
    ASSUME NoLineLost, UNCHANGED <<clock, waived, out, held, lines>>,
           Readable \subseteq Readable'
    PROVE  NoLineLost'
BY DEF NoLineLost, InHand, Covered

\* A scan hands over what it reads, keeps it, or, where a drain fails or a line
\* is too long, gives it up for a cause.
LEMMA LostReadLines ==
    ASSUME OrderInv, NoLineLost, Drained, ReadLines
    PROVE  (NoLineLost /\ Drained)'
<1>1. pc \in Scanning /\ TypeOK
  BY DEF ReadLines, ScanLine, ScanMore, ScanTooLong, ScanEnds, OrderInv
<1>2. file \in Inodes /\ file # NoFile /\ fd = NoFile /\ off \in Nat
  BY <1>1, Types DEF OrderInv, Position, Scanning, TypeOK
<1>3. UNCHANGED <<path, data, clock, file, fd, out>>
  BY DEF ReadLines, ScanLine, ScanMore, ScanTooLong, ScanEnds, fsVars, fdVars
<1>4. off < Len(data[file]) => NextChunk \in Chunk /\ NextChunk.id \in Nat
  BY <1>1, NextChunkType DEF Chunk
<1>5. lines \in Seq(Token)
  BY <1>1 DEF TypeOK
<1>6. off < Len(data[file]) /\ off' = off + 1 => Readable \subseteq {NextChunk.id} \cup Readable'
  BY <1>1, <1>2, <1>3, FromNext, FromSame DEF Readable
<1>7. off' = off => Readable \subseteq Readable'
  BY <1>2, <1>3, FromSame DEF Readable
<1>8. CASE ScanLine
  <2> DEFINE t == Completed(NextChunk)
  <2>1. /\ lines' = Append(lines, t) /\ held' = {} /\ off' = off + 1 /\ pc' = pc
        /\ waived' = waived /\ off < Len(data[file])
    BY <1>8 DEF ScanLine
  <2>2. t \in Token
    BY <1>1, <1>4, <2>1, CompletedType
  <2>3. t.of = held \cup {NextChunk.id}
    BY DEF Completed
  <2> HIDE DEF t
  <2>4. Covered(lines') = Covered(lines) \cup held \cup {NextChunk.id}
    BY <1>5, <2>1, <2>2, <2>3, CoveredAppend
  <2>5. InHand \cup Readable \subseteq InHand' \cup Readable'
    BY <1>6, <2>1, <2>4 DEF InHand, Covered
  <2>6. NoLineLost'
    BY <1>3, <2>1, <2>5 DEF NoLineLost, Covered
  <2>7. Drained'
    BY <1>1, <2>1 DEF Drained, Scanning
  <2> QED
    BY <2>6, <2>7
<1>9. CASE ScanMore
  <2>1. /\ lines' = lines /\ off' = off + 1 /\ pc' = pc
        /\ held' = held \cup {NextChunk.id}
        /\ waived' = waived /\ off < Len(data[file])
    BY <1>9 DEF ScanMore
  <2>2. InHand \cup Readable \subseteq InHand' \cup Readable'
    BY <1>6, <2>1 DEF InHand, Covered
  <2>3. NoLineLost'
    BY <1>3, <2>1, <2>2 DEF NoLineLost, Covered
  <2>4. Drained'
    BY <1>1, <2>1 DEF Drained, Scanning
  <2> QED
    BY <2>3, <2>4
<1>10. CASE ScanTooLong
  <2>1. /\ lines' = lines /\ off' = off + 1 /\ pc' = AfterScan
        /\ waived' = waived \cup held \cup {NextChunk.id} \cup CutOff(off + 1)
        /\ off < Len(data[file]) /\ held' = {}
    BY <1>10 DEF ScanTooLong
  <2>2. InHand \cup Readable \subseteq waived' \cup InHand' \cup Readable'
    BY <1>6, <2>1 DEF InHand, Covered
  <2>3. NoLineLost'
    BY <1>3, <2>1, <2>2 DEF NoLineLost, Covered
  <2>4. pc' = "close" => pc = "drain"
    BY <1>1, <2>1 DEF AfterScan, Scanning
  <2>5. Drained'
    BY <1>3, <2>1, <2>4, FromSame DEF Drained, CutOff
  <2> QED
    BY <2>1, <2>3, <2>5
<1>11. CASE ScanEnds
  <2>1. /\ lines' = lines \o Remainder /\ off' = off /\ pc' = AfterScan
        /\ waived' = waived \cup CutOff(off) /\ held' = {}
    BY <1>11 DEF ScanEnds, fdVars
  <2>2. Covered(Remainder) = held
    BY <1>1, CoveredRemainder
  <2>3. Covered(lines) \cup Covered(Remainder) \subseteq Covered(lines')
    BY <1>1, <1>5, <2>1, RemainderType, CoveredParts
  <2>4. InHand \cup Readable \subseteq InHand' \cup Readable'
    BY <1>7, <2>1, <2>2, <2>3 DEF InHand, Covered
  <2>5. NoLineLost'
    BY <1>3, <2>1, <2>4 DEF NoLineLost, Covered
  <2>6. pc' = "close" => pc = "drain"
    BY <1>1, <2>1 DEF AfterScan, Scanning
  <2>7. Drained'
    BY <1>3, <2>1, <2>6, FromSame DEF Drained, CutOff
  <2> QED
    BY <2>1, <2>5, <2>7 
<1> QED
  BY <1>8, <1>9, <1>10, <1>11 DEF ReadLines

\* Opening a file under the path takes nothing away from what is within reach.
LEMMA ReadableOpens ==
    ASSUME UNCHANGED <<path, data, file, off>>, file = NoFile, fd = NoFile, fd' = path
    PROVE  Readable \subseteq Readable'
BY FromSame DEF Readable

LEMMA LostTracker ==
    ASSUME OrderInv, NoLineLost, Drained, Tracker
    PROVE  (NoLineLost /\ Drained)'
<1>1. TypeOK /\ Position
  BY DEF OrderInv
<1>2. CASE Start \/ InitOpenFails \/ Collect \/ CheckRotation \/ CheckRotationFails \/ OpenNewFails
  <2>1. UNCHANGED <<path, data, clock, file, off, fd, held, lines, out, waived>> /\ pc' # "close"
    BY <1>2 DEF Start, InitOpenFails, Collect, CheckRotation, CheckRotationFails,
                OpenNewFails, AfterRotation, fsVars, fdVars
  <2>2. Readable \subseteq Readable'
    BY <2>1, FromSame DEF Readable
  <2> QED
    BY <2>1, <2>2, LostUnchanged DEF Drained
<1>3. CASE InitOpen \/ OpenNew
  <2>1. /\ UNCHANGED <<path, data, clock, file, off, held, lines, out, waived>>
        /\ pc' # "close" /\ fd' = path /\ pc \in {"init", "open"}
    BY <1>3 DEF InitOpen, OpenNew, fsVars
  <2>2. file = NoFile /\ fd = NoFile
    BY <1>1, <2>1 DEF Position, Down
  <2>3. Readable \subseteq Readable'
    BY <2>1, <2>2, ReadableOpens
  <2> QED
    BY <2>1, <2>3, LostUnchanged DEF Drained
<1>4. CASE InitSeek
  <2>1. /\ UNCHANGED <<path, data, clock, held, lines, out>>
        /\ pc = "seek" /\ pc' = "idle" /\ fd' = NoFile /\ file' = fd
        /\ waived' = waived \cup IdsOf(data[fd])
    BY <1>4 DEF InitSeek, fsVars
  <2>2. file = NoFile /\ fd \in Inodes
    BY <1>1, <2>1, Types DEF Position, Down
  <2>3. IdsOf(data[fd]) = IdsFrom(fd, 0)
    BY <1>1, <2>2, FromZero
  <2>4. Readable \subseteq waived' \cup Readable'
    BY <2>1, <2>2, <2>3, FromSame DEF Readable
  <2> QED
    BY <2>1, <2>4 DEF NoLineLost, InHand, Covered, Drained
<1>5. CASE ReadLines
  BY <1>5, LostReadLines
<1>6. CASE CloseOld
  <2>1. /\ UNCHANGED <<path, data, clock, fd, held, lines, out, waived>>
        /\ pc = "close" /\ pc' = "open" /\ file' = NoFile
    BY <1>6 DEF CloseOld, fsVars
  <2>2. fd = NoFile /\ IdsFrom(file, off) \subseteq waived
    BY <1>1, <2>1 DEF Position, Drained
  <2>3. Readable \subseteq waived' \cup Readable'
    BY <2>1, <2>2, FromSame DEF Readable
  <2> QED
    BY <2>1, <2>3 DEF NoLineLost, InHand, Covered, Drained
<1>7. CASE AdoptNew
  <2>1. /\ UNCHANGED <<path, data, clock, held, lines, out, waived>>
        /\ pc = "fstat" /\ pc' = "readNew" /\ fd' = NoFile /\ file' = fd /\ off' = 0
    BY <1>7 DEF AdoptNew, fsVars
  <2>2. file = NoFile /\ fd # NoFile
    BY <1>1, <2>1 DEF Position
  <2>3. Readable \subseteq Readable'
    BY <2>1, <2>2, FromSame DEF Readable
  <2> QED
    BY <2>1, <2>3, LostUnchanged DEF Drained
<1>8. CASE Return
  <2>1. /\ UNCHANGED <<path, data, clock, file, off, fd, held, waived>>
        /\ out' = out \o lines /\ lines' = <<>> /\ pc' = "idle"
    BY <1>8 DEF Return, fsVars, fdVars
  <2>2. Covered(out) \cup Covered(lines) \subseteq Covered(out')
    BY <2>1, Types, CoveredParts
  <2>3. Readable' = Readable
    BY <2>1, FromSame DEF Readable
  <2> QED
    BY <2>1, <2>2, <2>3 DEF NoLineLost, InHand, Covered, Drained
<1>9. CASE Stop
  <2>1. waived' = waived \cup 1..clock /\ clock' = clock /\ pc' = "stopped" /\ held' = {}
    BY <1>9 DEF Stop, fsVars
  <2> QED
    BY <2>1 DEF NoLineLost, Drained
<1>10. CASE InitSeekFails \/ FstatFails
  <2>1. /\ UNCHANGED <<path, data, clock, file, off, held, lines, out>>
        /\ pc \in {"seek", "fstat"} /\ pc' \in {"stopped", "return"} /\ fd' = NoFile
        /\ waived' = waived \cup Forgone(fd)
    BY <1>10 DEF InitSeekFails, FstatFails, fsVars
  <2>2. file = NoFile /\ fd \in Inodes
    BY <1>1, <2>1, Types DEF Position, Down
  <2>3. IdsFrom(fd, 0) = Forgone(fd) \/ fd = path
    BY <1>1, <2>2, FromZero DEF Forgone
  <2>4. Readable \subseteq waived' \cup Readable'
    BY <2>1, <2>2, <2>3, FromSame DEF Readable
  <2> QED
    BY <2>1, <2>4 DEF NoLineLost, InHand, Covered, Drained
<1> QED
  BY <1>2, <1>3, <1>4, <1>5, <1>6, <1>7, <1>8, <1>9, <1>10 DEF Tracker, Starting, ReadNewLines

-----------------------------------------------------------------------------
(***************************************************************************)
(* No line is lost without a cause.                                        *)
(***************************************************************************)
LEMMA LostNext ==
    ASSUME OrderInv, NoLineLost, Drained, [Next]_vars
    PROVE  (NoLineLost /\ Drained)'
<1>1. CASE Next
  BY <1>1, LostEnvironment, LostTracker DEF Next
<1>2. CASE UNCHANGED vars
  BY <1>2 DEF vars, NoLineLost, Drained, Readable, InHand, Covered, IdsFrom
<1> QED
  BY <1>1, <1>2

LEMMA LossInit == Init => NoLineLost /\ Drained
<1> SUFFICES ASSUME Init PROVE NoLineLost /\ Drained
  OBVIOUS
<1>1. 1..clock = {} /\ pc = "stopped" /\ held = {}
  BY DEF Init
<1> QED
  BY <1>1 DEF NoLineLost, Drained

\* Whatever fails and however Nagios, the rotation, restarts and the calls of
\* readNewLinesFromTracker interleave, every chunk written is handed over, in
\* hand, within reach of the next read, or lost for one of the causes named.
THEOREM NoLineIsLost == Spec => []NoLineLost
<1>1. Init => NoLineLost /\ Drained
  BY LossInit
<1>2. OrderInv /\ NoLineLost /\ Drained /\ [Next]_vars =>
          (NoLineLost /\ Drained)'
  BY LostNext
<1> QED
  BY <1>1, <1>2, OrderInit, OrderNext, PTL DEF Spec
=============================================================================
