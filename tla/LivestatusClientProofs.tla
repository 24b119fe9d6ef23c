----------------------- MODULE LivestatusClientProofs -----------------------
(***************************************************************************)
(* Theorems about LivestatusClient, for responses of any number of rows    *)
(* and for any timeouts: what collect returns are rows of the response, it *)
(* skips none of what was sent, and it does not outlast the scrape.        *)
(***************************************************************************)
EXTENDS LivestatusClient, TLAPS

USE LivestatusClientAssumption

\* While collect runs it has returned nothing.
Running == pc # "idle" => outcome = "none"

\* The results are made of the rows the scanner has taken, whole rows, all that parse.
Taken ==
    pc # "idle" =>
        /\ \A k \in DOMAIN results : results[k].row <= taken /\ results[k].columns # "cut"
        /\ \A n \in 1..taken :
              answer[n] \in Parses => \E k \in DOMAIN results : results[k].row = n

\* The deadline of the connection is no later than the scrape's.
DeadlineIsCapped ==
    pc \in {"write", "read"} /\ ctxDeadline # 0 => deadline <= ctxDeadline

RowsInv == Running /\ Taken /\ ResultsAreRows /\ NoErrorNoRowSkipped
TimeInv == DeadlineIsCapped /\ ContextCapsCollect

-----------------------------------------------------------------------------
(***************************************************************************)
(* Types.                                                                  *)
(***************************************************************************)
LEMMA ParsedIs ==
    ASSUME TypeOK, NEW n \in Nat \ {0}, NEW p \in Pieces \cup {"whole"}
    PROVE  \/ Parsed(n, p) = <<>>
           \/ \E c \in {"whole", "cut", "shifted"} :
                 /\ Parsed(n, p) = <<[row |-> n, columns |-> c]>>
                 /\ answer[n] \in Parses
                 /\ p \in {"ninth", "whole"}
                 /\ c = "shifted" => answer[n] = "tabbed"
                 /\ c = "cut" => p = "ninth"
<1>1. CASE p \in {"none", "columns"}
  BY <1>1 DEF Parsed, NineFields, Fields
<1>2. CASE p = "ninth"
  BY <1>2 DEF Parsed, Columns
<1>3. CASE p = "whole"
  BY <1>3 DEF Parsed, Columns
<1> QED
  BY <1>1, <1>2, <1>3 DEF Pieces

\* A whole row that parses is a result.
LEMMA WholeIsParsed ==
    ASSUME TypeOK, NEW n \in Nat \ {0}, answer[n] \in Parses
    PROVE  \E c \in {"whole", "shifted"} : Parsed(n, "whole") = <<[row |-> n, columns |-> c]>>
<1>1. Fields(answer[n], "whole") \in {9, 10}
  BY DEF Fields
<1>2. Parsed(n, "whole") = <<[row |-> n, columns |-> Columns(answer[n], "whole")]>>
  BY <1>1 DEF Parsed, NineFields
<1>3. Columns(answer[n], "whole") \in {"whole", "shifted"}
  BY DEF Columns
<1> QED
  BY <1>2, <1>3

\* What the Scanner may hold of a row: of one that is not whole, or of one that
\* is; and a ninth field only of a row of the answer.
LEMMA HeldIs ==
    ASSUME TypeOK, NEW p \in Held
    PROVE  /\ p \in Pieces
           /\ p = "ninth" => taken + 1 \in DOMAIN answer
<1>1. taken \in Nat /\ sent \in Nat /\ taken <= sent /\ sent <= Len(answer) /\ Len(answer) \in Nat
  BY DEF TypeOK
<1>2. DOMAIN answer = 1..Len(answer) /\ (piece # "none" => sent < Len(answer)) /\ piece \in Pieces
  BY DEF TypeOK
<1>3. CASE taken < sent
  BY <1>1, <1>2, <1>3 DEF Held, Pieces
<1>4. CASE taken = sent
  <2>1. CASE piece = "none"
    BY <1>4, <2>1 DEF Held, Pieces
  <2>2. CASE piece = "columns"
    BY <1>4, <2>2 DEF Held, Pieces
  <2>3. CASE piece = "ninth"
    <3>1. Held = Pieces
      BY <1>4, <2>3 DEF Held
    <3> QED
      BY <1>1, <1>2, <1>4, <2>3, <3>1
  <2> QED
    BY <1>2, <2>1, <2>2, <2>3 DEF Pieces
<1> QED
  BY <1>1, <1>3, <1>4

LEMMA ParsedAppends ==
    ASSUME TypeOK, NEW n \in Nat \ {0}, NEW p \in Pieces \cup {"whole"}
    PROVE  results \o Parsed(n, p) \in Seq(Result)
<1>1. Parsed(n, p) \in Seq(Result)
  <2>1. /\ <<>> \in Seq(Result)
        /\ \A x \in Result : <<x>> \in Seq(Result)
    OBVIOUS
  <2>2. \A c \in {"whole", "cut", "shifted"} : [row |-> n, columns |-> c] \in Result
    BY DEF Result
  <2>3. CASE \E c \in {"whole", "cut", "shifted"} : Parsed(n, p) = <<[row |-> n, columns |-> c]>>
    BY <2>1, <2>2, <2>3
  <2> QED
    BY <2>1, <2>3, ParsedIs
<1> QED
  BY <1>1 DEF TypeOK

LEMMA TypeInit == Init => TypeOK
<1> SUFFICES ASSUME Init PROVE TypeOK
  OBVIOUS
<1>1. <<>> \in Seq(RowKinds) /\ <<>> \in Seq(Result) /\ Len(<<>>) = 0
  OBVIOUS
<1> QED
  BY <1>1 DEF Init, TypeOK, Pieces

LEMMA TypeServer ==
    ASSUME TypeOK, Server
    PROVE  TypeOK'
<1>1. CASE ServerSends
  <2>1. /\ Len(answer) \in Nat /\ sent \in 0..Len(answer) /\ sent < Len(answer)
        /\ answer' = answer /\ taken' = taken /\ taken \in 0..sent
        /\ \/ sent' = sent
           \/ sent' = sent + 1 /\ piece' = "none"
        /\ piece' \in Pieces
    BY <1>1 DEF ServerSends, TypeOK, Pieces
  <2>2. sent' \in 0..Len(answer') /\ taken' \in 0..sent' /\ (piece' # "none" => sent' < Len(answer'))
    BY <2>1
  <2> QED
    BY <1>1, <2>1, <2>2 DEF ServerSends, TypeOK, cfgVars
<1>2. CASE ServerCloses \/ ServerResets
  BY <1>2 DEF ServerCloses, ServerResets, TypeOK, cfgVars
<1> QED
  BY <1>1, <1>2 DEF Server

LEMMA TypeClient ==
    ASSUME TypeOK, Client
    PROVE  TypeOK'
<1>1. CASE Collect
  <2>1. <<>> \in Seq(RowKinds) /\ <<>> \in Seq(Result) /\ Len(<<>>) = 0
    OBVIOUS
  <2> QED
    BY <1>1, <2>1 DEF Collect, TypeOK, Pieces
<1>2. CASE Dialed
  <2>1. timeout \in Nat /\ ctxDeadline \in Nat /\ now \in Nat
    BY DEF TypeOK
  <2>2. Deadline \in Nat /\ Deadline > 0
    BY <2>1 DEF Deadline
  <2> QED
    BY <1>2, <2>2 DEF Dialed, TypeOK, cfgVars, connVars
<1>3. CASE WriteQuery
  <2>1. PICK n \in 0..MaxRow : answer' \in [1..n -> RowKinds]
    BY <1>3 DEF WriteQuery
  <2>2. answer' \in Seq(RowKinds) /\ Len(answer') = n /\ n \in Nat
    BY <2>1
  <2>3. sent = 0 /\ piece = "none" /\ taken = 0
    <3>1. Len(<<>>) = 0
      OBVIOUS
    <3> QED
      BY <1>3, <3>1 DEF WriteQuery, TypeOK
  <2> QED
    BY <1>3, <2>2, <2>3 DEF WriteQuery, TypeOK, cfgVars
<1>4. CASE DialFails \/ WriteFails \/ ReadTooLong
  BY <1>4 DEF DialFails, WriteFails, ReadTooLong, ReturnWith, ReadOutcome,
              TypeOK, cfgVars, connVars
<1>5. CASE ReadRow
  <2>1. taken + 1 \in Nat \ {0} /\ taken + 1 \in 0..sent
    BY <1>5 DEF ReadRow, TypeOK
  <2>2. results' \in Seq(Result)
    BY <1>5, <2>1, ParsedAppends DEF ReadRow
  <2> QED
    BY <1>5, <2>1, <2>2 DEF ReadRow, TypeOK, cfgVars, connVars
<1>6. CASE ReadToEnd \/ ReadFails
  <2>1. taken + 1 \in Nat \ {0}
    BY DEF TypeOK
  <2>2. PICK p \in Pieces : results' = results \o Parsed(taken + 1, p)
    <3>1. CASE ReadToEnd
      BY <3>1 DEF ReadToEnd, TypeOK
    <3>2. CASE ReadFails
      BY <3>2, HeldIs DEF ReadFails
    <3> QED
      BY <1>6, <3>1, <3>2
  <2>3. results' \in Seq(Result)
    BY <2>1, <2>2, ParsedAppends
  <2> QED
    BY <1>6, <2>3 DEF ReadToEnd, ReadFails, ReturnWith, ReadOutcome, TypeOK, cfgVars, connVars
<1> QED
  BY <1>1, <1>2, <1>3, <1>4, <1>5, <1>6 DEF Client

LEMMA TypeNext ==
    ASSUME TypeOK, [Next]_vars
    PROVE  TypeOK'
<1>1. CASE Tick
  <2>1. now' \in 0..MaxTime
    BY <1>1 DEF Tick, TypeOK
  <2> QED
    BY <1>1, <2>1 DEF Tick, TypeOK, cfgVars, connVars
<1>2. CASE UNCHANGED vars
  BY <1>2 DEF vars, TypeOK
<1> QED
  BY <1>1, <1>2, TypeServer, TypeClient DEF Next

\* No exchange with the server goes on without a deadline.
THEOREM TypeCorrect == Spec => []TypeOK
  BY TypeInit, TypeNext, PTL DEF Spec

-----------------------------------------------------------------------------
(***************************************************************************)
(* Rows.                                                                   *)
(***************************************************************************)
\* The rows of the results that collect has while it reads: none of them is newer
\* than the last one taken.
LEMMA RowsTaken ==
    ASSUME TypeOK, RowsInv, pc # "idle"
    PROVE  /\ Len(results) \in Nat /\ DOMAIN results = 1..Len(results)
           /\ \A k \in DOMAIN results : results[k].row \in Nat /\ results[k].row < taken + 1
           /\ \A k \in DOMAIN results : results[k].columns # "cut"
<1>1. Len(results) \in Nat /\ DOMAIN results = 1..Len(results) /\ taken \in Nat
  BY DEF TypeOK
<1>2. \A k \in DOMAIN results : results[k] \in Result
  BY DEF TypeOK
<1> QED
  BY <1>1, <1>2 DEF Result, RowsInv, Taken

\* A token made of the row after those adds a result of that row, or nothing.
LEMMA RowsParsed ==
    ASSUME TypeOK, RowsInv, pc # "idle", NEW p \in Pieces \cup {"whole"},
           p \in {"ninth", "whole"} => taken + 1 \in DOMAIN answer,
           p # "whole" => taken' = taken,
           UNCHANGED answer, results' = results \o Parsed(taken + 1, p)
    PROVE  /\ ResultsAreRows'
           /\ \A k \in DOMAIN results : k \in DOMAIN results' /\ results'[k] = results[k]
           /\ \A k \in DOMAIN results' : results'[k].row <= taken + 1
           /\ p = "whole" => \A k \in DOMAIN results' : results'[k].columns # "cut"
<1>1. taken + 1 \in Nat \ {0} /\ results \in Seq(Result)
  BY DEF TypeOK
<1>2. /\ Len(results) \in Nat /\ DOMAIN results = 1..Len(results)
      /\ \A k \in DOMAIN results : results[k].row \in Nat /\ results[k].row < taken + 1
      /\ \A k \in DOMAIN results : results[k].columns # "cut"
  BY RowsTaken
<1>3. CASE Parsed(taken + 1, p) = <<>>
  <2>1. results' = results
    BY <1>1, <1>3
  <2>2. ResultsAreRows'
    BY <1>2, <2>1 DEF RowsInv, ResultsAreRows
  <2>3. \A k \in DOMAIN results' : results'[k].row <= taken + 1 /\ results'[k].columns # "cut"
    BY <1>1, <1>2, <2>1
  <2> QED
    BY <2>1, <2>2, <2>3
<1>4. CASE Parsed(taken + 1, p) # <<>>
  <2>1. PICK c \in {"whole", "cut", "shifted"} :
            /\ Parsed(taken + 1, p) = <<[row |-> taken + 1, columns |-> c]>>
            /\ answer[taken + 1] \in Parses
            /\ p \in {"ninth", "whole"}
            /\ c = "shifted" => answer[taken + 1] = "tabbed"
            /\ c = "cut" => p = "ninth"
    BY <1>1, <1>4, ParsedIs
  <2> DEFINE last == [row |-> taken + 1, columns |-> c]
  <2>2. results' = results \o <<last>> /\ last.row = taken + 1 /\ last.columns = c /\ last \in Result
    BY <1>1, <2>1 DEF Result
  <2> HIDE DEF last
  <2>3. /\ Len(results') = Len(results) + 1
        /\ DOMAIN results' = 1..(Len(results) + 1)
        /\ \A k \in DOMAIN results : results'[k] = results[k]
        /\ results'[Len(results) + 1] = last
    BY <1>1, <2>2
  <2>4. \A j, k \in DOMAIN results' : j < k => results'[j].row < results'[k].row
    BY <1>2, <2>2, <2>3 DEF RowsInv, ResultsAreRows
  <2>5. ASSUME NEW k \in DOMAIN results'
        PROVE  /\ results'[k].row \in DOMAIN answer
               /\ answer[results'[k].row] \in Parses
               /\ results'[k].columns # "lost"
               /\ results'[k].columns = "shifted" => answer[results'[k].row] = "tabbed"
               /\ results'[k].columns = "cut" => k = Len(results') /\ results'[k].row = taken' + 1
    <3>1. CASE k \in DOMAIN results
      BY <1>2, <2>3, <3>1 DEF RowsInv, ResultsAreRows
    <3>2. CASE k = Len(results) + 1
      BY <2>1, <2>2, <2>3, <3>2
    <3> QED
      BY <1>2, <2>3, <2>5, <3>1, <3>2
  <2>6. ResultsAreRows'
    BY <2>4, <2>5 DEF ResultsAreRows
  <2>7. \A k \in DOMAIN results' : results'[k].row <= taken + 1
    BY <1>1, <1>2, <2>2, <2>3
  <2>8. p = "whole" => \A k \in DOMAIN results' : results'[k].columns # "cut"
    BY <1>2, <2>1, <2>2, <2>3
  <2>9. \A k \in DOMAIN results : k \in DOMAIN results'
    BY <1>2, <2>3
  <2> QED
    BY <2>3, <2>6, <2>7, <2>8, <2>9
<1> QED
  BY <1>3, <1>4

\* The last token, of a row that was not read to its end.
LEMMA RowsEnd ==
    ASSUME TypeOK, RowsInv, pc = "read", pc' = "idle",
           UNCHANGED <<answer, sent, taken, server>>,
           outcome' = "results" => taken = sent /\ server = "closed",
           NEW p \in Pieces, p = "ninth" => taken + 1 \in DOMAIN answer,
           results' = results \o Parsed(taken + 1, p)
    PROVE  RowsInv'
<1>1. /\ ResultsAreRows'
      /\ \A k \in DOMAIN results : k \in DOMAIN results' /\ results'[k] = results[k]
  BY RowsParsed DEF Pieces
<1>2. NoErrorNoRowSkipped'
  BY <1>1 DEF RowsInv, Taken, NoErrorNoRowSkipped
<1> QED
  BY <1>1, <1>2 DEF RowsInv, Running, Taken

\* The row after those taken is one of the answer's when some of it arrived.
LEMMA NextIsThere ==
    ASSUME TypeOK
    PROVE  /\ taken < sent => taken + 1 \in DOMAIN answer
           /\ taken = sent /\ piece # "none" => taken + 1 \in DOMAIN answer
BY DEF TypeOK

LEMMA RowsSame ==
    ASSUME RowsInv, UNCHANGED <<answer, taken, results>>,
           outcome = "results" => outcome' # "results" \/ (UNCHANGED <<sent, server>>),
           pc' # "idle" => pc # "idle" /\ outcome' = outcome,
           outcome' # "results" \/ outcome' = outcome
    PROVE  RowsInv'
BY DEF RowsInv, Running, Taken, ResultsAreRows, NoErrorNoRowSkipped

LEMMA RowsReadRow ==
    ASSUME TypeOK, RowsInv, ReadRow
    PROVE  RowsInv'
<1>1. /\ taken \in Nat /\ taken' = taken + 1 /\ UNCHANGED <<answer, sent, server, pc, outcome>>
      /\ pc = "read" /\ taken + 1 \in DOMAIN answer
      /\ results' = results \o Parsed(taken + 1, "whole")
  BY NextIsThere DEF ReadRow, TypeOK, connVars
<1>2. /\ ResultsAreRows'
      /\ \A k \in DOMAIN results : k \in DOMAIN results' /\ results'[k] = results[k]
      /\ \A k \in DOMAIN results' : results'[k].row <= taken + 1
      /\ \A k \in DOMAIN results' : results'[k].columns # "cut"
  BY <1>1, RowsParsed
<1>3. Running' /\ NoErrorNoRowSkipped'
  BY <1>1 DEF RowsInv, Running, NoErrorNoRowSkipped
<1>4. ASSUME NEW n \in 1..taken', answer[n] \in Parses
      PROVE  \E k \in DOMAIN results' : results'[k].row = n
  <2>1. CASE n <= taken
    BY <1>1, <1>2, <1>4, <2>1 DEF RowsInv, Taken
  <2>2. CASE n = taken + 1
    <3>1. PICK c \in {"whole", "shifted"} :
              Parsed(taken + 1, "whole") = <<[row |-> taken + 1, columns |-> c]>>
      BY <1>1, <1>4, <2>2, WholeIsParsed
    <3> DEFINE last == [row |-> taken + 1, columns |-> c]
    <3>2. last \in Result
      BY <1>1, <2>2 DEF Result
    <3>3. results' = results \o <<last>> /\ last.row = n
      BY <1>1, <2>2, <3>1
    <3> HIDE DEF last
    <3>4. results \in Seq(Result)
      BY DEF TypeOK
    <3>5. Len(results) + 1 \in DOMAIN results' /\ results'[Len(results) + 1] = last
      BY <3>2, <3>3, <3>4
    <3> QED
      BY <3>3, <3>5
  <2> QED
    BY <1>1, <2>1, <2>2
<1>5. Taken'
  BY <1>1, <1>2, <1>4 DEF Taken
<1> QED
  BY <1>2, <1>3, <1>5 DEF RowsInv

LEMMA RowsInit == Init => RowsInv
<1> SUFFICES ASSUME Init PROVE RowsInv
  OBVIOUS
<1>1. DOMAIN <<>> = {}
  OBVIOUS
<1> QED
  BY <1>1 DEF Init, RowsInv, Running, Taken, ResultsAreRows, NoErrorNoRowSkipped

LEMMA RowsNext ==
    ASSUME TypeOK, RowsInv, [Next]_vars
    PROVE  RowsInv'
<1>1. CASE Server
  <2>1. pc \in {"write", "read"} /\ UNCHANGED <<answer, taken, results, pc, outcome>>
    BY <1>1 DEF Server, ServerSends, ServerCloses, ServerResets
  <2>2. outcome = "none"
    BY <2>1 DEF RowsInv, Running
  <2> QED
    BY <2>1, <2>2, RowsSame
<1>2. CASE Collect
  <2>1. DOMAIN <<>> = {}
    OBVIOUS
  <2> QED
    BY <1>2, <2>1 DEF Collect, RowsInv, Running, Taken, ResultsAreRows, NoErrorNoRowSkipped
<1>3. CASE Dialed
  BY <1>3, RowsSame DEF Dialed, connVars
<1>4. CASE WriteQuery
  <2>1. /\ taken = 0 /\ taken' = 0 /\ results' = results /\ outcome' = outcome
        /\ pc = "write" /\ pc' = "read"
    BY <1>4 DEF WriteQuery, TypeOK
  <2>2. DOMAIN results = {}
    <3>1. \A k \in DOMAIN results : results[k].row \in Nat /\ results[k].row <= 0
      BY <2>1, RowsTaken DEF RowsInv, Taken
    <3>2. \A k \in DOMAIN results : results[k] \in Result
      BY DEF TypeOK
    <3>3. \A r \in Result : r.row # 0
      BY DEF Result
    <3>4. \A k \in DOMAIN results : FALSE
      BY <3>1, <3>2, <3>3
    <3> QED
      BY <3>4
  <2>3. outcome = "none"
    BY <2>1 DEF RowsInv, Running
  <2> QED
    BY <2>1, <2>2, <2>3 DEF RowsInv, Running, Taken, ResultsAreRows, NoErrorNoRowSkipped
<1>5. CASE DialFails \/ WriteFails \/ ReadTooLong
  BY <1>5, RowsSame DEF DialFails, WriteFails, ReadTooLong, ReturnWith, ReadOutcome, connVars
<1>6. CASE ReadRow
  BY <1>6, RowsReadRow
<1>7. CASE ReadToEnd
  BY <1>7, RowsEnd, NextIsThere DEF ReadToEnd, ReturnWith, connVars, TypeOK
<1>8. CASE ReadFails
  <2>1. PICK p \in Pieces : /\ results' = results \o Parsed(taken + 1, p)
                            /\ p = "ninth" => taken + 1 \in DOMAIN answer
    BY <1>8, HeldIs DEF ReadFails
  <2> QED
    BY <1>8, <2>1, RowsEnd DEF ReadFails, ReturnWith, ReadOutcome, connVars
<1>9. CASE Tick
  BY <1>9, RowsSame DEF Tick, connVars
<1>10. CASE UNCHANGED vars
  BY <1>10, RowsSame DEF vars
<1> QED
  BY <1>1, <1>2, <1>3, <1>4, <1>5, <1>6, <1>7, <1>8, <1>9, <1>10 DEF Next, Client

\* For answers of any length, and wherever the server stalls, closes or resets:
\* every result is a row of the answer that parses, in the answer's order and
\* once; with the columns of its row, except behind a tab within the row, and
\* except the latency of the last one, which may be cut with the connection.
THEOREM ResultsAreRowsOfTheAnswer == Spec => []ResultsAreRows
<1>1. Init => TypeOK /\ RowsInv
  BY TypeInit, RowsInit
<1>2. TypeOK /\ RowsInv /\ [Next]_vars => (TypeOK /\ RowsInv)'
  BY TypeNext, RowsNext
<1>3. RowsInv => ResultsAreRows
  BY DEF RowsInv
<1> QED
  BY <1>1, <1>2, <1>3, PTL DEF Spec

\* A collect without an error has read to the end of the stream and skipped no
\* row that parses among those the server sent whole.
THEOREM NoRowIsSkipped == Spec => []NoErrorNoRowSkipped
<1>1. Init => TypeOK /\ RowsInv
  BY TypeInit, RowsInit
<1>2. TypeOK /\ RowsInv /\ [Next]_vars => (TypeOK /\ RowsInv)'
  BY TypeNext, RowsNext
<1>3. RowsInv => NoErrorNoRowSkipped
  BY DEF RowsInv
<1> QED
  BY <1>1, <1>2, <1>3, PTL DEF Spec

-----------------------------------------------------------------------------
(***************************************************************************)
(* Time.                                                                   *)
(***************************************************************************)
LEMMA TimeNext ==
    ASSUME TypeOK, TimeInv, [Next]_vars
    PROVE  TimeInv'
<1>1. /\ now \in Nat /\ deadline \in Nat /\ ctxDeadline \in Nat /\ timeout \in Nat
      /\ pc \in {"write", "read"} => deadline > 0
      /\ pc \in {"idle", "dial", "write", "read"}
  BY DEF TypeOK
<1> USE DEF TimeInv, DeadlineIsCapped, ContextCapsCollect
<1>2. CASE Tick
  <2>1. /\ UNCHANGED <<ctxDeadline, deadline, pc>>
        /\ now' \in {now, now + 1}
        /\ \/ pc = "dial" /\ (ctxDeadline = 0 \/ now < ctxDeadline)
           \/ pc \in {"write", "read"} /\ (deadline = 0 \/ now < deadline)
    BY <1>1, <1>2 DEF Tick, cfgVars, Expired
  <2> QED
    BY <1>1, <2>1
<1>3. CASE Collect
  <2>1. now' = 0 /\ pc' = "dial" /\ ctxDeadline' \in Nat
    BY <1>3 DEF Collect
  <2> QED
    BY <2>1
<1>4. CASE Dialed
  <2>1. /\ ctxDeadline' = ctxDeadline /\ now' = now /\ deadline' = Deadline
        /\ pc = "dial" /\ pc' = "write"
    BY <1>4 DEF Dialed, cfgVars
  <2>2. ctxDeadline # 0 => Deadline <= ctxDeadline
    BY <1>1 DEF Deadline
  <2> QED
    BY <1>1, <2>1, <2>2
<1>5. CASE ~Tick /\ ~Collect /\ ~Dialed
  <2>1. /\ UNCHANGED <<ctxDeadline, now, deadline>>
        /\ \/ pc' = pc
           \/ pc' = "idle"
           \/ pc = "write" /\ pc' = "read"
    BY <1>5 DEF Next, Server, Client, ServerSends, ServerCloses, ServerResets, DialFails,
                WriteQuery, WriteFails, ReadRow, ReadToEnd, ReadFails, ReadTooLong, ReturnWith,
                cfgVars, vars
  <2> QED
    BY <1>1, <2>1
<1> QED
  BY <1>2, <1>3, <1>4, <1>5

\* No collect runs on after the scrape's deadline, whatever the timeouts are.
THEOREM ContextCapsIt == Spec => []ContextCapsCollect
<1>1. Init => TypeOK /\ TimeInv
  BY TypeInit DEF Init, TimeInv, DeadlineIsCapped, ContextCapsCollect
<1>2. TypeOK /\ TimeInv /\ [Next]_vars => (TypeOK /\ TimeInv)'
  BY TypeNext, TimeNext
<1>3. TimeInv => ContextCapsCollect
  BY DEF TimeInv
<1> QED
  BY <1>1, <1>2, <1>3, PTL DEF Spec
=============================================================================
