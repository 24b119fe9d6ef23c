------------------------ MODULE PerfdataParserProofs ------------------------
(***************************************************************************)
(* Theorems about PerfdataParser, for texts and measurements of any length *)
(* and number.                                                             *)
(***************************************************************************)
EXTENDS PerfdataParser, TextProofs, FiniteSetTheorems

-----------------------------------------------------------------------------
(***************************************************************************)
(* Types: what the plugins write, and what the parser makes of any token.  *)
(***************************************************************************)
\* The kinds of characters are characters.
LEMMA CharsAre ==
    /\ Space \subseteq Chars /\ Quote \subseteq Chars /\ Numeric \subseteq Chars
    /\ "=" \in Chars /\ ";" \in Chars /\ ":" \in Chars /\ "@" \in Chars /\ "~" \in Chars
    /\ "U" \in Chars /\ "'" \in Chars /\ " " \in Chars
BY DEF Chars, Space, Quote, Numeric

\* A text of some characters is a text of more.
LEMMA WiderText ==
    ASSUME NEW A, NEW B, A \subseteq B, NEW s \in Seq(A)
    PROVE  s \in Seq(B)
OBVIOUS

\* Texts of one character, texts that are put together, the beginnings of sequences.
LEMMA OneChar ==
    ASSUME NEW A, NEW x \in A
    PROVE  <<x>> \in Seq(A)
OBVIOUS

\* The texts the writer and the parser name.
LEMMA SomeTexts ==
    /\ <<"~">> \in Seq(Chars) /\ <<"@">> \in Seq(Chars) /\ <<":">> \in Seq(Chars)
    /\ <<"=">> \in Seq(Chars) /\ <<";">> \in Seq(Chars) /\ <<"U">> \in Seq(Chars)
    /\ <<"'">> \in Seq(Chars) /\ <<>> \in Seq(Chars)
<1> DEFINE C == Chars
<1>1. /\ "~" \in C /\ "@" \in C /\ ":" \in C /\ "=" \in C /\ ";" \in C /\ "U" \in C
      /\ "'" \in C
  BY CharsAre
<1>2. <<>> \in Seq(C)
  OBVIOUS
<1> HIDE DEF C
<1>3. \A x \in C : <<x>> \in Seq(C)
  BY OneChar
<1>4. /\ <<"~">> \in Seq(C) /\ <<"@">> \in Seq(C) /\ <<":">> \in Seq(C)
      /\ <<"=">> \in Seq(C) /\ <<";">> \in Seq(C) /\ <<"U">> \in Seq(C)
      /\ <<"'">> \in Seq(C)
  BY <1>1, <1>3
<1> QED
  BY <1>2, <1>4 DEF C

\* The first elements of a sequence.
LEMMA Beginning ==
    ASSUME NEW A, NEW s \in Seq(A), NEW n \in 0..Len(s)
    PROVE  SubSeq(s, 1, n) \in Seq(A) /\ Len(SubSeq(s, 1, n)) = n
OBVIOUS

\* Nothing is a sequence of anything.
LEMMA NoElements == \A A : <<>> \in Seq(A)
OBVIOUS

\* Texts put together are a text.
LEMMA Joined ==
    ASSUME NEW A, NEW s \in Seq(A), NEW t \in Seq(A)
    PROVE  s \o t \in Seq(A)
OBVIOUS

\* A number has only characters of numbers.
LEMMA FloatIsNumeric ==
    ASSUME NEW A, NEW s \in Seq(A), IsFloat(s)
    PROVE  s \in Seq(Numeric)
BY DEF IsFloat

\* What a range and the fields are written with: no space and no semicolon.
RangeChars == Numeric \cup {"@", ":", "~"}

\* A range has no separator in it, and a number no mark of a range.
LEMMA RangeCharsAre ==
    /\ RangeChars \subseteq Chars /\ Numeric \subseteq RangeChars
    /\ ";" \notin RangeChars /\ " " \notin RangeChars /\ "'" \notin RangeChars
    /\ "@" \notin Numeric /\ ":" \notin Numeric /\ "~" \notin Numeric
    /\ "U" \notin Numeric /\ " " \notin Numeric /\ ";" \notin Numeric /\ "'" \notin Numeric
    /\ "=" \notin Numeric
BY DEF RangeChars, Numeric, Digits, Chars

\* What is written of a range.
LEMMA WrittenRangeType ==
    ASSUME NEW r \in Span
    PROVE  WriteRange(r) \in Seq(RangeChars)
<1> DEFINE C == RangeChars
<1>1. r.inside \in BOOLEAN /\ r.start \in Seq(C) /\ r.end \in Seq(C)
  <2>1. \A s \in Bound : s \in Seq(C)
    BY WiderText, RangeCharsAre DEF Bound
  <2>2. <<"~">> \in Seq(C)
    BY OneChar DEF RangeChars
  <2> QED
    BY <2>1, <2>2 DEF Span
<1> DEFINE sign == IF r.inside THEN <<"@">> ELSE <<>>
           from == IF r.start = <<>> THEN <<>> ELSE r.start \o <<":">>
           to == r.end
<1>2. sign \in Seq(C) /\ from \in Seq(C) /\ to \in Seq(C)
  <2>1. "@" \in C /\ ":" \in C
    BY DEF RangeChars
  <2>2. <<"@">> \in Seq(C) /\ <<":">> \in Seq(C) /\ <<>> \in Seq(C)
    BY <2>1, OneChar, NoElements
  <2> HIDE DEF C
  <2> QED
    BY <1>1, <2>2, Joined
<1>3. WriteRange(r) = sign \o from \o to
  BY DEF WriteRange
<1> HIDE DEF sign, from, to, C
<1>4. WriteRange(r) \in Seq(C)
  BY <1>2, <1>3, Joined
<1> QED
  BY <1>4 DEF C

\* The four fields of a measurement, the ones that may be left out included.
AllFields(m) == <<WriteRange(m.warning), WriteRange(m.critical), m.min, m.max>>

\* What is written of all the fields.
LEMMA AllFieldsType ==
    ASSUME NEW m \in Measurement
    PROVE  AllFields(m) \in Seq(Seq(RangeChars)) /\ Len(AllFields(m)) = 4
<1> DEFINE T == Seq(RangeChars)
<1>1. /\ WriteRange(m.warning) \in T /\ WriteRange(m.critical) \in T
      /\ m.min \in T /\ m.max \in T
  <2>1. m.warning \in Span /\ m.critical \in Span /\ m.min \in Bound /\ m.max \in Bound
    BY DEF Measurement
  <2>2. \A s \in Bound : s \in T
    BY WiderText, RangeCharsAre DEF Bound
  <2> QED
    BY <2>1, <2>2, WrittenRangeType
<1> HIDE DEF T
<1>2. AllFields(m) \in Seq(T) /\ Len(AllFields(m)) = 4
  BY <1>1 DEF AllFields
<1> QED
  BY <1>2 DEF T

\* The fields are the first of them, and what is left out is empty.
LEMMA FieldsAre ==
    ASSUME NEW m \in Measurement
    PROVE  \E n \in 0..4 :
              /\ Fields(m) = SubSeq(AllFields(m), 1, n)
              /\ \A k \in (n + 1)..4 : AllFields(m)[k] = <<>>
<1> DEFINE all == AllFields(m)
           filled == {0} \cup {k \in 1..4 : all[k] # <<>>}
           last == Max(filled)
<1>1. all \in Seq(Seq(RangeChars)) /\ Len(all) = 4
  BY AllFieldsType
<1>2. Fields(m) = IF m.short THEN SubSeq(all, 1, last) ELSE all
  BY Zenon DEF Fields, AllFields
<1> HIDE DEF all
<1>3. last \in filled /\ \A k \in filled : last >= k
  <2>1. filled \subseteq 0..4 /\ filled # {}
    OBVIOUS
  <2> HIDE DEF filled
  <2> QED
    BY <2>1, MaxIsGreatest
<1> HIDE DEF last
<1>4. last \in 0..4
  BY <1>3
<1>5. \A k \in (last + 1)..4 : all[k] = <<>>
  BY <1>3, <1>4
<1>6. CASE m.short
  <2>1. Fields(m) = SubSeq(all, 1, last)
    BY <1>2, <1>6, Zenon
  <2> HIDE DEF filled
  <2> QED
    BY <1>4, <1>5, <2>1 DEF all
<1>7. CASE ~m.short
  <2>1. Fields(m) = all
    BY <1>2, <1>7, Zenon
  <2>2. SubSeq(all, 1, 4) = all
    BY <1>1, WholeStretch
  <2>3. 4 \in 0..4 /\ \A k \in (4 + 1)..4 : all[k] = <<>>
    OBVIOUS
  <2> HIDE DEF filled
  <2> QED
    BY <2>1, <2>2, <2>3 DEF all
<1> QED
  BY <1>6, <1>7

\* What is written of the fields that are not left out.
LEMMA FieldsType ==
    ASSUME NEW m \in Measurement
    PROVE  /\ Fields(m) \in Seq(Seq(RangeChars)) /\ Fields(m) \in Seq(Seq(Chars))
           /\ Len(Fields(m)) <= 4
<1>1. PICK n \in 0..4 : Fields(m) = SubSeq(AllFields(m), 1, n)
  BY FieldsAre
<1> DEFINE T == Seq(RangeChars)
           C == Seq(Chars)
<1>2. AllFields(m) \in Seq(T) /\ Len(AllFields(m)) = 4
  BY AllFieldsType
<1>3. T \subseteq C
  BY WiderText, RangeCharsAre
<1> HIDE DEF T, C
<1>4. Fields(m) \in Seq(T) /\ Len(Fields(m)) = n
  BY <1>1, <1>2, Beginning
<1>5. Fields(m) \in Seq(C)
  BY <1>3, <1>4, WiderText
<1> QED
  BY <1>4, <1>5 DEF T, C

\* Fields, each behind its semicolon.
Behind(fs) == FlattenSeq([k \in DOMAIN fs |-> <<";">> \o fs[k]])

HasSemicolon(A) == ";" \in A

\* The fields with the semicolons before them.
LEMMA BehindType ==
    ASSUME NEW A, HasSemicolon(A), NEW fs \in Seq(Seq(A))
    PROVE  Behind(fs) \in Seq(A)
<1> DEFINE parts == [k \in DOMAIN fs |-> <<";">> \o fs[k]]
           T == Seq(A)
<1>1. Len(fs) \in Nat /\ DOMAIN fs = 1..Len(fs)
  OBVIOUS
<1>2. parts \in Seq(T)
  <2>1. \A k \in DOMAIN fs : fs[k] \in T
    BY <1>1
  <2>2. \A k \in DOMAIN fs : <<";">> \o fs[k] \in T
    BY <2>1, OneChar, Joined DEF HasSemicolon
  <2> HIDE DEF T
  <2>3. parts \in [1..Len(fs) -> T]
    BY <1>1, <2>2
  <2> HIDE DEF parts
  <2> QED
    BY <1>1, <2>3, FunctionIsSequence
<1> HIDE DEF parts
<1>3. FlattenSeq(parts) \in Seq(A)
  BY <1>2, FlattenType DEF T
<1> QED
  BY <1>3 DEF Behind, parts

\* What is written of a measurement is a text.
LEMMA WriteType ==
    ASSUME NEW m \in Measurement
    PROVE  Write(m) \in Seq(Chars)
<1> DEFINE name == IF m.quoted THEN <<"'">> \o m.label \o <<"'">> ELSE m.label
           value == m.value
           unit == m.unit
           rest == Behind(Fields(m))
<1>1. m.label \in Seq(Chars) /\ value \in Seq(Chars) /\ unit \in Seq(Chars)
  <2>1. m.label \in Seq(Chars \ (Quote \cup {"="}))
        /\ m.unit \in Seq(Chars \ (Digits \cup Space \cup Quote \cup {";"}))
        /\ m.value \in Bound \cup {<<"U">>}
    BY DEF Measurement
  <2>2. \A s \in Bound : s \in Seq(Chars)
    BY WiderText, CharsAre DEF Bound
  <2>3. value \in Seq(Chars)
    BY <2>1, <2>2, SomeTexts
  <2>4. m.label \in Seq(Chars)
    BY <2>1, WiderText, Chars \ (Quote \cup {"="}) \subseteq Chars
  <2>5. unit \in Seq(Chars)
    BY <2>1, WiderText, Chars \ (Digits \cup Space \cup Quote \cup {";"}) \subseteq Chars
  <2> QED
    BY <2>3, <2>4, <2>5
<1>2. name \in Seq(Chars)
  BY <1>1, SomeTexts, Joined
<1>3. rest \in Seq(Chars) /\ <<"=">> \in Seq(Chars)
  BY FieldsType, BehindType, SomeTexts, CharsAre DEF HasSemicolon
<1>4. Write(m) = name \o <<"=">> \o value \o unit \o rest
  BY DEF Write, Behind
<1> HIDE DEF name, value, unit, rest
<1> QED
  BY <1>1, <1>2, <1>3, <1>4, Joined

\* The numeric part of a text.
LEMMA NumEndType ==
    ASSUME NEW s \in Seq(Chars)
    PROVE  NumEnd(s) \in 0..Len(s) /\ \A k \in 1..NumEnd(s) : s[k] \in Numeric
<1> DEFINE S == {n \in 0..Len(s) : \A k \in 1..n : s[k] \in Numeric}
<1>1. S \subseteq 0..Len(s) /\ 0 \in S /\ Len(s) \in Nat
  OBVIOUS
<1>2. \A n \in S : \A k \in 1..n : s[k] \in Numeric
  OBVIOUS
<1> HIDE DEF S
<1>3. Max(S) \in S
  BY <1>1, MaxIsGreatest
<1> QED
  BY <1>1, <1>2, <1>3 DEF NumEnd, S

\* A threshold and a bound are numbers or nil.
LEMMA ThresholdType ==
    ASSUME NEW s \in Seq(Chars)
    PROVE  Threshold(s) \in Seq(Numeric) /\ OptionalFloat(s) \in Seq(Numeric)
<1>1. Trim(s, Space) \in Seq(Chars)
  BY TrimType
<1>2. \A u \in Seq(Chars) : \A c : WithoutPrefix(u, c) \in Seq(Chars)
  BY DEF WithoutPrefix
<1> DEFINE t == WithoutPrefix(WithoutPrefix(Trim(s, Space), "@"), "~")
           parts == Split(t, ":")
           bound == Last(parts)
<1>3. t \in Seq(Chars)
  BY <1>1, <1>2
<1> HIDE DEF t
<1>4. bound \in Seq(Chars)
  <2>1. parts \in Seq(Seq(Chars)) /\ parts # <<>>
    BY <1>3, SplitType
  <2> HIDE DEF parts
  <2>2. Len(parts) \in DOMAIN parts
    BY <2>1
  <2> QED
    BY <2>1, <2>2 DEF Last
<1>5. Threshold(s) = IF IsFloat(bound) THEN bound ELSE <<>>
  BY DEF Threshold, t, Nil
<1>6. <<>> \in Seq(Numeric)
  OBVIOUS
<1> HIDE DEF parts, bound
<1>7. Threshold(s) \in Seq(Numeric)
  BY <1>4, <1>5, <1>6, FloatIsNumeric
<1>8. OptionalFloat(s) \in Seq(Numeric)
  BY <1>1, <1>6, FloatIsNumeric DEF OptionalFloat, Nil
<1> QED
  BY <1>7, <1>8

\* The label of a token ends before its first "=".
LEMMA EqIdxType ==
    ASSUME NEW token \in Seq(Chars), Where(token, {"="}) # {}
    PROVE  /\ EqIdx(token) \in 1..Len(token)
           /\ SubSeq(token, 1, EqIdx(token) - 1) \in Seq(Chars)
           /\ Parts(token) \in Seq(Seq(Chars)) /\ Parts(token) # <<>>
<1>1. Where(token, {"="}) \subseteq 1..Len(token)
  BY DEF Where
<1>2. EqIdx(token) \in 1..Len(token)
  <2>1. Where(token, {"="}) \subseteq Nat
    BY <1>1
  <2> QED
    BY <1>1, <2>1, MinIsLeast DEF EqIdx
<1> DEFINE rest == SubSeq(token, EqIdx(token) + 1, Len(token))
<1>3. rest \in Seq(Chars) /\ SubSeq(token, 1, EqIdx(token) - 1) \in Seq(Chars)
  BY <1>2
<1> HIDE DEF rest
<1>4. Split(rest, ";") \in Seq(Seq(Chars)) /\ Split(rest, ";") # <<>>
  BY <1>3, SplitType
<1> QED
  BY <1>2, <1>3, <1>4 DEF Parts, rest

\* A token that parses gives a metric.
LEMMA MetricType ==
    ASSUME NEW token \in Seq(Chars), Parses(token)
    PROVE  MetricOf(token) \in Metric
<1>1. Where(token, {"="}) # {}
  BY DEF Parses
<1> DEFINE Part(k) == IF k \in DOMAIN Parts(token) THEN Parts(token)[k] ELSE <<>>
<1>2. Parts(token) \in Seq(Seq(Chars)) /\ Parts(token) # <<>>
  BY <1>1, EqIdxType
<1>3. \A k : Part(k) \in Seq(Chars)
  BY <1>2
<1>4. Label(token) \in Seq(Chars)
  BY <1>1, EqIdxType, TrimType DEF Label
<1>5. ValuePart(token) \in Seq(Chars)
  <2>1. Head(Parts(token)) \in Seq(Chars)
    BY <1>2
  <2> QED
    BY <2>1, TrimType DEF ValuePart
<1>6. Value(token) \in Seq(Numeric)
  <2> DEFINE v == ValuePart(token)
  <2>1. v \in Seq(Chars)
    BY <1>5
  <2> HIDE DEF v
  <2>2. NumEnd(v) \in 0..Len(v) /\ \A k \in 1..NumEnd(v) : v[k] \in Numeric
    BY <2>1, NumEndType
  <2>3. SubSeq(v, 1, NumEnd(v)) \in Seq(Numeric)
    <3> DEFINE n == NumEnd(v)
    <3>1. n \in 0..Len(v) /\ \A k \in 1..n : v[k] \in Numeric
      BY <2>2
    <3> HIDE DEF n
    <3>2. SubSeq(v, 1, n) = [k \in 1..n |-> v[k]]
      BY <2>1, <3>1
    <3>3. n \in Nat /\ [k \in 1..n |-> v[k]] \in [1..n -> Numeric]
      BY <2>1, <3>1
    <3>4. [k \in 1..n |-> v[k]] \in Seq(Numeric)
      BY <3>3, FunctionIsSequence
    <3> QED
      BY <3>2, <3>4 DEF n
  <2> QED
    BY <2>3 DEF Value, v
<1>7. Unit(UOM(token)) \in {"s", "By", "1"}
  BY DEF Unit
<1>8. /\ Threshold(Part(2)) \in Seq(Numeric) /\ Threshold(Part(3)) \in Seq(Numeric)
      /\ OptionalFloat(Part(4)) \in Seq(Numeric) /\ OptionalFloat(Part(5)) \in Seq(Numeric)
  <2> HIDE DEF Part
  <2> QED
    BY <1>3, ThresholdType
<1>9. MetricOf(token) =
         [label |-> Label(token), value |-> Value(token), unit |-> Unit(UOM(token)),
          warning |-> Threshold(Part(2)), critical |-> Threshold(Part(3)),
          min |-> OptionalFloat(Part(4)), max |-> OptionalFloat(Part(5))]
  BY DEF MetricOf
<1> HIDE DEF Part
<1> QED
  BY <1>4, <1>6, <1>7, <1>8, <1>9 DEF Metric

-----------------------------------------------------------------------------
(***************************************************************************)
(* Types: the variables.                                                   *)
(***************************************************************************)
TypeInv == TypeOK /\ at >= 1

\* What is written of any measurements, with any spacing.
LEMMA WrittenType ==
    ASSUME NEW ms \in Written, NEW gap \in Spacing
    PROVE  FlattenSeq([k \in DOMAIN ms |-> Write(ms[k]) \o gap]) \in Seq(Chars)
<1> DEFINE parts == [k \in DOMAIN ms |-> Write(ms[k]) \o gap]
           T == Seq(Chars)
<1>1. gap \in Seq(Chars)
  BY TextsAssumption, CharsAre, WiderText DEF TextsAssumption
<1>2. ms \in Seq(Measurement)
  BY TextsAssumption DEF TextsAssumption
<1>3. Len(ms) \in Nat /\ DOMAIN ms = 1..Len(ms) /\ \A k \in DOMAIN ms : ms[k] \in Measurement
  BY <1>2
<1>4. \A k \in DOMAIN ms : Write(ms[k]) \o gap \in T
  BY <1>1, <1>3, WriteType, Joined
<1>5. parts \in Seq(T)
  <2> HIDE DEF T
  <2>1. parts \in [1..Len(ms) -> T]
    BY <1>3, <1>4
  <2> HIDE DEF parts
  <2> QED
    BY <1>3, <2>1, FunctionIsSequence
<1> HIDE DEF parts
<1>6. FlattenSeq(parts) \in Seq(Chars)
  BY <1>5, FlattenType DEF T
<1> QED
  BY <1>6 DEF parts

\* The types are kept by every step: the text becomes what a Trim leaves, the
\* tokens take a current one that is not empty, the metrics those of tokens that parse.
LEMMA TypeKept ==
    ASSUME TypeInv, [Next]_vars
    PROVE  TypeInv'
<1> DEFINE B == Seq(Chars)
           C == B \ {<<>>}
<1> USE DEF TypeInv, TypeOK
<1>1. Completed \in Seq(C)
  <2>1. tokens \in Seq(C) /\ current \in B
    OBVIOUS
  <2>2. current # <<>> => current \in C
    BY <2>1
  <2> HIDE DEF B, C
  <2> QED
    BY <2>1, <2>2 DEF Completed
<1>2. \A t \in Seq(Chars) : \A ms : ParsePerfdata(t, ms) => TypeInv'
  <2> SUFFICES ASSUME NEW t \in Seq(Chars), NEW ms, ParsePerfdata(t, ms)
               PROVE  TypeInv'
    OBVIOUS
  <2>1. Trim(t, Space) \in Seq(Chars)
    BY TrimType
  <2>2. text' \in Seq(Chars) /\ pc' \in {"tokenize", "returned"}
    BY <2>1 DEF ParsePerfdata
  <2> QED
    BY <2>2 DEF ParsePerfdata
<1>3. CASE ParseAnyText
  BY <1>2, <1>3, TextsAssumption DEF ParseAnyText, TextsAssumption
<1>4. CASE ParseWritten
  BY <1>2, <1>4, WrittenType DEF ParseWritten
<1>5. CASE Tokenize
  <2>1. /\ at \in 1..Len(text) /\ at' = at + 1
        /\ UNCHANGED <<text, pc, metrics, parseErrors, failed>>
    BY <1>5 DEF Tokenize
  <2>2. text[at] \in Chars
    BY <2>1
  <2>3. CASE Separator(text[at])
    <3>1. tokens' = Completed /\ current' = <<>> /\ inQuote' = inQuote
      BY <1>5, <2>3 DEF Tokenize
    <3>2. tokens' \in Seq(C)
      BY <1>1, <3>1
    <3> QED
      BY <2>1, <3>1, <3>2
  <2>4. CASE ~Separator(text[at])
    <3>1. /\ tokens' = tokens /\ current' = Append(current, text[at])
          /\ inQuote' = (inQuote # (text[at] \in Quote))
      BY <1>5, <2>4 DEF Tokenize
    <3>2. current' \in Seq(Chars)
      BY <2>2, <3>1
    <3>3. inQuote' \in BOOLEAN
      BY <3>1
    <3> QED
      BY <2>1, <3>1, <3>2, <3>3
  <2> QED
    BY <2>3, <2>4
<1>6. CASE EndOfText
  <2>1. tokens' \in Seq(C)
    BY <1>1, <1>6 DEF EndOfText
  <2> QED
    BY <1>6, <2>1 DEF EndOfText
<1>7. CASE ParseToken
  <2>1. /\ at \in 1..Len(tokens) /\ Parses(tokens[at]) /\ metrics' = Append(metrics, MetricOf(tokens[at]))
        /\ at' = at + 1 /\ UNCHANGED <<text, pc, inQuote, current, tokens, parseErrors, failed>>
    BY <1>7 DEF ParseToken
  <2>2. tokens[at] \in Seq(Chars)
    BY <2>1
  <2>3. MetricOf(tokens[at]) \in Metric
    BY <2>1, <2>2, MetricType
  <2>4. metrics' \in Seq(Metric)
    BY <2>1, <2>3
  <2> QED
    BY <2>1, <2>4
<1>8. CASE TokenFails
  BY <1>8 DEF TokenFails
<1>9. CASE Return
  BY <1>9 DEF Return
<1>10. CASE NextCall
  <2>1. /\ <<>> \in Seq(Chars) /\ <<>> \in Seq(Metric) /\ <<>> \in Seq(C)
        /\ 1 \in Nat /\ 1 >= 1
    BY NoElements
  <2>2. /\ text' = <<>> /\ pc' = "idle" /\ at' = 1 /\ inQuote' = FALSE /\ current' = <<>>
        /\ tokens' = <<>> /\ metrics' = <<>> /\ parseErrors' = FALSE /\ failed' = FALSE
    BY <1>10 DEF NextCall
  <2> HIDE DEF C
  <2>3. tokens' \in Seq(C)
    BY <2>1, <2>2
  <2> QED
    BY <2>1, <2>2, <2>3 DEF C
<1>11. CASE UNCHANGED vars
  BY <1>11 DEF vars
<1> QED
  BY <1>3, <1>4, <1>5, <1>6, <1>7, <1>8, <1>9, <1>10, <1>11 DEF Next

\* Nothing is read, collected or parsed at first.
LEMMA StartsTyped == Init => TypeInv
<1>1. /\ <<>> \in Seq(Chars) /\ <<>> \in Seq(Metric) /\ <<>> \in Seq(Seq(Chars) \ {<<>>})
      /\ 1 \in Nat /\ 1 >= 1
  BY NoElements
<1> QED
  BY <1>1 DEF Init, TypeInv, TypeOK

\* Every variable keeps its type, for any texts and any measurements: whatever
\* is parsed, no token is empty and every metric has numbers where numbers go.
THEOREM TypesKept == Spec => []TypeOK
<1>1. Init => TypeInv
  BY StartsTyped
<1>2. TypeInv /\ [Next]_vars => TypeInv'
  BY TypeKept
<1>3. TypeInv => TypeOK
  BY DEF TypeInv
<1> QED
  BY <1>1, <1>2, <1>3, PTL DEF Spec

-----------------------------------------------------------------------------
(***************************************************************************)
(* Counting the elements of a set of positions, up to one of them.         *)
(***************************************************************************)
Count(S, m) == Cardinality(S \cap 1..m)

\* Up to 0 there is no position.
LEMMA CountNone ==
    ASSUME NEW S
    PROVE  Count(S, 0) = 0
<1>1. S \cap 1..0 = {}
  OBVIOUS
<1> QED
  BY <1>1, FS_EmptySet DEF Count

\* Each position counts once.
LEMMA CountNext ==
    ASSUME NEW S, NEW m \in Nat
    PROVE  /\ Count(S, m) \in Nat
           /\ m + 1 \in S => Count(S, m + 1) = Count(S, m) + 1
           /\ m + 1 \notin S => Count(S, m + 1) = Count(S, m)
<1> DEFINE F == S \cap 1..m
           G == S \cap 1..(m + 1)
<1>1. IsFiniteSet(F)
  <2>1. IsFiniteSet(1..m)
    BY FS_Interval
  <2> QED
    BY <2>1, FS_Subset
<1>2. Cardinality(F) \in Nat
  BY <1>1, FS_CardinalityType
<1>3. ASSUME m + 1 \in S
      PROVE  Cardinality(G) = Cardinality(F) + 1
  <2>1. G = F \cup {m + 1} /\ m + 1 \notin F
    BY <1>3
  <2> HIDE DEF F, G
  <2> QED
    BY <1>1, <2>1, FS_AddElement
<1>4. ASSUME m + 1 \notin S
      PROVE  G = F
  BY <1>4
<1> QED
  BY <1>2, <1>3, <1>4 DEF Count

-----------------------------------------------------------------------------
(***************************************************************************)
(* tokenizePerfdata.  The characters that are kept are all but the gaps; a *)
(* token is a stretch of them that no kept character precedes or follows.  *)
(***************************************************************************)
Kept(s) == DOMAIN s \ Gaps(s)

\* The token that begins at a is where it belongs.
Known(s, ts, a) ==
    /\ Count(TokenStarts(s), a) \in 1..Len(ts)
    /\ ts[Count(TokenStarts(s), a)] = SubSeq(s, a, TokenEnd(s, a))

\* After m characters: the tokens that have ended, and the one that has not.
Reading(s, m, ts, cur) ==
    /\ \A a \in TokenStarts(s) : a <= m /\ ~(a..m \subseteq Kept(s)) => Known(s, ts, a)
    /\ m \in Kept(s) =>
          \E a \in TokenStarts(s) :
             /\ a <= m /\ a..m \subseteq Kept(s) /\ cur = SubSeq(s, a, m)
             /\ Count(TokenStarts(s), a) = Len(ts) + 1
             /\ Count(TokenStarts(s), m) = Len(ts) + 1
    /\ m \notin Kept(s) => cur = <<>> /\ Count(TokenStarts(s), m) = Len(ts)

\* The same once all of the tokens have ended.
Complete(s, m, ts) ==
    /\ \A a \in TokenStarts(s) : a <= m => Known(s, ts, a)
    /\ Count(TokenStarts(s), m) = Len(ts)

\* What the two sets are.
LEMMA KeptAndStarts ==
    ASSUME NEW A, NEW s \in Seq(A)
    PROVE  /\ Kept(s) \subseteq 1..Len(s)
           /\ \A k : k \in TokenStarts(s) <=> k \in Kept(s) /\ k - 1 \notin Kept(s)
BY DEF Kept, TokenStarts

\* A token ends before the first character after its start that is not kept.
LEMMA EndIs ==
    ASSUME NEW A, NEW s \in Seq(A), NEW m \in 0..Len(s), m + 1 \notin Kept(s),
           NEW a \in 1..m, a..m \subseteq Kept(s)
    PROVE  TokenEnd(s, a) = m
<1> DEFINE E == {b \in a..Len(s) : a..b \cap Gaps(s) = {}}
<1>1. m \in E
  BY DEF Kept
<1>2. \A b \in E : b <= m
  <2>1. SUFFICES ASSUME NEW b \in E, b > m
                 PROVE  FALSE
    OBVIOUS
  <2>2. m + 1 \in a..b /\ m + 1 \in DOMAIN s
    BY <2>1
  <2>3. m + 1 \in Gaps(s)
    BY <2>2 DEF Kept
  <2> QED
    BY <2>1, <2>2, <2>3
<1>3. E \subseteq 0..Len(s) /\ Len(s) \in Nat /\ E # {}
  BY <1>1
<1> HIDE DEF E
<1>4. Max(E) \in E /\ \A b \in E : Max(E) >= b
  BY <1>3, MaxIsGreatest
<1>5. Max(E) = m
  <2> DEFINE last == Max(E)
  <2>1. last \in E /\ last >= m
    BY <1>1, <1>4
  <2> HIDE DEF last
  <2>2. last <= m /\ last \in 0..Len(s)
    BY <1>2, <1>3, <2>1
  <2>3. last = m
    BY <1>3, <2>1, <2>2
  <2> QED
    BY <2>3 DEF last
<1> QED
  BY <1>5 DEF TokenEnd, E

\* Only one token can be open.
LEMMA OneOpen ==
    ASSUME NEW A, NEW s \in Seq(A), NEW m \in 0..Len(s),
           NEW a \in TokenStarts(s), a <= m, a..m \subseteq Kept(s),
           NEW b \in TokenStarts(s), b <= m, b..m \subseteq Kept(s)
    PROVE  a = b
<1>1. /\ a \in 1..Len(s) /\ b \in 1..Len(s) /\ m \in Nat
      /\ a - 1 \notin Kept(s) /\ b - 1 \notin Kept(s)
  BY KeptAndStarts
<1>2. ~ a < b
  <2>1. a < b => b - 1 \in a..m
    BY <1>1
  <2> QED
    BY <1>1, <2>1
<1>3. ~ b < a
  <2>1. b < a => a - 1 \in b..m
    BY <1>1
  <2> QED
    BY <1>1, <2>1
<1> QED
  BY <1>1, <1>2, <1>3

\* What is known stays known when a token is appended.
LEMMA KnownKept ==
    ASSUME NEW A, NEW ts \in Seq(A), NEW cur \in A, NEW s, NEW a, Known(s, ts, a)
    PROVE  Known(s, Append(ts, cur), a)
<1> DEFINE i == Count(TokenStarts(s), a)
<1>1. i \in 1..Len(ts) /\ ts[i] = SubSeq(s, a, TokenEnd(s, a))
  BY DEF Known
<1> HIDE DEF i
<1>2. i \in 1..Len(Append(ts, cur)) /\ Append(ts, cur)[i] = ts[i]
  BY <1>1
<1> QED
  BY <1>1, <1>2 DEF Known, i

\* At the end of a token, or between two: the current one completes the tokens.
LEMMA TokenCompleted ==
    ASSUME NEW s \in Seq(Chars), NEW m \in 0..Len(s), m + 1 \notin Kept(s),
           NEW ts \in Seq(Seq(Chars)), NEW cur \in Seq(Chars), Reading(s, m, ts, cur)
    PROVE  Complete(s, m, IF cur = <<>> THEN ts ELSE Append(ts, cur))
<1> DEFINE T == Seq(Chars)
<1>1. CASE m \notin Kept(s)
  <2>1. cur = <<>> /\ Count(TokenStarts(s), m) = Len(ts)
    BY <1>1 DEF Reading
  <2>2. ASSUME NEW a \in TokenStarts(s), a <= m
        PROVE  Known(s, ts, a)
    <3>1. m \in a..m
      BY <2>2, KeptAndStarts
    <3> QED
      BY <1>1, <2>2, <3>1 DEF Reading
  <2> QED
    BY <2>1, <2>2 DEF Complete
<1>2. CASE m \in Kept(s)
  <2>1. PICK a \in TokenStarts(s) :
           /\ a <= m /\ a..m \subseteq Kept(s) /\ cur = SubSeq(s, a, m)
           /\ Count(TokenStarts(s), a) = Len(ts) + 1
           /\ Count(TokenStarts(s), m) = Len(ts) + 1
    BY <1>2 DEF Reading
  <2>2. a \in 1..m /\ m \in Nat
    BY <2>1, KeptAndStarts
  <2>3. cur # <<>>
    <3>1. a \in 1..Len(s) /\ a <= m /\ m \in 0..Len(s)
      BY <2>1, KeptAndStarts
    <3>2. Len(SubSeq(s, a, m)) = m - a + 1
      BY <3>1
    <3>3. Len(cur) > 0
      BY <2>1, <3>1, <3>2
    <3> QED
      BY <3>3
  <2> DEFINE more == Append(ts, cur)
  <2>4. Len(more) = Len(ts) + 1 /\ Len(ts) \in Nat /\ more[Len(ts) + 1] = cur
    <3> HIDE DEF T
    <3>1. ts \in Seq(T) /\ cur \in T
      BY DEF T
    <3> QED
      BY <3>1, Appended
  <2>5. \A b \in TokenStarts(s) : Known(s, ts, b) => Known(s, more, b)
    <3>1. ts \in Seq(T) /\ cur \in T
      OBVIOUS
    <3> HIDE DEF T
    <3> QED
      BY <3>1, KnownKept
  <2> HIDE DEF more
  <2>6. Known(s, more, a)
    <3>1. TokenEnd(s, a) = m
      BY <2>1, <2>2, EndIs
    <3> QED
      BY <2>1, <2>4, <3>1 DEF Known
  <2>7. ASSUME NEW b \in TokenStarts(s), b <= m
        PROVE  Known(s, more, b)
    <3>1. CASE b..m \subseteq Kept(s)
      <4>1. a = b
        BY <2>1, <2>7, <3>1, OneOpen
      <4> QED
        BY <2>6, <4>1
    <3>2. CASE ~(b..m \subseteq Kept(s))
      BY <2>5, <2>7, <3>2 DEF Reading
    <3> QED
      BY <3>1, <3>2
  <2>8. Count(TokenStarts(s), m) = Len(more)
    BY <2>1, <2>4
  <2>9. Complete(s, m, more)
    BY <2>7, <2>8 DEF Complete
  <2> QED
    BY <2>3, <2>9 DEF more
<1> QED
  BY <1>1, <1>2

\* A separator is read: nothing is open then.
LEMMA SeparatorRead ==
    ASSUME NEW s \in Seq(Chars), NEW m \in 0..(Len(s) - 1), m + 1 \notin Kept(s),
           NEW ts, Complete(s, m, ts)
    PROVE  Reading(s, m + 1, ts, <<>>)
<1>1. m + 1 \notin TokenStarts(s) /\ m \in Nat
  BY KeptAndStarts
<1>2. Count(TokenStarts(s), m + 1) = Len(ts)
  BY <1>1, CountNext DEF Complete
<1>3. ASSUME NEW a \in TokenStarts(s), a <= m + 1
      PROVE  Known(s, ts, a)
  <2>1. a \in Nat /\ a # m + 1
    BY <1>1, KeptAndStarts
  <2>2. a <= m
    BY <1>1, <1>3, <2>1
  <2> QED
    BY <2>2 DEF Complete
<1> QED
  BY <1>2, <1>3 DEF Reading

\* Any other character is read: it begins a token or belongs to the open one.
LEMMA CharRead ==
    ASSUME NEW s \in Seq(Chars), NEW m \in 0..(Len(s) - 1), m + 1 \in Kept(s),
           NEW ts \in Seq(Seq(Chars)), NEW cur \in Seq(Chars), Reading(s, m, ts, cur)
    PROVE  Reading(s, m + 1, ts, Append(cur, s[m + 1]))
<1> DEFINE next == Append(cur, s[m + 1])
<1>1. m \in Nat /\ m + 1 \in Nat /\ Len(s) \in Nat /\ m + 1 <= Len(s)
  OBVIOUS
<1>2. ASSUME NEW a \in TokenStarts(s), a <= m + 1, ~(a..(m + 1) \subseteq Kept(s))
      PROVE  Known(s, ts, a)
  <2>1. a \in Nat /\ a # m + 1
    BY <1>1, <1>2, KeptAndStarts
  <2>2. a <= m
    BY <1>1, <1>2, <2>1
  <2>3. a..(m + 1) = (a..m) \cup {m + 1}
    BY <1>1, <2>1, <2>2
  <2>4. ~(a..m \subseteq Kept(s))
    BY <1>2, <2>3
  <2> QED
    BY <2>2, <2>4 DEF Reading
<1>3. \E a \in TokenStarts(s) :
             /\ a <= m + 1 /\ a..(m + 1) \subseteq Kept(s) /\ next = SubSeq(s, a, m + 1)
             /\ Count(TokenStarts(s), a) = Len(ts) + 1
             /\ Count(TokenStarts(s), m + 1) = Len(ts) + 1
  <2>1. CASE m \in Kept(s)
    <3>1. PICK a \in TokenStarts(s) :
             /\ a <= m /\ a..m \subseteq Kept(s) /\ cur = SubSeq(s, a, m)
             /\ Count(TokenStarts(s), a) = Len(ts) + 1
             /\ Count(TokenStarts(s), m) = Len(ts) + 1
      BY <2>1 DEF Reading
    <3>2. a \in 1..m
      BY <1>1, <3>1, KeptAndStarts
    <3>3. a..(m + 1) = (a..m) \cup {m + 1}
      BY <1>1, <3>2
    <3>4. m + 1 \notin TokenStarts(s)
      <4>1. (m + 1) - 1 = m
        BY <1>1
      <4> QED
        BY <2>1, <4>1, KeptAndStarts
    <3>5. Count(TokenStarts(s), m + 1) = Len(ts) + 1
      BY <1>1, <3>1, <3>4, CountNext
    <3>6. next = SubSeq(s, a, m + 1)
      BY <1>1, <3>1, <3>2, StretchExtended
    <3>7. a <= m + 1 /\ a..(m + 1) \subseteq Kept(s)
      BY SMTT(30), <1>1, <3>1, <3>2, <3>3
    <3> HIDE DEF next
    <3> QED
      BY <3>1, <3>5, <3>6, <3>7
  <2>2. CASE m \notin Kept(s)
    <3>1. cur = <<>> /\ Count(TokenStarts(s), m) = Len(ts)
      BY <2>2 DEF Reading
    <3>2. m + 1 \in TokenStarts(s)
      <4>1. (m + 1) - 1 = m
        BY <1>1
      <4> QED
        BY <2>2, <4>1, KeptAndStarts
    <3>3. Count(TokenStarts(s), m + 1) = Len(ts) + 1
      BY <1>1, <3>1, <3>2, CountNext
    <3>4. next = SubSeq(s, m + 1, m + 1)
      BY <1>1, <3>1
    <3>5. m + 1 <= m + 1 /\ (m + 1)..(m + 1) = {m + 1}
      BY <1>1
    <3> HIDE DEF next
    <3> QED
      BY <3>2, <3>3, <3>4, <3>5
  <2> QED
    BY <2>1, <2>2
<1> HIDE DEF next
<1>4. Reading(s, m + 1, ts, next)
  BY <1>2, <1>3 DEF Reading
<1> QED
  BY <1>4 DEF next

\* The quotes before a character, as the property counts them and as they are counted here.
LEMMA QuotesBefore ==
    ASSUME NEW s \in Seq(Chars), NEW k \in 1..Len(s)
    PROVE  Cardinality(Where(SubSeq(s, 1, k), Quote)) = Count(Where(s, Quote), k)
<1> DEFINE b == SubSeq(s, 1, k)
<1>1. DOMAIN b = 1..k /\ \A j \in 1..k : b[j] = s[j]
  OBVIOUS
<1>2. DOMAIN s = 1..Len(s) /\ 1..k \subseteq DOMAIN s
  OBVIOUS
<1> HIDE DEF b
<1>3. Where(b, Quote) = Where(s, Quote) \cap 1..k
  BY <1>1, <1>2 DEF Where
<1> QED
  BY <1>3 DEF Count, b

\* The next character is kept unless it is a space with an even number of quotes before.
LEMMA NextKept ==
    ASSUME NEW s \in Seq(Chars), NEW m \in 0..(Len(s) - 1)
    PROVE  m + 1 \in Kept(s) <=> ~(s[m + 1] = " " /\ Count(Where(s, Quote), m) % 2 = 0)
<1>1. m \in Nat /\ m + 1 \in 1..Len(s) /\ DOMAIN s = 1..Len(s)
  OBVIOUS
<1>2. m + 1 \in Where(s, Space) <=> s[m + 1] = " "
  BY <1>1 DEF Where, Space
<1>3. ASSUME s[m + 1] = " "
      PROVE  Count(Where(s, Quote), m + 1) = Count(Where(s, Quote), m)
  <2>1. m + 1 \notin Where(s, Quote)
    BY <1>3 DEF Where, Quote
  <2> QED
    BY <1>1, <2>1, CountNext
<1>4. Cardinality(Where(SubSeq(s, 1, m + 1), Quote)) = Count(Where(s, Quote), m + 1)
  BY <1>1, QuotesBefore
<1>5. m + 1 \in Gaps(s) <=>
         m + 1 \in Where(s, Space) /\ Cardinality(Where(SubSeq(s, 1, m + 1), Quote)) % 2 = 0
  BY DEF Gaps
<1>6. m + 1 \in Kept(s) <=> m + 1 \notin Gaps(s)
  BY <1>1 DEF Kept
<1> QED
  BY <1>2, <1>3, <1>4, <1>5, <1>6

\* Whether the number of quotes is odd changes with a quote and only then.
LEMMA NextQuote ==
    ASSUME NEW s \in Seq(Chars), NEW m \in 0..(Len(s) - 1)
    PROVE  (Count(Where(s, Quote), m + 1) % 2 = 1)
              = ((Count(Where(s, Quote), m) % 2 = 1) # (s[m + 1] \in Quote))
<1>1. m \in Nat /\ m + 1 \in 1..Len(s) /\ DOMAIN s = 1..Len(s)
  OBVIOUS
<1> DEFINE c == Count(Where(s, Quote), m)
           d == Count(Where(s, Quote), m + 1)
<1>2. c \in Nat
  BY <1>1, CountNext
<1>3. (s[m + 1] \in Quote => d = c + 1) /\ (s[m + 1] \notin Quote => d = c)
  BY <1>1, CountNext DEF Where
<1> HIDE DEF c, d
<1>4. (c + 1) % 2 = 1 <=> ~(c % 2 = 1)
  BY <1>2
<1>5. (d % 2 = 1) = ((c % 2 = 1) # (s[m + 1] \in Quote))
  BY <1>3, <1>4
<1> QED
  BY <1>5 DEF c, d

\* Every text has its tokens, at every point of tokenizePerfdata.
SplitInv ==
    /\ pc = "idle" => at = 1 /\ inQuote = FALSE /\ current = <<>> /\ tokens = <<>>
    /\ pc = "tokenize" =>
          /\ at - 1 <= Len(text)
          /\ inQuote = (Count(Where(text, Quote), at - 1) % 2 = 1)
          /\ Reading(text, at - 1, tokens, current)
    /\ pc = "parse" => Complete(text, Len(text), tokens)

\* At the first character.
LEMMA NothingRead ==
    ASSUME NEW s \in Seq(Chars)
    PROVE  Reading(s, 0, <<>>, <<>>) /\ Count(Where(s, Quote), 0) % 2 = 0
<1>1. 0 \notin Kept(s) /\ \A a \in TokenStarts(s) : ~(a <= 0)
  BY KeptAndStarts
<1>2. Len(<<>>) = 0
  OBVIOUS
<1>3. Count(TokenStarts(s), 0) = 0 /\ Count(Where(s, Quote), 0) = 0
  BY CountNone
<1> QED
  BY <1>1, <1>2, <1>3 DEF Reading

\* The splitting is kept by every step: Tokenize reads one more character.
LEMMA SplitKept ==
    ASSUME TypeInv, SplitInv, [Next]_vars
    PROVE  SplitInv'
<1>1. \A t \in Seq(Chars) : \A ms : ParsePerfdata(t, ms) => SplitInv'
  <2> SUFFICES ASSUME NEW t \in Seq(Chars), NEW ms, ParsePerfdata(t, ms)
               PROVE  SplitInv'
    OBVIOUS
  <2>1. /\ pc = "idle" /\ text' = Trim(t, Space) /\ pc' \in {"tokenize", "returned"}
        /\ UNCHANGED <<at, inQuote, current, tokens>>
    BY DEF ParsePerfdata
  <2>2. text' \in Seq(Chars)
    BY <2>1, TrimType
  <2>3. at' = 1 /\ inQuote' = FALSE /\ current' = <<>> /\ tokens' = <<>>
    BY <2>1 DEF SplitInv
  <2>4. /\ Reading(text', at' - 1, tokens', current')
        /\ inQuote' = (Count(Where(text', Quote), at' - 1) % 2 = 1)
    <3>1. Reading(text', 0, <<>>, <<>>) /\ Count(Where(text', Quote), 0) % 2 = 0
      BY <2>2, NothingRead
    <3>2. at' - 1 = 0
      BY <2>3
    <3>3. Reading(text', at' - 1, tokens', current')
      BY <2>3, <3>1, <3>2, Zenon
    <3>4. Count(Where(text', Quote), at' - 1) % 2 = 0
      BY <3>1, <3>2, Zenon
    <3>5. ~(Count(Where(text', Quote), at' - 1) % 2 = 1)
      BY <3>4
    <3> QED
      BY <2>3, <3>3, <3>5
  <2>5. at' - 1 <= Len(text')
    BY <2>2, <2>3
  <2>6. pc' # "idle" /\ pc' # "parse"
    BY <2>1
  <2> QED
    BY <2>4, <2>5, <2>6 DEF SplitInv
<1>2. CASE ParseAnyText
  BY <1>1, <1>2, TextsAssumption DEF ParseAnyText, TextsAssumption
<1>3. CASE ParseWritten
  BY <1>1, <1>3, WrittenType DEF ParseWritten
<1> DEFINE m == at - 1
<1>4. CASE Tokenize
  <2>1. /\ pc = "tokenize" /\ pc' = "tokenize" /\ text' = text /\ at' = at + 1
        /\ text \in Seq(Chars) /\ at \in 1..Len(text)
        /\ tokens \in Seq(Seq(Chars)) /\ current \in Seq(Chars)
    BY <1>4 DEF Tokenize, TypeInv, TypeOK
  <2>2. m \in 0..(Len(text) - 1) /\ m + 1 = at /\ at' - 1 = m + 1 /\ m \in 0..Len(text)
    BY <2>1
  <2>3. Reading(text, m, tokens, current) /\ inQuote = (Count(Where(text, Quote), m) % 2 = 1)
    BY <2>1 DEF SplitInv
  <2> HIDE DEF m
  <2>4. Count(Where(text, Quote), m) \in Nat
    BY <2>2, CountNext
  <2>5. Separator(text[m + 1]) <=> m + 1 \notin Kept(text)
    <3> DEFINE c == Count(Where(text, Quote), m)
    <3>1. m + 1 \in Kept(text) <=> ~(text[m + 1] = " " /\ c % 2 = 0)
      BY <2>1, <2>2, NextKept
    <3>2. c \in Nat /\ inQuote = (c % 2 = 1)
      BY <2>3, <2>4
    <3> HIDE DEF c
    <3>3. ~inQuote <=> c % 2 = 0
      <4>1. c % 2 = 0 <=> ~(c % 2 = 1)
        BY <3>2
      <4>2. inQuote <=> c % 2 = 1
        BY <3>2, Zenon
      <4> QED
        BY <4>1, <4>2
    <3> QED
      BY <3>1, <3>3 DEF Separator
  <2>6. CASE Separator(text[m + 1])
    <3>1. tokens' = Completed /\ current' = <<>> /\ inQuote' = inQuote
      BY <1>4, <2>2, <2>6 DEF Tokenize
    <3>2. Complete(text, m, tokens')
      BY <2>1, <2>2, <2>3, <2>5, <2>6, <3>1, TokenCompleted DEF Completed
    <3>3. Reading(text, m + 1, tokens', current')
      BY <2>1, <2>2, <2>5, <2>6, <3>1, <3>2, SeparatorRead
    <3>4. text[m + 1] \notin Quote
      BY <2>6 DEF Separator, Quote
    <3>5. inQuote' = (Count(Where(text, Quote), m + 1) % 2 = 1)
      BY <2>1, <2>2, <2>3, <3>1, <3>4, NextQuote
    <3> QED
      BY <2>1, <2>2, <3>3, <3>5 DEF SplitInv
  <2>7. CASE ~Separator(text[m + 1])
    <3>1. /\ tokens' = tokens /\ current' = Append(current, text[m + 1])
          /\ inQuote' = (inQuote # (text[m + 1] \in Quote))
      BY <1>4, <2>2, <2>7 DEF Tokenize
    <3>2. Reading(text, m + 1, tokens', current')
      BY <2>1, <2>2, <2>3, <2>5, <2>7, <3>1, CharRead
    <3>3. inQuote' = (Count(Where(text, Quote), m + 1) % 2 = 1)
      BY <2>1, <2>2, <2>3, <3>1, NextQuote
    <3> QED
      BY <2>1, <2>2, <3>2, <3>3 DEF SplitInv
  <2> QED
    BY <2>6, <2>7
<1>5. CASE EndOfText
  <2>1. /\ pc = "tokenize" /\ pc' = "parse" /\ text' = text /\ tokens' = Completed
        /\ text \in Seq(Chars) /\ at > Len(text) /\ at \in Nat
        /\ tokens \in Seq(Seq(Chars)) /\ current \in Seq(Chars)
    BY <1>5 DEF EndOfText, TypeInv, TypeOK
  <2>2. m = Len(text) /\ m \in 0..Len(text) /\ Reading(text, m, tokens, current)
    BY <2>1 DEF SplitInv
  <2> HIDE DEF m
  <2>3. m + 1 \notin Kept(text)
    BY <2>1, <2>2, KeptAndStarts
  <2>4. Complete(text, m, tokens')
    BY <2>1, <2>2, <2>3, TokenCompleted DEF Completed
  <2> QED
    BY <2>1, <2>2, <2>4 DEF SplitInv
<1>6. CASE ParseToken \/ TokenFails
  <2>1. pc' = pc /\ pc = "parse" /\ text' = text /\ tokens' = tokens
    BY <1>6 DEF ParseToken, TokenFails
  <2> QED
    BY <2>1 DEF SplitInv
<1>7. CASE Return
  BY <1>7 DEF Return, SplitInv
<1>8. CASE NextCall
  BY <1>8 DEF NextCall, SplitInv
<1>9. CASE UNCHANGED vars
  BY <1>9 DEF vars, SplitInv
<1> QED
  BY <1>2, <1>3, <1>4, <1>5, <1>6, <1>7, <1>8, <1>9 DEF Next

\* tokenizePerfdata returns the stretches between the spaces outside of quotes,
\* each of them once and in their order, whatever the text: a quote that is never
\* closed, spaces in a row and quotes inside of a token included.
THEOREM TextsAreSplit == Spec => []TokensAreSplit
<1>1. Init => TypeInv
  BY StartsTyped
<1>2. Init => SplitInv
  BY DEF Init, SplitInv
<1>3. TypeInv /\ SplitInv /\ [Next]_vars => TypeInv' /\ SplitInv'
  BY TypeKept, SplitKept
<1>4. TypeInv /\ SplitInv => TokensAreSplit
  <2> SUFFICES ASSUME TypeInv, SplitInv, pc = "parse"
               PROVE  /\ Len(tokens) = Cardinality(TokenStarts(text))
                      /\ \A a \in TokenStarts(text) :
                            tokens[Cardinality(TokenStarts(text) \cap 1..a)] =
                               SubSeq(text, a, TokenEnd(text, a))
    BY DEF TokensAreSplit
  <2>1. text \in Seq(Chars) /\ Complete(text, Len(text), tokens)
    BY DEF TypeInv, TypeOK, SplitInv
  <2>2. TokenStarts(text) \subseteq 1..Len(text)
    BY <2>1, KeptAndStarts
  <2>3. TokenStarts(text) \cap 1..Len(text) = TokenStarts(text)
    BY <2>2
  <2>4. \A a \in TokenStarts(text) : a <= Len(text)
    BY <2>1, <2>2
  <2> QED
    BY <2>1, <2>3, <2>4 DEF Complete, Known, Count
<1> QED
  BY <1>1, <1>2, <1>3, <1>4, PTL DEF Spec

-----------------------------------------------------------------------------
(***************************************************************************)
(* parsePerfdataToken, of what Write writes.                               *)
(***************************************************************************)
\* The semicolon may be put with what precedes it.
LEMMA SemicolonRegrouped ==
    \A s, t, u \in Seq(Chars) : s \o (t \o (<<";">> \o u)) = (s \o t) \o <<";">> \o u
<1> DEFINE one == <<";">>
<1>1. one \in Seq(Chars)
  BY SomeTexts
<1> HIDE DEF one
<1>2. \A s, t, u \in Seq(Chars) : s \o (t \o (one \o u)) = (s \o t) \o one \o u
  BY <1>1
<1> QED
  BY <1>2 DEF one

\* What is appended to a text that begins with c.
LEMMA AppendedBehind ==
    ASSUME NEW A, NEW c \in A, NEW s \in Seq(A), NEW x \in A
    PROVE  Append(<<c>> \o s, x) = <<c>> \o Append(s, x) /\ <<c>> \o <<>> = <<c>>
<1> DEFINE one == <<c>>
<1>1. one \in Seq(A)
  BY OneChar
<1> HIDE DEF one
<1>2. Append(one \o s, x) = one \o Append(s, x) /\ one \o <<>> = one
  BY <1>1
<1> QED
  BY <1>2 DEF one

\* Two texts taken apart again.
LEMMA TakenApart ==
    ASSUME NEW A, NEW s \in Seq(A), NEW t \in Seq(A)
    PROVE  /\ SubSeq(s \o t, 1, Len(s)) = s
           /\ SubSeq(s \o t, Len(s) + 1, Len(s \o t)) = t
<1> DEFINE u == s \o t
<1>1. /\ u \in Seq(A) /\ Len(u) = Len(s) + Len(t) /\ Len(s) \in Nat /\ Len(t) \in Nat
      /\ \A i \in 1..Len(s) : u[i] = s[i]
      /\ \A i \in 1..Len(t) : u[Len(s) + i] = t[i]
  BY TwoTexts DEF AreJoined
<1> HIDE DEF u
<1>2. SubSeq(u, 1, Len(s)) = s
  BY <1>1
<1>3. SubSeq(u, Len(s) + 1, Len(u)) = t
  <2> DEFINE v == SubSeq(u, Len(s) + 1, Len(u))
  <2>1. v \in Seq(A) /\ Len(v) = Len(t) /\ \A i \in 1..Len(t) : v[i] = u[Len(s) + i]
    BY <1>1
  <2> HIDE DEF v
  <2>2. \A i \in 1..Len(t) : v[i] = t[i]
    BY <1>1, <2>1
  <2>3. v = t
    BY <2>1, <2>2
  <2> QED
    BY <2>3 DEF v
<1> QED
  BY <1>2, <1>3 DEF u

\* Nothing to trim.
LEMMA NothingToTrim ==
    ASSUME NEW A, NEW s \in Seq(A), NEW C, \A k \in DOMAIN s : s[k] \notin C
    PROVE  Trim(s, C) = s
<1>1. CASE s = <<>>
  <2>1. \A k \in DOMAIN s : s[k] \in C
    BY <1>1
  <2> QED
    BY <1>1, <2>1, TrimToNothing
<1>2. CASE s # <<>>
  <2>1. 1 \in DOMAIN s /\ Len(s) \in DOMAIN s
    BY <1>2
  <2> QED
    BY <1>2, <2>1, TrimUnchanged
<1> QED
  BY <1>1, <1>2

\* A prefix that is there, and one that is not.
LEMMA PrefixCut ==
    ASSUME NEW A, NEW c \in A, NEW s \in Seq(A)
    PROVE  WithoutPrefix(<<c>> \o s, c) = s
<1> DEFINE u == <<c>> \o s
<1>1. <<c>> \in Seq(A) /\ Len(<<c>>) = 1 /\ <<c>>[1] = c
  BY OneChar
<1>2. /\ u \in Seq(A) /\ Len(u) = Len(s) + 1 /\ Len(s) \in Nat /\ u[1] = c
      /\ \A i \in 1..Len(s) : u[1 + i] = s[i]
  BY <1>1, TwoTexts
<1> HIDE DEF u
<1>3. u # <<>> /\ Head(u) = c /\ Tail(u) \in Seq(A) /\ Len(Tail(u)) = Len(s)
      /\ \A i \in 1..Len(s) : Tail(u)[i] = u[i + 1]
  BY <1>2
<1> DEFINE v == Tail(u)
<1>4. v \in Seq(A) /\ Len(v) = Len(s) /\ \A i \in 1..Len(s) : v[i] = s[i]
  BY <1>2, <1>3
<1> HIDE DEF v
<1>5. v = s
  BY <1>4
<1> QED
  BY <1>3, <1>5 DEF WithoutPrefix, u, v

\* WithoutPrefix leaves a text without c alone.
LEMMA PrefixKept ==
    ASSUME NEW A, NEW s \in Seq(A), NEW c, \A k \in DOMAIN s : s[k] # c
    PROVE  WithoutPrefix(s, c) = s
<1>1. s # <<>> => 1 \in DOMAIN s /\ Head(s) = s[1]
  OBVIOUS
<1> QED
  BY <1>1 DEF WithoutPrefix

\* The characters of a text are of the alphabet it is over.
LEMMA CharsOf ==
    ASSUME NEW A, NEW s \in Seq(A), NEW c, c \notin A
    PROVE  \A k \in DOMAIN s : s[k] # c
OBVIOUS

\* A text without c is one over the other characters.
LEMMA LacksChar ==
    ASSUME NEW A, NEW c, NEW s
    PROVE  s \in Seq(A \ {c}) <=> s \in Seq(A) /\ \A k \in DOMAIN s : s[k] # c
<1>1. ASSUME s \in Seq(A \ {c})
      PROVE  s \in Seq(A) /\ \A k \in DOMAIN s : s[k] # c
  BY <1>1
<1>2. ASSUME s \in Seq(A), \A k \in DOMAIN s : s[k] # c
      PROVE  s \in Seq(A \ {c})
  <2>1. Len(s) \in Nat /\ s \in [1..Len(s) -> A \ {c}]
    BY <1>2
  <2> QED
    BY <2>1, FunctionIsSequence
<1> QED
  BY <1>1, <1>2

\* What follows the last colon.
LEMMA BehindColon ==
    ASSUME NEW s \in Seq(RangeChars), NEW t \in Seq(Numeric)
    PROVE  /\ Last(Split(t, ":")) = t
           /\ Last(Split(s \o <<":">> \o t, ":")) = t
<1>1. t \in Seq(RangeChars) /\ \A k \in DOMAIN t : t[k] # ":"
  BY WiderText, RangeCharsAre, CharsOf
<1>2. Split(t, ":") = <<t>>
  BY <1>1, SplitOfOne
<1>3. Split(s \o <<":">> \o t, ":") = Append(Split(s, ":"), t)
  <2>1. ":" \in RangeChars
    BY DEF RangeChars
  <2> QED
    BY <1>1, <2>1, SplitAfterAnother
<1> DEFINE T == Seq(RangeChars)
           parts == Split(s, ":")
<1>4. parts \in Seq(T)
  BY SplitType
<1>5. t \in T
  BY <1>1
<1> HIDE DEF T, parts
<1>6. Last(Append(parts, t)) = t
  BY <1>4, <1>5 DEF Last
<1>7. Last(<<t>>) = t
  BY DEF Last
<1> QED
  BY <1>2, <1>3, <1>6, <1>7 DEF parts

\* Nothing is no number.
LEMMA EmptyIsNoFloat == ~IsFloat(<<>>)
BY DEF IsFloat, Where

\* A range comes back as its upper bound.
LEMMA ThresholdOfRange ==
    ASSUME NEW r \in Span
    PROVE  Threshold(WriteRange(r)) = r.end
<1> DEFINE C == RangeChars
           from == IF r.start = <<>> THEN <<>> ELSE r.start \o <<":">>
           to == r.end
           s == WriteRange(r)
           t == from \o to
           u == WithoutPrefix(t, "~")
<1>1. /\ r.inside \in BOOLEAN /\ to \in Bound /\ to \in Seq(Numeric) /\ to \in Seq(C)
      /\ r.start \in Bound \cup {<<"~">>}
  <2>1. \A b \in Bound : b \in Seq(Numeric)
    BY DEF Bound
  <2> QED
    BY <2>1, WiderText, RangeCharsAre DEF Span
<1>2. "@" \in C /\ ":" \in C /\ "~" \in C /\ <<":">> \in Seq(C) /\ <<"~">> \in Seq(C)
  <2>1. "@" \in C /\ ":" \in C /\ "~" \in C
    BY DEF RangeChars
  <2> HIDE DEF C
  <2> QED
    BY <2>1, OneChar
<1>3. /\ Numeric \subseteq C /\ " " \notin C
      /\ "@" \notin Numeric /\ ":" \notin Numeric /\ "~" \notin Numeric
  BY RangeCharsAre
<1>4. Trim(s, Space) = s
  <2>1. s \in Seq(C)
    BY WrittenRangeType
  <2> HIDE DEF s
  <2>2. \A k \in DOMAIN s : s[k] # " "
    BY <1>3, <2>1, CharsOf
  <2>3. \A k \in DOMAIN s : s[k] \notin Space
    BY <2>2 DEF Space
  <2> QED
    BY <2>1, <2>3, NothingToTrim
<1>5. s = (IF r.inside THEN <<"@">> ELSE <<>>) \o from \o to
  BY DEF WriteRange
<1> DEFINE D == C \ {"@"}
<1>6. from \in Seq(D)
  <2> HIDE DEF C
  <2>1. CASE r.start = <<>>
    <3>1. from = <<>>
      BY <2>1
    <3> QED
      BY <3>1, NoElements
  <2>2. CASE r.start # <<>> /\ r.start \in Bound
    <3>1. from = r.start \o <<":">> /\ r.start \in Seq(Numeric)
      BY <2>2 DEF Bound
    <3>2. r.start \in Seq(D) /\ <<":">> \in Seq(D)
      <4>1. Numeric \subseteq D /\ ":" \in D
        BY <1>2, <1>3
      <4> HIDE DEF D
      <4> QED
        BY <3>1, <4>1, WiderText, OneChar
    <3> HIDE DEF D, from
    <3> QED
      BY <3>1, <3>2, Joined
  <2>3. CASE r.start = <<"~">>
    <3>1. from = <<"~">> \o <<":">>
      <4>1. <<"~">> # <<>>
        OBVIOUS
      <4> QED
        BY <2>3, <4>1, Zenon
    <3>2. <<"~">> \in Seq(D) /\ <<":">> \in Seq(D)
      <4>1. "~" \in D /\ ":" \in D
        BY <1>2
      <4> HIDE DEF D
      <4> QED
        BY <4>1, OneChar
    <3> HIDE DEF D, from
    <3> QED
      BY <3>1, <3>2, Joined
  <2> QED
    BY <1>1, <2>1, <2>2, <2>3
<1>7. t \in Seq(C) /\ \A k \in DOMAIN t : t[k] # "@"
  <2>2. to \in Seq(D)
    <3>1. Numeric \subseteq D
      BY <1>3
    <3> HIDE DEF D
    <3> QED
      BY <1>1, <3>1, WiderText
  <2>3. t \in Seq(D)
    <3> HIDE DEF D, from, to
    <3> QED
      BY <1>6, <2>2, Joined
  <2> HIDE DEF t, C
  <2> QED
    BY <2>3, LacksChar
<1>8. from \in Seq(C)
  <2> HIDE DEF from, C
  <2> QED
    BY <1>6, LacksChar
<1>9. WithoutPrefix(s, "@") = t
  <2>1. CASE r.inside
    <3>1. s = <<"@">> \o t
      <4>1. s = <<"@">> \o from \o to
        BY <1>5, <2>1
      <4>2. <<"@">> \in Seq(C)
        BY <1>2, OneChar
      <4> HIDE DEF s, C, from, to
      <4> QED
        BY <1>1, <1>8, <4>1, <4>2
    <3> HIDE DEF s, t, C
    <3> QED
      BY <1>2, <1>7, <3>1, PrefixCut
  <2>2. CASE ~r.inside
    <3>1. s = t
      <4>1. s = <<>> \o from \o to
        BY <1>5, <2>2
      <4> HIDE DEF s, C, from, to
      <4> QED
        BY <1>1, <1>8, <4>1
    <3> HIDE DEF s, t, C
    <3> QED
      BY <1>7, <3>1, PrefixKept
  <2> QED
    BY <1>1, <2>1, <2>2
<1>10. Last(Split(u, ":")) = to
  <2>1. CASE r.start = <<>>
    <3>1. t = to
      BY <1>1, <2>1
    <3>2. WithoutPrefix(to, "~") = to
      <4> HIDE DEF to
      <4>1. \A k \in DOMAIN to : to[k] # "~"
        BY <1>1, <1>3, CharsOf
      <4> QED
        BY <1>1, <4>1, PrefixKept
    <3>3. u = to
      BY <3>1, <3>2
    <3> HIDE DEF u, to
    <3> QED
      BY <1>1, <3>3, BehindColon
  <2>2. CASE r.start # <<>> /\ r.start \in Bound
    <3>1. r.start \in Seq(Numeric)
      BY <2>2 DEF Bound
    <3>2. t = r.start \o <<":">> \o to
      BY <2>2
    <3>3. \A k \in DOMAIN t : t[k] # "~"
      <4> DEFINE E == C \ {"~"}
      <4>1. Numeric \subseteq E /\ ":" \in E
        BY <1>2, <1>3
      <4>2. t \in Seq(E)
        <5> HIDE DEF E, t, to
        <5>1. r.start \in Seq(E) /\ <<":">> \in Seq(E) /\ to \in Seq(E)
          BY <1>1, <3>1, <4>1, WiderText, OneChar
        <5> QED
          BY <3>2, <5>1, Joined
      <4> HIDE DEF t, C
      <4> QED
        BY <4>2, LacksChar
    <3>4. u = t
      <4> HIDE DEF t, C
      <4> QED
        BY <1>7, <3>3, PrefixKept
    <3>5. r.start \in Seq(RangeChars)
      BY <1>3, <3>1, WiderText
    <3> HIDE DEF u, to, t
    <3> QED
      BY <1>1, <3>2, <3>4, <3>5, BehindColon
  <2>3. CASE r.start = <<"~">>
    <3> DEFINE rest == <<":">> \o to
    <3>1. rest \in Seq(C)
      <4> HIDE DEF C, to
      <4> QED
        BY <1>1, <1>2, Joined
    <3>2. t = <<"~">> \o rest
      <4>1. t = (<<"~">> \o <<":">>) \o to
        BY <2>3
      <4> HIDE DEF C, to, t
      <4> QED
        BY <1>1, <1>2, <4>1
    <3>3. u = rest
      <4> HIDE DEF rest, C, t
      <4> QED
        BY <1>2, <3>1, <3>2, PrefixCut
    <3>4. rest = <<>> \o <<":">> \o to
      OBVIOUS
    <3>5. <<>> \in Seq(RangeChars)
      OBVIOUS
    <3>6. Last(Split(<<>> \o <<":">> \o to, ":")) = to
      <4> HIDE DEF to
      <4> QED
        BY <1>1, <3>5, BehindColon
    <3> QED
      BY <3>3, <3>4, <3>6
  <2> QED
    BY <1>1, <2>1, <2>2, <2>3
<1>11. Threshold(s) = IF IsFloat(to) THEN to ELSE <<>>
  <2>1. u = WithoutPrefix(WithoutPrefix(Trim(s, Space), "@"), "~")
    BY <1>4, <1>9
  <2> HIDE DEF s, u, to
  <2> QED
    BY <1>10, <2>1 DEF Threshold, Nil
<1>12. to = <<>> \/ IsFloat(to)
  BY <1>1 DEF Bound
<1> QED
  BY <1>11, <1>12, EmptyIsNoFloat

\* A bound comes back as it is.
LEMMA FloatOfBound ==
    ASSUME NEW b \in Bound
    PROVE  OptionalFloat(b) = b
<1>1. b \in Seq(Numeric) /\ (b = <<>> \/ IsFloat(b))
  BY DEF Bound
<1>2. \A k \in DOMAIN b : b[k] \notin Space
  <2>1. \A k \in DOMAIN b : b[k] # " "
    BY <1>1, RangeCharsAre, CharsOf
  <2> QED
    BY <2>1 DEF Space
<1>3. Trim(b, Space) = b
  BY <1>1, <1>2, NothingToTrim
<1> QED
  BY <1>1, <1>3, EmptyIsNoFloat DEF OptionalFloat, Nil

\* The numeric part of a text ends where its other characters begin.
LEMMA NumericPart ==
    ASSUME NEW v \in Seq(Numeric), NEW u \in Seq(Chars), 1 \in DOMAIN u => u[1] \notin Numeric
    PROVE  NumEnd(v \o u) = Len(v)
<1> DEFINE s == v \o u
           S == {n \in 0..Len(s) : \A k \in 1..n : s[k] \in Numeric}
<1>1. v \in Seq(Chars)
  BY WiderText, CharsAre
<1>2. /\ Len(s) = Len(v) + Len(u) /\ Len(v) \in Nat /\ Len(u) \in Nat
      /\ \A i \in 1..Len(v) : s[i] = v[i] /\ v[i] \in Numeric
      /\ 1 \in 1..Len(u) => s[Len(v) + 1] = u[1] /\ u[1] \notin Numeric
  BY <1>1, TwoTexts DEF AreJoined
<1> HIDE DEF s
<1>3. Len(v) \in S
  BY <1>2
<1>4. \A n \in S : n <= Len(v)
  <2>1. SUFFICES ASSUME NEW n \in S, n > Len(v)
                 PROVE  FALSE
    BY <1>2
  <2>2. Len(v) + 1 \in 1..n /\ 1 \in 1..Len(u)
    BY <1>2, <2>1
  <2>3. s[Len(v) + 1] \in Numeric
    BY <2>1, <2>2
  <2> QED
    BY <1>2, <2>2, <2>3
<1>5. S \subseteq 0..Len(s) /\ Len(s) \in Nat /\ S # {}
  <2>1. S \subseteq 0..Len(s)
    OBVIOUS
  <2> HIDE DEF S
  <2> QED
    BY <1>2, <1>3, <2>1
<1> HIDE DEF S
<1> DEFINE last == Max(S)
<1>6. last \in S /\ last >= Len(v)
  BY <1>3, <1>5, MaxIsGreatest
<1> HIDE DEF last
<1>7. last = Len(v)
  <2>1. last <= Len(v) /\ last \in 0..Len(s)
    BY <1>4, <1>5, <1>6
  <2> QED
    BY <1>2, <1>5, <1>6, <2>1
<1> QED
  BY <1>7 DEF NumEnd, S, last, s

\* A unit that begins like a number goes on, but neither with a digit nor with a dot,
\* spoils the number in front of it.
LEMMA SpoiledNumber ==
    ASSUME NEW v \in Seq(Numeric), IsFloat(v),
           NEW u \in Seq(Chars), \A k \in DOMAIN u : u[k] \notin Digits,
           1 \in DOMAIN u, u[1] \in Numeric, u[1] # "."
    PROVE  ~IsFloat(SubSeq(v \o u, 1, NumEnd(v \o u)))
<1> DEFINE s == v \o u
           n == NumEnd(s)
           S == {i \in 0..Len(s) : \A k \in 1..i : s[k] \in Numeric}
           w == SubSeq(s, 1, n)
           p == Len(v) + 1
<1>1. v \in Seq(Chars)
  BY WiderText, CharsAre
<1>2. /\ s \in Seq(Chars) /\ Len(s) = Len(v) + Len(u) /\ Len(v) \in Nat /\ Len(u) \in Nat
      /\ \A i \in 1..Len(v) : s[i] = v[i] /\ v[i] \in Numeric
      /\ \A i \in 1..Len(u) : s[Len(v) + i] = u[i] /\ u[i] \notin Digits
      /\ DOMAIN v = 1..Len(v) /\ DOMAIN u = 1..Len(u)
  BY <1>1, TwoTexts DEF AreJoined
<1> HIDE DEF s
<1>3. p \in S
  <2>1. p \in 0..Len(s) /\ 1 \in 1..Len(u)
    BY <1>2
  <2>2. ASSUME NEW k \in 1..p
        PROVE  s[k] \in Numeric
    <3>1. k \in 1..Len(v) \/ k = Len(v) + 1
      BY <1>2
    <3> QED
      BY <1>2, <2>1, <3>1
  <2> QED
    BY <2>1, <2>2
<1>4. S \subseteq 0..Len(s) /\ Len(s) \in Nat
  BY <1>2
<1> HIDE DEF S
<1> DEFINE last == Max(S)
<1>5. last \in S /\ last >= p
  BY <1>3, <1>4, MaxIsGreatest
<1> HIDE DEF last
<1>6. n = last
  BY DEF NumEnd, S, last
<1> HIDE DEF n
<1>7. n \in 0..Len(s) /\ n >= p /\ p \in Nat /\ p > 1
  <2>1. v # <<>>
    BY EmptyIsNoFloat
  <2> QED
    BY <1>2, <1>4, <1>5, <1>6, <2>1
<1>8. DOMAIN w = 1..n /\ \A i \in 1..n : w[i] = s[i]
  BY <1>2, <1>7
<1> HIDE DEF w
<1>9. \A i \in 1..n : i >= p => w[i] \notin Digits
  <2>1. SUFFICES ASSUME NEW i \in 1..n, i >= p
                 PROVE  s[i] \notin Digits
    BY <1>8
  <2>2. i - Len(v) \in 1..Len(u) /\ Len(v) + (i - Len(v)) = i
    BY <1>2, <1>7, <2>1
  <2> QED
    BY <1>2, <2>2
<1>10. w[p] = u[1] /\ p \in DOMAIN w
  <2>1. 1 \in 1..Len(u) /\ p \in 1..n
    BY <1>2, <1>7
  <2> QED
    BY <1>2, <1>8, <2>1
<1>11. \A d \in Where(w, Digits) : d < p
  <2>1. \A d \in Where(w, Digits) : d \in 1..n /\ w[d] \in Digits
    BY <1>8 DEF Where
  <2> QED
    BY <1>7, <1>9, <2>1
<1>12. u[1] \in {"-", "e"}
  <2>1. u[1] \notin Digits
    BY <1>2
  <2> QED
    BY <2>1 DEF Numeric
<1>13. CASE u[1] = "e"
  <2>1. p \in Where(w, {"e"})
    BY <1>10, <1>13 DEF Where
  <2>2. ~\E d \in Where(w, Digits) : d > p
    BY <1>7, <1>11, <1>8 DEF Where
  <2>3. ASSUME IsFloat(w)
        PROVE  FALSE
    BY <2>1, <2>2, <2>3 DEF IsFloat
  <2> QED
    BY <2>3 DEF w, n, s
<1>14. CASE u[1] = "-"
  <2> DEFINE q == Len(v)
  <2>1. p \in Where(w, {"-"})
    BY <1>10, <1>14 DEF Where
  <2>2. p - 1 = q /\ q \in 1..Len(v) /\ q \in 1..n /\ w[q] = v[q]
    BY <1>2, <1>7, <1>8
  <2>3. w[p - 1] # "e"
    <3>1. SUFFICES ASSUME v[q] = "e"
                   PROVE  FALSE
      BY <2>2
    <3>2. q \in Where(v, {"e"})
      BY <1>2, <2>2, <3>1 DEF Where
    <3>3. \E d \in Where(v, Digits) : d > q
      BY <3>2 DEF IsFloat
    <3>4. \A d \in Where(v, Digits) : d \in 1..Len(v)
      BY <1>2 DEF Where
    <3> QED
      BY <1>2, <3>3, <3>4
  <2>4. ASSUME IsFloat(w)
        PROVE  FALSE
    BY <1>7, <2>1, <2>3, <2>4 DEF IsFloat
  <2> QED
    BY <2>4 DEF w, n, s
<1> QED
  BY <1>12, <1>13, <1>14

\* Texts, and ones without a semicolon; kept folded where sequences of them occur.
Strings == Seq(Chars)
NoSemicolon(s) == \A k \in DOMAIN s : s[k] # ";"

\* One more field.
LEMMA BehindNext ==
    ASSUME NEW fs \in Seq(Strings), NEW f \in Strings
    PROVE  /\ Behind(Append(fs, f)) = Behind(fs) \o (<<";">> \o f)
           /\ Behind(<<>>) = <<>>
<1> DEFINE T == Strings
           F == [g \in T |-> <<";">> \o g]
           more == Append(fs, f)
           old == [k \in DOMAIN fs |-> F[fs[k]]]
<1>1. \A g \in T : <<";">> \o g \in T
  BY SomeTexts, Joined DEF Strings
<1>2. F \in [T -> T]
  BY <1>1
<1>3. \A g \in T : F[g] = <<";">> \o g
  OBVIOUS
<1>4. fs \in Seq(T) /\ f \in T
  OBVIOUS
<1> HIDE DEF F, T
<1>5. more \in Seq(T)
  BY <1>4
<1>6. \A gs \in Seq(T) : Behind(gs) = FlattenSeq([k \in DOMAIN gs |-> F[gs[k]]])
  <2>1. SUFFICES ASSUME NEW gs \in Seq(T)
                 PROVE  Behind(gs) = FlattenSeq([k \in DOMAIN gs |-> F[gs[k]]])
    OBVIOUS
  <2>2. \A k \in DOMAIN gs : gs[k] \in T
    OBVIOUS
  <2>3. [k \in DOMAIN gs |-> <<";">> \o gs[k]] = [k \in DOMAIN gs |-> F[gs[k]]]
    BY <1>3, <2>2
  <2> QED
    BY <2>3 DEF Behind
<1>7. [k \in DOMAIN more |-> F[more[k]]] = Append(old, F[f])
  BY <1>2, <1>4, MappedAppended
<1>8. old \in Seq(T) /\ F[f] \in T
  BY <1>2, <1>4, Mapped
<1> HIDE DEF old
<1>9. FlattenSeq(Append(old, F[f])) = FlattenSeq(old) \o F[f]
  BY <1>8, FlattenAppended DEF T, Strings
<1>10. Behind(more) = Behind(fs) \o (<<";">> \o f)
  BY <1>3, <1>4, <1>5, <1>6, <1>7, <1>9 DEF old
<1>11. Behind(<<>>) = <<>>
  <2>1. <<>> \in Seq(T)
    OBVIOUS
  <2>2. [k \in DOMAIN <<>> |-> F[<<>>[k]]] = <<>>
    <3> DEFINE g == [k \in DOMAIN <<>> |-> F[<<>>[k]]]
    <3>1. g \in Seq(T) /\ Len(g) = Len(<<>>)
      BY <1>2, <2>1, Mapped
    <3> HIDE DEF g
    <3>2. g = <<>>
      BY <3>1
    <3> QED
      BY <3>2 DEF g
  <2>3. Behind(<<>>) = FlattenSeq([k \in DOMAIN <<>> |-> F[<<>>[k]]])
    BY <1>6, <2>1
  <2> QED
    BY <2>2, <2>3, FlattenNone
<1> QED
  BY <1>10, <1>11

\* The parts of what is written behind the "=": the value with its unit, the fields.
Splits(v, fs, k) == Split(v \o Behind(SubSeq(fs, 1, k)), ";") = <<v>> \o SubSeq(fs, 1, k)

\* Split takes the fields apart: none has a semicolon.
LEMMA PartsOfFields ==
    ASSUME NEW v \in Seq(Chars), NEW U, U \subseteq Strings, NEW fs \in Seq(U),
           \A w \in U : NoSemicolon(w), NoSemicolon(v)
    PROVE  Split(v \o Behind(fs), ";") = <<v>> \o fs
<1> DEFINE T == Strings
           S == {k \in 0..Len(fs) : Splits(v, fs, k)}
<1>1. fs \in Seq(T) /\ Len(fs) \in Nat
  BY WiderText
<1>2. \A w : w \in T <=> w \in Seq(Chars)
  BY DEF Strings
<1>3. v \in T
  BY <1>2
<1> HIDE DEF T
<1>4. Splits(v, fs, 0)
  <2>1. SubSeq(fs, 1, 0) = <<>>
    BY <1>1
  <2>2. Behind(<<>>) = <<>>
    <3>1. <<>> \in Seq(T) /\ <<>> \in T
      BY <1>2, NoElements
    <3> QED
      BY <3>1, BehindNext DEF T
  <2>3. v \o <<>> = v
    OBVIOUS
  <2>4. <<v>> \o <<>> = <<v>>
    <3>1. <<v>> \in Seq(T)
      BY <1>3, OneChar
    <3> DEFINE one == <<v>>
    <3> HIDE DEF one
    <3>2. one \o <<>> = one
      BY <3>1 DEF one
    <3> QED
      BY <3>2 DEF one
  <2>5. Split(v, ";") = <<v>>
    BY SplitOfOne DEF NoSemicolon
  <2> QED
    BY <2>1, <2>2, <2>3, <2>4, <2>5 DEF Splits
<1>5. ASSUME NEW k \in 0..(Len(fs) - 1), Splits(v, fs, k)
      PROVE  Splits(v, fs, k + 1)
  <2> DEFINE some == SubSeq(fs, 1, k)
             f == fs[k + 1]
  <2>1. some \in Seq(T) /\ Len(some) = k
    <3>1. k \in 0..Len(fs)
      BY <1>1
    <3> QED
      BY <1>1, <3>1, Beginning
  <2>2. f \in U /\ f \in T
    BY <1>1 DEF T
  <2>3. SubSeq(fs, 1, k + 1) = Append(some, f)
    <3>1. 1 \in 1..(Len(fs) + 1) /\ k \in (1 - 1)..(Len(fs) - 1)
      BY <1>1
    <3> QED
      BY <1>1, <3>1, StretchExtended
  <2> HIDE DEF f, some
  <2> DEFINE b == Behind(some)
             x == v \o b
  <2>4. b \in Seq(Chars)
    BY <2>1, BehindType, CharsAre DEF T, Strings, HasSemicolon
  <2>5. Behind(Append(some, f)) = b \o (<<";">> \o f)
    BY <2>1, <2>2, BehindNext DEF T
  <2>6. Split(x, ";") = <<v>> \o some
    BY <1>5 DEF Splits, some
  <2>7. f \in Seq(Chars)
    BY <1>2, <2>2
  <2> HIDE DEF b
  <2>8. v \o (b \o (<<";">> \o f)) = x \o <<";">> \o f
    BY <2>4, <2>7, SemicolonRegrouped, Zenon
  <2>9. Split(x \o <<";">> \o f, ";") = Append(<<v>> \o some, f)
    <3>1. x \in Seq(Chars)
      BY <2>4, Joined
    <3> HIDE DEF x
    <3>0. \A i \in DOMAIN f : f[i] # ";"
      BY <2>2 DEF NoSemicolon
    <3>2. Split(x \o <<";">> \o f, ";") = Append(Split(x, ";"), f)
      BY <2>7, <3>0, <3>1, CharsAre, SplitAfterAnother
    <3> QED
      BY <2>6, <3>2
  <2>10. Append(<<v>> \o some, f) = <<v>> \o Append(some, f)
    BY <1>3, <2>1, <2>2, AppendedBehind
  <2> QED
    BY <2>3, <2>5, <2>8, <2>9, <2>10 DEF Splits
<1>6. 0..Len(fs) \subseteq S
  <2>1. 0 \in S
    BY <1>1, <1>4
  <2>2. \A k \in 0..(Len(fs) - 1) : k \in S => k + 1 \in S
    BY <1>1, <1>5
  <2> HIDE DEF S
  <2> QED
    BY <1>1, <2>1, <2>2, Induction
<1>7. Splits(v, fs, Len(fs))
  BY <1>1, <1>6
<1>8. SubSeq(fs, 1, Len(fs)) = fs
  BY WholeStretch
<1> QED
  BY <1>7, <1>8 DEF Splits

\* The first c of a text, and the texts before and behind it.
IsCut(u, c, s, t) ==
    /\ Where(u, {c}) # {} /\ Min(Where(u, {c})) = Len(s) + 1
    /\ SubSeq(u, 1, (Len(s) + 1) - 1) = s
    /\ SubSeq(u, (Len(s) + 1) + 1, Len(u)) = t

\* A text is cut at the first c.
LEMMA CutAtFirst ==
    ASSUME NEW A, NEW c \in A, NEW s \in Seq(A), NEW t \in Seq(A), \A k \in DOMAIN s : s[k] # c
    PROVE  IsCut(s \o (<<c>> \o t), c, s, t)
<1> DEFINE one == <<c>>
           v == one \o t
           u == s \o v
           W == Where(u, {c})
<1>1. one \in Seq(A) /\ Len(one) = 1 /\ one[1] = c
  BY OneChar
<1> HIDE DEF one
<1>2. /\ v \in Seq(A) /\ Len(v) = Len(t) + 1 /\ Len(t) \in Nat /\ v[1] = c
      /\ SubSeq(v, 1 + 1, Len(v)) = t
  <2>1. /\ v \in Seq(A) /\ Len(v) = Len(one) + Len(t) /\ Len(t) \in Nat
        /\ \A i \in 1..Len(one) : v[i] = one[i]
    BY <1>1, TwoTexts DEF AreJoined
  <2>2. SubSeq(v, Len(one) + 1, Len(v)) = t
    BY <1>1, TakenApart
  <2> HIDE DEF v
  <2> QED
    BY <1>1, <2>1, <2>2
<1> HIDE DEF v
<1>3. /\ u \in Seq(A) /\ Len(u) = Len(s) + Len(v) /\ Len(s) \in Nat /\ DOMAIN u = 1..Len(u)
      /\ \A i \in 1..Len(s) : u[i] = s[i]
      /\ \A i \in 1..Len(v) : u[Len(s) + i] = v[i]
      /\ SubSeq(u, 1, Len(s)) = s
  <2>1. /\ u \in Seq(A) /\ Len(u) = Len(s) + Len(v) /\ Len(s) \in Nat
        /\ DOMAIN u = 1..(Len(s) + Len(v))
        /\ \A i \in 1..Len(s) : u[i] = s[i]
        /\ \A i \in 1..Len(v) : u[Len(s) + i] = v[i]
    <3>1. v \in Seq(A)
      BY <1>2
    <3>2. u \in Seq(A) /\ AreJoined(s, v, u)
      BY <3>1, TwoTexts
    <3> HIDE DEF u
    <3> QED
      BY <3>2 DEF AreJoined
  <2>2. SubSeq(u, 1, Len(s)) = s
    BY <1>2, TakenApart
  <2> HIDE DEF u
  <2> QED
    BY <2>1, <2>2
<1> HIDE DEF u
<1>4. Len(s) + 1 \in W
  BY <1>2, <1>3 DEF Where
<1>5. \A k \in W : k \in 1..Len(u) /\ k >= Len(s) + 1
  <2>1. SUFFICES ASSUME NEW k \in W
                 PROVE  k \in 1..Len(u) /\ k >= Len(s) + 1
    OBVIOUS
  <2>2. k \in 1..Len(u) /\ u[k] = c
    BY <1>3 DEF Where
  <2>3. k \notin 1..Len(s)
    BY <1>3, <2>2
  <2> QED
    BY <1>2, <1>3, <2>2, <2>3
<1> HIDE DEF W
<1>6. Min(W) = Len(s) + 1
  <2> DEFINE first == Min(W)
  <2>1. W \subseteq Nat /\ W # {}
    BY <1>4, <1>5
  <2>2. first \in W /\ first <= Len(s) + 1
    BY <1>4, <2>1, MinIsLeast
  <2> HIDE DEF first
  <2>3. first \in Nat /\ first >= Len(s) + 1
    BY <1>5, <2>1, <2>2
  <2>4. first = Len(s) + 1
    BY <1>3, <2>2, <2>3
  <2> QED
    BY <2>4 DEF first
<1>7. SubSeq(u, (Len(s) + 1) + 1, Len(u)) = t
  <2> DEFINE w == SubSeq(u, (Len(s) + 1) + 1, Len(u))
             x == SubSeq(v, 1 + 1, Len(v))
  <2>1. w \in Seq(A) /\ Len(w) = Len(t) /\ \A i \in 1..Len(t) : w[i] = u[Len(s) + (i + 1)]
    BY <1>2, <1>3
  <2>2. x \in Seq(A) /\ Len(x) = Len(t) /\ \A i \in 1..Len(t) : x[i] = v[i + 1]
    BY <1>2
  <2> HIDE DEF w, x
  <2>3. \A i \in 1..Len(t) : i + 1 \in 1..Len(v)
    BY <1>2
  <2>4. \A i \in 1..Len(t) : w[i] = x[i]
    BY <1>3, <2>1, <2>2, <2>3
  <2>5. w = x
    BY <2>1, <2>2, <2>4
  <2> QED
    BY <1>2, <2>5 DEF w, x
<1>8. (Len(s) + 1) - 1 = Len(s)
  BY <1>3
<1> QED
  BY <1>3, <1>4, <1>6, <1>7, <1>8 DEF IsCut, W, u, v, one

\* A text in quotes, without them.
LEMMA TrimQuoted ==
    ASSUME NEW A, NEW C, NEW q \in A, q \in C, NEW s \in Seq(A), s # <<>>,
           \A k \in DOMAIN s : s[k] \notin C
    PROVE  Trim(<<q>> \o s \o <<q>>, C) = s
<1> DEFINE one == <<q>>
           h == one \o s
           u == h \o one
<1>1. one \in Seq(A) /\ Len(one) = 1 /\ one[1] = q
  BY OneChar
<1> HIDE DEF one
<1>2. /\ h \in Seq(A) /\ Len(h) = Len(s) + 1 /\ Len(s) \in Nat /\ Len(s) # 0 /\ h[1] = q
      /\ DOMAIN s = 1..Len(s)
      /\ \A i \in 1..Len(s) : h[1 + i] = s[i]
  <2>1. /\ h \in Seq(A) /\ Len(h) = Len(one) + Len(s) /\ Len(s) \in Nat /\ DOMAIN s = 1..Len(s)
        /\ \A i \in 1..Len(one) : h[i] = one[i]
        /\ \A i \in 1..Len(s) : h[Len(one) + i] = s[i]
    <3>1. one \in Seq(A)
      BY <1>1
    <3>2. h \in Seq(A) /\ AreJoined(one, s, h)
      BY <3>1, TwoTexts
    <3> HIDE DEF h
    <3> QED
      BY <3>2 DEF AreJoined
  <2>2. Len(s) # 0
    OBVIOUS
  <2> HIDE DEF h
  <2> QED
    BY <1>1, <2>1, <2>2
<1> HIDE DEF h
<1>3. /\ u \in Seq(A) /\ Len(u) = Len(s) + 2 /\ u[Len(s) + 2] = q
      /\ \A i \in 1..(Len(s) + 1) : u[i] = h[i]
  <2>1. /\ u \in Seq(A) /\ Len(u) = Len(h) + Len(one)
        /\ \A i \in 1..Len(h) : u[i] = h[i]
        /\ \A i \in 1..Len(one) : u[Len(h) + i] = one[i]
    <3>1. one \in Seq(A) /\ h \in Seq(A)
      BY <1>1, <1>2
    <3>2. u \in Seq(A) /\ AreJoined(h, one, u)
      BY <3>1, TwoTexts
    <3> HIDE DEF u
    <3> QED
      BY <3>2 DEF AreJoined
  <2> HIDE DEF u
  <2>2. 1 \in 1..Len(one) /\ u[Len(h) + 1] = q
    BY <1>1, <2>1
  <2> QED
    BY <1>1, <1>2, <2>1, <2>2
<1> HIDE DEF u
<1>4. u[1] \in C /\ u[Len(s) + 2] \in C /\ \A i \in 2..(Len(s) + 1) : u[i] \notin C
  <2>1. \A i \in 2..(Len(s) + 1) : i - 1 \in 1..Len(s) /\ h[i] = s[i - 1] /\ u[i] = h[i]
    BY <1>2, <1>3
  <2> QED
    BY SMTT(30), <1>2, <1>3, <2>1
<1>5. PICK a \in 1..(Len(u) + 1) : \E b \in (a - 1)..Len(u) :
         /\ Trim(u, C) = SubSeq(u, a, b)
         /\ \A k \in DOMAIN u : k < a \/ k > b => u[k] \in C
         /\ a <= b => u[a] \notin C /\ u[b] \notin C
  BY <1>3, TrimIsStretch
<1>6. PICK b \in (a - 1)..Len(u) :
         /\ Trim(u, C) = SubSeq(u, a, b)
         /\ \A k \in DOMAIN u : k < a \/ k > b => u[k] \in C
         /\ a <= b => u[a] \notin C /\ u[b] \notin C
  BY <1>5
<1>7. DOMAIN u = 1..(Len(s) + 2)
  BY <1>3
<1>8. a <= 2 /\ b >= Len(s) + 1
  <2>1. 2 \in DOMAIN u /\ Len(s) + 1 \in DOMAIN u /\ a \in Int /\ b \in Int
    BY <1>2, <1>3, <1>7
  <2>2. u[2] \notin C /\ u[Len(s) + 1] \notin C
    BY <1>2, <1>4
  <2> QED
    BY <1>2, <1>6, <2>1, <2>2
<1>9. a = 2 /\ b = Len(s) + 1
  BY <1>2, <1>3, <1>4, <1>6, <1>8
<1> DEFINE w == SubSeq(u, 2, Len(s) + 1)
<1>10. w \in Seq(A) /\ Len(w) = Len(s) /\ \A i \in 1..Len(s) : w[i] = u[i + 1]
  BY <1>2, <1>3
<1> HIDE DEF w
<1>11. \A i \in 1..Len(s) : w[i] = s[i]
  BY <1>2, <1>3, <1>10
<1>12. w = s
  BY <1>10, <1>11
<1> QED
  BY <1>6, <1>9, <1>12 DEF w, u, h, one

\* A measurement as plugins write it.
Proper(m) ==
    /\ m \in Measurement
    /\ m.label # <<>> /\ m.value # <<>> /\ (~m.quoted => Where(m.label, Space) = {})
    /\ 1 \notin Where(m.unit, {"."})

\* What plugins write are proper measurements.
LEMMA WrittenAreProper ==
    ASSUME NEW ms \in Written
    PROVE  ms \in Seq(Measurement) /\ \A k \in DOMAIN ms : Proper(ms[k])
<1>1. ms \in Seq(Measurement)
  BY TextsAssumption DEF TextsAssumption
<1>2. ASSUME NEW k \in DOMAIN ms
      PROVE  Proper(ms[k])
  <2>1. ms[k] \in ToSet(ms) /\ ms[k] \in Measurement
    BY <1>1 DEF ToSet
  <2> QED
    BY <2>1, TextsAssumption DEF TextsAssumption, Proper
<1> QED
  BY <1>1, <1>2

\* What stands before the "=", the value with its unit, and what stands behind the "=".
NameOf(m) == IF m.quoted THEN <<"'">> \o m.label \o <<"'">> ELSE m.label
Amount(m) == m.value \o m.unit
RestOf(m) == Amount(m) \o Behind(Fields(m))

\* The alphabets of labels and units.
LabelChars == Chars \ (Quote \cup {"="})
UnitChars == Chars \ (Digits \cup Space \cup Quote \cup {";"})

\* The parts of a measurement are texts over their alphabets.
LEMMA PiecesType ==
    ASSUME NEW m, Proper(m)
    PROVE  /\ m.label \in Seq(LabelChars) /\ m.unit \in Seq(UnitChars)
           /\ m.label \in Seq(Chars) /\ m.unit \in Seq(Chars) /\ m.value \in Seq(Chars)
           /\ m.quoted \in BOOLEAN /\ m.warning \in Span /\ m.critical \in Span
           /\ m.min \in Bound /\ m.max \in Bound
           /\ ~Undetermined(m) => m.value \in Bound /\ IsFloat(m.value) /\ m.value \in Seq(Numeric)
           /\ m.value \in Seq(Numeric) \/ m.value = <<"U">>
<1>1. /\ m.label \in Seq(LabelChars) /\ m.unit \in Seq(UnitChars)
      /\ m.quoted \in BOOLEAN /\ m.warning \in Span /\ m.critical \in Span
      /\ m.min \in Bound /\ m.max \in Bound
      /\ m.value \in Bound \cup {<<"U">>} /\ m.value # <<>>
  BY DEF Proper, Measurement, LabelChars, UnitChars
<1>2. \A b \in Bound : b \in Seq(Numeric) /\ b \in Seq(Chars) /\ (b = <<>> \/ IsFloat(b))
  BY WiderText, CharsAre DEF Bound
<1>3. m.label \in Seq(Chars) /\ m.unit \in Seq(Chars)
  <2>1. LabelChars \subseteq Chars /\ UnitChars \subseteq Chars
    BY DEF LabelChars, UnitChars
  <2> QED
    BY <1>1, <2>1, WiderText
<1>4. m.value \in Seq(Chars)
  BY <1>1, <1>2, SomeTexts
<1>5. ~Undetermined(m) => m.value \in Bound /\ IsFloat(m.value)
  BY <1>1, <1>2 DEF Undetermined
<1> QED
  BY <1>1, <1>2, <1>3, <1>4, <1>5

\* The label, with its quotes if it has some, gives the label without them.
LEMMA NameType ==
    ASSUME NEW m, Proper(m)
    PROVE  /\ NameOf(m) \in Seq(Chars) /\ \A k \in DOMAIN NameOf(m) : NameOf(m)[k] # "="
           /\ Trim(NameOf(m), Quote) = m.label
<1> DEFINE label == m.label
<1>1. label \in Seq(LabelChars) /\ label \in Seq(Chars) /\ m.quoted \in BOOLEAN /\ label # <<>>
  BY PiecesType DEF Proper
<1>2. NameOf(m) = IF m.quoted THEN <<"'">> \o label \o <<"'">> ELSE label
  BY DEF NameOf
<1> HIDE DEF label
<1> DEFINE D == Chars \ {"="}
<1>3. LabelChars \subseteq D /\ "'" \in D /\ D \subseteq Chars
  BY CharsAre DEF LabelChars
<1> HIDE DEF D
<1>4. label \in Seq(D) /\ <<"'">> \in Seq(D)
  BY <1>1, <1>3, WiderText, OneChar
<1>5. NameOf(m) \in Seq(D)
  BY <1>1, <1>2, <1>4, Joined
<1>6. NameOf(m) \in Seq(Chars) /\ \A k \in DOMAIN NameOf(m) : NameOf(m)[k] # "="
  <2> DEFINE n == NameOf(m)
  <2> HIDE DEF n
  <2>1. n \in Seq(D)
    BY <1>5 DEF n
  <2>2. n \in Seq(Chars) /\ \A k \in DOMAIN n : n[k] # "="
    BY <2>1, LacksChar DEF D
  <2> QED
    BY <2>2 DEF n
<1>7. \A k \in DOMAIN label : label[k] \notin Quote
  <2>1. \A c \in LabelChars : c \notin Quote
    BY DEF LabelChars
  <2> QED
    BY <1>1, <2>1
<1>8. CASE m.quoted
  <2>1. "'" \in Chars /\ "'" \in Quote
    BY CharsAre DEF Quote
  <2>2. Trim(<<"'">> \o label \o <<"'">>, Quote) = label
    BY <1>1, <1>7, <2>1, TrimQuoted
  <2> QED
    BY <1>2, <1>6, <1>8, <2>2 DEF label
<1>9. CASE ~m.quoted
  <2>1. Trim(label, Quote) = label
    BY <1>1, <1>7, NothingToTrim
  <2> QED
    BY <1>2, <1>6, <1>9, <2>1 DEF label
<1> QED
  BY <1>1, <1>8, <1>9

\* The value with its unit has no space around it, and no semicolon in it.
LEMMA AmountType ==
    ASSUME NEW m, Proper(m)
    PROVE  /\ Amount(m) \in Seq(Chars) /\ Trim(Amount(m), Space) = Amount(m)
           /\ NoSemicolon(Amount(m)) /\ Amount(m) # <<>>
<1> DEFINE v == m.value
           u == m.unit
           D == Chars \ {" "}
           E == Chars \ {";"}
<1>1. v \in Seq(Numeric) \/ v = <<"U">>
  BY PiecesType
<1>2. u \in Seq(UnitChars) /\ v # <<>> /\ v \in Seq(Chars) /\ u \in Seq(Chars)
  BY PiecesType DEF Proper
<1>3. Numeric \subseteq D /\ Numeric \subseteq E /\ "U" \in D /\ "U" \in E
  <2>1. "U" # " " /\ "U" # ";"
    OBVIOUS
  <2> QED
    BY <2>1, CharsAre, RangeCharsAre
<1>4. UnitChars \subseteq D /\ UnitChars \subseteq E
  BY DEF UnitChars, Space
<1>5. Amount(m) = v \o u
  BY DEF Amount
<1> HIDE DEF v, u, D, E
<1>6. <<"U">> \in Seq(D) /\ <<"U">> \in Seq(E)
  BY <1>3, OneChar
<1>7. v \in Seq(D) /\ v \in Seq(E) /\ u \in Seq(D) /\ u \in Seq(E)
  BY <1>1, <1>2, <1>3, <1>4, <1>6, WiderText
<1> DEFINE a == v \o u
<1>8. a \in Seq(D) /\ a \in Seq(E) /\ a \in Seq(Chars)
  BY <1>2, <1>7, Joined
<1>9. a # <<>>
  BY <1>2
<1> HIDE DEF a
<1>10. \A k \in DOMAIN a : a[k] # " "
  BY <1>8, LacksChar DEF D
<1>11. \A k \in DOMAIN a : a[k] \notin Space
  BY <1>10 DEF Space
<1>12. Trim(a, Space) = a
  BY <1>8, <1>11, NothingToTrim
<1>13. NoSemicolon(a)
  BY <1>8, LacksChar DEF E, NoSemicolon
<1> QED
  BY <1>5, <1>8, <1>9, <1>12, <1>13 DEF a

\* The number in front of the unit, and what the unit makes of it.
LEMMA NumberOfAmount ==
    ASSUME NEW m, Proper(m)
    PROVE  /\ Lost(m) => ~IsFloat(SubSeq(Amount(m), 1, NumEnd(Amount(m))))
           /\ ~Lost(m) =>
                 /\ SubSeq(Amount(m), 1, NumEnd(Amount(m))) = m.value
                 /\ SubSeq(Amount(m), NumEnd(Amount(m)) + 1, Len(Amount(m))) = m.unit
                 /\ Trim(m.unit, Space) = m.unit
<1> DEFINE v == m.value
           u == m.unit
<1>1. u \in Seq(UnitChars) /\ u \in Seq(Chars)
  BY PiecesType
<1>2. \A c \in UnitChars : c \notin Digits /\ c \notin Space
  BY DEF UnitChars
<1>3. \A k \in DOMAIN u : u[k] \notin Digits /\ u[k] \notin Space
  <2> HIDE DEF u
  <2> QED
    BY <1>1, <1>2
<1>4. CASE Undetermined(m)
  <2> DEFINE a == Amount(m)
             U == <<"U">>
  <2>1. a = U \o u
    BY <1>4 DEF Amount, Undetermined
  <2>2. U \in Seq(Chars) /\ Len(U) = 1 /\ U[1] = "U"
    BY SomeTexts
  <2> HIDE DEF u, U, a
  <2>3. a \in Seq(Chars) /\ 1 \in DOMAIN a /\ a[1] \notin Numeric
    <3>1. a \in Seq(Chars) /\ AreJoined(U, u, a)
      BY <1>1, <2>1, <2>2, TwoTexts
    <3>2. Len(a) = 1 + Len(u) /\ a[1] = "U" /\ Len(u) \in Nat
      BY <1>1, <2>2, <3>1 DEF AreJoined
    <3>3. 1 \in DOMAIN a
      BY <3>1, <3>2
    <3> QED
      BY <3>1, <3>2, <3>3, RangeCharsAre
  <2>4. <<>> \in Seq(Numeric) /\ Len(<<>>) = 0
    OBVIOUS
  <2>5. NumEnd(<<>> \o a) = 0
    BY <2>3, <2>4, NumericPart
  <2>6. <<>> \o a = a /\ SubSeq(a, 1, 0) = <<>>
    BY <2>3
  <2> QED
    BY <1>4, <2>5, <2>6, EmptyIsNoFloat DEF a, Lost
<1>5. ASSUME ~Undetermined(m)
      PROVE  /\ v \in Seq(Numeric) /\ v \in Seq(Chars) /\ IsFloat(v)
             /\ Amount(m) = v \o u
  BY <1>5, PiecesType DEF Amount
<1>6. CASE ~Undetermined(m) /\ Swallowed(m)
  <2>1. 1 \in DOMAIN u /\ u[1] \in Numeric /\ u[1] # "."
    BY <1>6 DEF Swallowed, Proper, Where
  <2> HIDE DEF v, u
  <2>2. ~IsFloat(SubSeq(v \o u, 1, NumEnd(v \o u)))
    BY <1>1, <1>3, <1>5, <1>6, <2>1, SpoiledNumber
  <2> QED
    BY <1>5, <1>6, <2>2 DEF Lost
<1>7. CASE ~Lost(m)
  <2>1. ~Undetermined(m) /\ (1 \in DOMAIN u => u[1] \notin Numeric)
    BY <1>7 DEF Lost, Swallowed, Where
  <2> HIDE DEF v, u
  <2>2. NumEnd(v \o u) = Len(v)
    BY <1>1, <1>5, <2>1, NumericPart
  <2>3. SubSeq(v \o u, 1, Len(v)) = v /\ SubSeq(v \o u, Len(v) + 1, Len(v \o u)) = u
    BY <1>1, <1>5, <2>1, TakenApart
  <2>4. Trim(u, Space) = u
    BY <1>1, <1>3, NothingToTrim
  <2> QED
    BY <1>5, <1>7, <2>1, <2>2, <2>3, <2>4 DEF v, u
<1> QED
  BY <1>4, <1>6, <1>7 DEF Lost

\* An equality kept folded, of texts that are put together.
Same(x, y) == x = y

\* Texts may be put together from either end.
LEMMA Regrouped ==
    ASSUME NEW A, NEW s \in Seq(A), NEW t \in Seq(A), NEW u \in Seq(A)
    PROVE  Same((s \o t) \o u, s \o (t \o u))
BY DEF Same

\* The same of five of them.
LEMMA FiveRegrouped ==
    ASSUME NEW A, NEW s \in Seq(A), NEW t \in Seq(A), NEW u \in Seq(A), NEW v \in Seq(A),
           NEW w \in Seq(A)
    PROVE  Same(s \o t \o u \o v \o w, s \o (t \o ((u \o v) \o w)))
<1>1. s \o t \in Seq(A) /\ u \o v \in Seq(A) /\ (u \o v) \o w \in Seq(A)
  BY Joined
<1>2. Same((s \o t) \o ((u \o v) \o w), s \o (t \o ((u \o v) \o w)))
  BY <1>1, Regrouped
<1>3. Same(((s \o t) \o u) \o v, (s \o t) \o (u \o v))
  BY <1>1, Regrouped
<1>4. Same(((s \o t) \o (u \o v)) \o w, (s \o t) \o ((u \o v) \o w))
  BY <1>1, Regrouped
<1> QED
  BY <1>2, <1>3, <1>4, Zenon DEF Same

\* What is written of a measurement, in two parts.
LEMMA WriteIs ==
    ASSUME NEW m, Proper(m)
    PROVE  /\ RestOf(m) \in Seq(Chars)
           /\ Write(m) = NameOf(m) \o (<<"=">> \o RestOf(m))
<1> DEFINE n == NameOf(m)
           v == m.value
           u == m.unit
           b == Behind(Fields(m))
           eq == <<"=">>
<1>1. n \in Seq(Chars) /\ v \in Seq(Chars) /\ u \in Seq(Chars) /\ eq \in Seq(Chars)
  BY NameType, PiecesType, SomeTexts
<1>2. b \in Seq(Chars)
  BY FieldsType, BehindType, CharsAre DEF Proper, HasSemicolon
<1>3. Write(m) = n \o eq \o v \o u \o b
  BY DEF Write, Behind, NameOf
<1>4. RestOf(m) = (v \o u) \o b
  BY DEF RestOf, Amount
<1> HIDE DEF n, v, u, b, eq
<1>5. (v \o u) \o b \in Seq(Chars)
  BY <1>1, <1>2, Joined
<1>6. n \o eq \o v \o u \o b = n \o (eq \o ((v \o u) \o b))
  <2>1. Same(n \o eq \o v \o u \o b, n \o (eq \o ((v \o u) \o b)))
    BY <1>1, <1>2, FiveRegrouped
  <2> QED
    BY <2>1, Zenon DEF Same
<1> QED
  BY <1>3, <1>4, <1>5, <1>6 DEF n, eq

\* The parts of the token.
LEMMA PartsOfWritten ==
    ASSUME NEW m, Proper(m)
    PROVE  /\ Where(Write(m), {"="}) # {}
           /\ Label(Write(m)) = m.label
           /\ Parts(Write(m)) = <<Amount(m)>> \o Fields(m)
<1> DEFINE n == NameOf(m)
           rest == RestOf(m)
           t == Write(m)
<1>1. t = n \o (<<"=">> \o rest) /\ rest \in Seq(Chars)
  BY WriteIs
<1>2. /\ n \in Seq(Chars) /\ \A k \in DOMAIN n : n[k] # "="
      /\ Trim(n, Quote) = m.label
  BY NameType
<1> HIDE DEF n, t
<1>3. /\ Where(t, {"="}) # {} /\ Min(Where(t, {"="})) = Len(n) + 1
      /\ SubSeq(t, 1, (Len(n) + 1) - 1) = n
      /\ SubSeq(t, (Len(n) + 1) + 1, Len(t)) = rest
  <2> HIDE DEF rest
  <2>1. "=" \in Chars
    BY CharsAre
  <2>2. IsCut(n \o (<<"=">> \o rest), "=", n, rest)
    BY <1>1, <1>2, <2>1, CutAtFirst, Zenon
  <2>3. IsCut(t, "=", n, rest)
    BY <1>1, <2>2, Zenon
  <2> QED
    BY <2>3, Zenon DEF IsCut
<1>4. EqIdx(t) = Len(n) + 1
  BY <1>3 DEF EqIdx
<1>5. Label(t) = m.label
  BY <1>2, <1>3, <1>4 DEF Label
<1>6. Parts(t) = Split(rest, ";")
  BY <1>3, <1>4 DEF Parts
<1>7. Split(Amount(m) \o Behind(Fields(m)), ";") = <<Amount(m)>> \o Fields(m)
  <2> DEFINE U == Seq(RangeChars)
             fs == Fields(m)
             a == Amount(m)
  <2>1. fs \in Seq(U) /\ a \in Seq(Chars) /\ NoSemicolon(a)
    BY FieldsType, AmountType DEF Proper
  <2>2. U \subseteq Strings
    BY WiderText, RangeCharsAre DEF Strings
  <2>3. \A w \in U : NoSemicolon(w)
    <3> SUFFICES ASSUME NEW w \in U
                 PROVE  NoSemicolon(w)
      OBVIOUS
    <3>1. \A k \in DOMAIN w : w[k] # ";"
      BY RangeCharsAre, CharsOf
    <3> QED
      BY <3>1 DEF NoSemicolon
  <2> HIDE DEF U, fs, a
  <2>4. Split(a \o Behind(fs), ";") = <<a>> \o fs
    BY <2>1, <2>2, <2>3, PartsOfFields
  <2> QED
    BY <2>4 DEF fs, a
<1> QED
  BY <1>3, <1>5, <1>6, <1>7 DEF t, RestOf, rest

\* The field of a part, whether it was written or left out.
LEMMA FieldOfPart ==
    ASSUME NEW m, Proper(m), NEW k \in 1..4
    PROVE  (IF k + 1 \in DOMAIN Parts(Write(m)) THEN Parts(Write(m))[k + 1] ELSE <<>>)
              = AllFields(m)[k]
<1> DEFINE U == Seq(RangeChars)
           fs == Fields(m)
           all == AllFields(m)
           a == Amount(m)
           ps == Parts(Write(m))
<1>1. PICK n \in 0..4 : fs = SubSeq(all, 1, n) /\ \A i \in (n + 1)..4 : all[i] = <<>>
  BY FieldsAre DEF Proper
<1>2. all \in Seq(U) /\ Len(all) = 4
  BY AllFieldsType DEF Proper
<1>3. ps = <<a>> \o fs
  BY PartsOfWritten
<1> HIDE DEF U, fs, all, a, ps
<1>4. fs \in Seq(U) /\ Len(fs) = n /\ \A i \in 1..n : fs[i] = all[i]
  <2> DEFINE some == SubSeq(all, 1, n)
  <2>1. n \in 0..Len(all)
    BY <1>2
  <2>2. some \in Seq(U) /\ Len(some) = n
    BY <1>2, <2>1, Beginning
  <2>3. \A i \in 1..n : some[i] = all[i]
    BY <1>2
  <2> QED
    BY <1>1, <2>2, <2>3
<1>5. DOMAIN ps = 1..(n + 1) /\ \A i \in 1..n : ps[i + 1] = fs[i]
  <2> DEFINE A == U \cup {a}
             one == <<a>>
  <2>1. fs \in Seq(A)
    BY <1>4, WiderText
  <2>2. one \in Seq(A) /\ Len(one) = 1
    <3>1. a \in A
      OBVIOUS
    <3> HIDE DEF A
    <3> QED
      BY <3>1, OneChar
  <2> HIDE DEF A, one
  <2>3. AreJoined(one, fs, one \o fs)
    BY <2>1, <2>2, TwoTexts
  <2>4. AreJoined(one, fs, ps)
    BY <1>3, <2>3 DEF one
  <2>5. \A i \in 1..n : 1 + i = i + 1
    OBVIOUS
  <2> QED
    BY <1>4, <2>2, <2>4, <2>5 DEF AreJoined
<1>6. CASE k <= n
  BY <1>4, <1>5, <1>6 DEF ps, all
<1>7. CASE k > n
  <2>1. k + 1 \notin DOMAIN ps /\ all[k] = <<>>
    BY <1>1, <1>5, <1>7
  <2> QED
    BY <2>1 DEF ps, all
<1> QED
  BY <1>6, <1>7

\* The head of the parts.
LEMMA ValueOfWritten ==
    ASSUME NEW m, Proper(m)
    PROVE  ValuePart(Write(m)) = Amount(m)
<1> DEFINE a == Amount(m)
           fs == Fields(m)
<1>1. Head(<<a>> \o fs) = a
  <2> DEFINE U == Seq(RangeChars)
             A == U \cup {a}
             one == <<a>>
  <2>1. fs \in Seq(U)
    BY FieldsType DEF Proper
  <2> HIDE DEF U, fs, a
  <2>2. a \in A /\ U \subseteq A
    OBVIOUS
  <2> HIDE DEF A
  <2>3. one \in Seq(A) /\ fs \in Seq(A) /\ Len(one) = 1 /\ one[1] = a
    BY <2>1, <2>2, OneChar, WiderText
  <2> HIDE DEF one
  <2> DEFINE j == one \o fs
  <2>4. j \in Seq(A) /\ AreJoined(one, fs, j)
    BY <2>3, TwoTexts
  <2> HIDE DEF j
  <2>5. j[1] = a /\ Len(j) > 0
    BY <2>3, <2>4 DEF AreJoined
  <2>6. Head(j) = a
    BY <2>4, <2>5
  <2> QED
    BY <2>6 DEF j, one
<1>2. Trim(a, Space) = a
  BY AmountType
<1> HIDE DEF a, fs
<1> QED
  BY <1>1, <1>2, PartsOfWritten DEF ValuePart, a, fs

\* A measurement comes back from its token as what it means, and one that gets
\* lost does not parse.
LEMMA TokenRoundTrip ==
    ASSUME NEW m, Proper(m)
    PROVE  /\ Lost(m) => ~Parses(Write(m))
           /\ ~Lost(m) => Parses(Write(m)) /\ MetricOf(Write(m)) = Meaning(m)
<1> DEFINE t == Write(m)
           Part(k) == IF k \in DOMAIN Parts(t) THEN Parts(t)[k] ELSE <<>>
<1>1. Where(t, {"="}) # {} /\ Label(t) = m.label
  BY PartsOfWritten
<1>2. /\ Value(t) = SubSeq(Amount(m), 1, NumEnd(Amount(m)))
      /\ UOM(t) = Trim(SubSeq(Amount(m), NumEnd(Amount(m)) + 1, Len(Amount(m))), Space)
  BY ValueOfWritten DEF Value, UOM
<1>3. ASSUME Lost(m)
      PROVE  ~Parses(t)
  BY <1>2, <1>3, NumberOfAmount DEF Parses
<1>4. ASSUME ~Lost(m)
      PROVE  Parses(t) /\ MetricOf(t) = Meaning(m)
  <2>1. Value(t) = m.value /\ UOM(t) = m.unit
    BY <1>2, <1>4, NumberOfAmount
  <2>2. IsFloat(m.value) /\ m.label # <<>>
    BY <1>4, PiecesType DEF Proper, Lost
  <2>3. Parses(t)
    BY <1>1, <2>1, <2>2 DEF Parses
  <2>4. Unit(UOM(t)) = UnitName(m.unit)
    BY <2>1 DEF Unit, UnitName
  <2>5. /\ AllFields(m)[1] = WriteRange(m.warning) /\ AllFields(m)[2] = WriteRange(m.critical)
        /\ AllFields(m)[3] = m.min /\ AllFields(m)[4] = m.max
    BY DEF AllFields
  <2>6. /\ Part(1 + 1) = AllFields(m)[1] /\ Part(2 + 1) = AllFields(m)[2]
        /\ Part(3 + 1) = AllFields(m)[3] /\ Part(4 + 1) = AllFields(m)[4]
    BY FieldOfPart
  <2> HIDE DEF Part
  <2>7. 1 + 1 = 2 /\ 2 + 1 = 3 /\ 3 + 1 = 4 /\ 4 + 1 = 5
    OBVIOUS
  <2>8. /\ Part(2) = WriteRange(m.warning) /\ Part(3) = WriteRange(m.critical)
        /\ Part(4) = m.min /\ Part(5) = m.max
    BY <2>5, <2>6, <2>7
  <2>9. /\ Threshold(Part(2)) = m.warning.end /\ Threshold(Part(3)) = m.critical.end
        /\ OptionalFloat(Part(4)) = m.min /\ OptionalFloat(Part(5)) = m.max
    BY <2>8, PiecesType, ThresholdOfRange, FloatOfBound
  <2>10. MetricOf(t) =
            [label |-> Label(t), value |-> Value(t), unit |-> Unit(UOM(t)),
             warning |-> Threshold(Part(2)), critical |-> Threshold(Part(3)),
             min |-> OptionalFloat(Part(4)), max |-> OptionalFloat(Part(5))]
    BY DEF MetricOf, Part
  <2> HIDE DEF t
  <2>11. MetricOf(t) = Meaning(m)
    BY <1>1, <2>1, <2>4, <2>9, <2>10, Zenon DEF Meaning
  <2> QED
    BY <2>3, <2>11
<1> QED
  BY <1>3, <1>4

-----------------------------------------------------------------------------
(***************************************************************************)
(* What plugins write, character by character.                             *)
(***************************************************************************)
\* Whether the tokenizer is inside of quotes after o characters of a measurement.
Quoted(m, o) == m.quoted /\ o \in 1..(Len(m.label) + 1)

\* Neither a space nor a quote.
SafeChars == Chars \ (Space \cup Quote)

\* A quote is no space.
LEMMA QuoteIsNoSpace == Quote \cap Space = {}
BY DEF Quote, Space

\* Behind the label stands neither a space nor a quote.
LEMMA RestIsSafe ==
    ASSUME NEW m, Proper(m)
    PROVE  <<"=">> \o RestOf(m) \in Seq(SafeChars)
<1> DEFINE S == SafeChars
           v == m.value
           u == m.unit
           b == Behind(Fields(m))
           eq == <<"=">>
<1>1. /\ Numeric \subseteq S /\ UnitChars \subseteq S /\ RangeChars \subseteq S
      /\ "U" \in S /\ "=" \in S /\ ";" \in S
  <2>1. /\ "U" # " " /\ "U" # "'" /\ "=" # " " /\ "=" # "'" /\ ";" # " " /\ ";" # "'"
    OBVIOUS
  <2> QED
    BY <2>1, CharsAre, RangeCharsAre DEF SafeChars, UnitChars, Space, Quote
<1>2. u \in Seq(UnitChars) /\ (v \in Seq(Numeric) \/ v = <<"U">>)
  BY PiecesType
<1>3. b \in Seq(S)
  <2> DEFINE R == Seq(RangeChars)
             T == Seq(S)
             fs == Fields(m)
  <2>1. fs \in Seq(R) /\ R \subseteq T
    BY <1>1, FieldsType, WiderText DEF Proper
  <2>2. fs \in Seq(T)
    <3> HIDE DEF R, T, fs
    <3> QED
      BY <2>1, WiderText
  <2> HIDE DEF fs, R, S
  <2>3. Behind(fs) \in Seq(S)
    BY <1>1, <2>2, BehindType DEF HasSemicolon
  <2> QED
    BY <2>3 DEF fs
<1>4. RestOf(m) = (v \o u) \o b
  BY DEF RestOf, Amount
<1> HIDE DEF S, v, u, b
<1>5. v \in Seq(S) /\ u \in Seq(S) /\ eq \in Seq(S)
  BY <1>1, <1>2, WiderText, OneChar
<1> HIDE DEF eq
<1>6. eq \o ((v \o u) \o b) \in Seq(S)
  BY <1>3, <1>5, Joined
<1> QED
  BY <1>4, <1>6 DEF S, eq

\* The characters of the label with its quotes.
LEMMA NameChars ==
    ASSUME NEW m, Proper(m)
    PROVE  /\ m.quoted => /\ Len(NameOf(m)) = Len(m.label) + 2
                          /\ \A i \in 1..Len(NameOf(m)) :
                                NameOf(m)[i] \in Quote <=> i \in {1, Len(m.label) + 2}
           /\ ~m.quoted => \A i \in 1..Len(NameOf(m)) :
                              NameOf(m)[i] \notin Quote /\ NameOf(m)[i] \notin Space
           /\ Len(NameOf(m)) > 0 /\ Len(m.label) \in Nat
<1> DEFINE label == m.label
           n == Len(label)
<1>1. label \in Seq(LabelChars) /\ label \in Seq(Chars) /\ m.quoted \in BOOLEAN /\ label # <<>>
  BY PiecesType DEF Proper
<1>2. NameOf(m) = IF m.quoted THEN <<"'">> \o label \o <<"'">> ELSE label
  BY DEF NameOf
<1>3. ~m.quoted => Where(label, Space) = {}
  BY DEF Proper
<1> HIDE DEF label
<1>4. n \in Nat /\ n > 0 /\ DOMAIN label = 1..n
  BY <1>1
<1>5. \A i \in 1..n : label[i] \notin Quote
  <2>1. \A c \in LabelChars : c \notin Quote
    BY DEF LabelChars
  <2> QED
    BY <1>1, <1>4, <2>1
<1>6. CASE m.quoted
  <2> DEFINE q == <<"'">>
             h == q \o label
             w == h \o q
  <2>1. q \in Seq(Chars) /\ Len(q) = 1 /\ q[1] \in Quote
    BY SomeTexts DEF Quote
  <2> HIDE DEF q
  <2>2. h \in Seq(Chars) /\ AreJoined(q, label, h)
    BY <1>1, <2>1, TwoTexts
  <2> HIDE DEF h
  <2>3. w \in Seq(Chars) /\ AreJoined(h, q, w)
    BY <2>1, <2>2, TwoTexts
  <2> HIDE DEF w
  <2>4. Len(h) = n + 1 /\ h[1] = q[1] /\ \A i \in 2..(n + 1) : h[i] = label[i - 1]
    <3>1. Len(h) = n + 1 /\ h[1] = q[1] /\ \A i \in 1..n : h[1 + i] = label[i]
      BY <1>4, <2>1, <2>2 DEF AreJoined
    <3>2. \A i \in 2..(n + 1) : i - 1 \in 1..n /\ 1 + (i - 1) = i
      BY <1>4
    <3> QED
      BY <3>1, <3>2
  <2>5. /\ Len(w) = n + 2 /\ w[n + 2] = q[1] /\ \A i \in 1..(n + 1) : w[i] = h[i]
    <3>1. /\ Len(w) = Len(h) + Len(q) /\ \A i \in 1..Len(h) : w[i] = h[i]
          /\ \A i \in 1..Len(q) : w[Len(h) + i] = q[i]
      BY <2>3 DEF AreJoined
    <3>2. 1 \in 1..Len(q) /\ (n + 1) + 1 = n + 2
      BY <1>4, <2>1
    <3> QED
      BY <1>4, <2>1, <2>4, <3>1, <3>2
  <2>6. \A i \in 1..Len(w) : w[i] \in Quote <=> i \in {1, n + 2}
    <3>1. w[1] \in Quote /\ w[n + 2] \in Quote
      BY <1>4, <2>1, <2>4, <2>5
    <3>2. \A i \in 2..(n + 1) : w[i] \notin Quote
      <4>1. \A i \in 2..(n + 1) : i - 1 \in 1..n /\ w[i] = label[i - 1]
        BY <1>4, <2>4, <2>5
      <4> QED
        BY <1>5, <4>1
    <3>3. \A i \in 1..Len(w) : i \in {1, n + 2} \/ i \in 2..(n + 1)
      BY <1>4, <2>5
    <3>4. 1 \notin 2..(n + 1) /\ n + 2 \notin 2..(n + 1)
      BY <1>4
    <3> QED
      BY <3>1, <3>2, <3>3, <3>4
  <2>7. NameOf(m) = w
    BY <1>2, <1>6 DEF w, h, q
  <2> QED
    BY <1>4, <1>6, <2>5, <2>6, <2>7 DEF label
<1>7. CASE ~m.quoted
  <2>1. NameOf(m) = label
    BY <1>2, <1>7, Zenon
  <2>2. \A i \in 1..n : label[i] \notin Space
    BY <1>3, <1>4, <1>7 DEF Where
  <2> QED
    BY <1>4, <1>5, <1>7, <2>1, <2>2 DEF label
<1> QED
  BY <1>1, <1>6, <1>7

\* Where the quotes and the spaces of a measurement are.
LEMMA WrittenChars ==
    ASSUME NEW m, Proper(m)
    PROVE  /\ Write(m) \in Seq(Chars) /\ Write(m) # <<>>
           /\ Len(m.label) \in Nat /\ (m.quoted => Len(Write(m)) > Len(m.label) + 2)
           /\ \A i \in 1..Len(Write(m)) :
                 /\ Write(m)[i] \in Quote <=> m.quoted /\ i \in {1, Len(m.label) + 2}
                 /\ Write(m)[i] \in Space => m.quoted /\ i \in 2..(Len(m.label) + 1)
           /\ Write(m)[1] \notin Space /\ Write(m)[Len(Write(m))] \notin Space
<1> DEFINE n == NameOf(m)
           r == <<"=">> \o RestOf(m)
           w == Write(m)
           l == Len(m.label)
<1>1. w = n \o r /\ n \in Seq(Chars)
  BY WriteIs, NameType
<1>2. r \in Seq(SafeChars) /\ r \in Seq(Chars)
  <2>1. r \in Seq(SafeChars)
    BY RestIsSafe
  <2>2. SafeChars \subseteq Chars
    BY DEF SafeChars
  <2> HIDE DEF r
  <2> QED
    BY <2>1, <2>2, WiderText
<1>3. Len(r) > 0
  <2> DEFINE rest == RestOf(m)
             eq == <<"=">>
  <2>1. rest \in Seq(Chars) /\ eq \in Seq(Chars) /\ Len(eq) = 1
    BY WriteIs, SomeTexts
  <2> HIDE DEF rest, eq
  <2>2. AreJoined(eq, rest, eq \o rest)
    BY <2>1, TwoTexts
  <2> DEFINE j == eq \o rest
  <2> HIDE DEF j
  <2>3. Len(j) > 0
    BY <2>1, <2>2 DEF AreJoined, j
  <2> QED
    BY <2>3 DEF j, rest, eq
<1>4. /\ m.quoted => /\ Len(n) = l + 2
                     /\ \A i \in 1..Len(n) : n[i] \in Quote <=> i \in {1, l + 2}
      /\ ~m.quoted => \A i \in 1..Len(n) : n[i] \notin Quote /\ n[i] \notin Space
      /\ Len(n) > 0 /\ l \in Nat
  BY NameChars
<1> HIDE DEF n, r
<1>5. \A i \in 1..Len(r) : r[i] \notin Quote /\ r[i] \notin Space
  <2>1. \A c \in SafeChars : c \notin Quote /\ c \notin Space
    BY DEF SafeChars
  <2> QED
    BY <1>2, <2>1
<1>6. w \in Seq(Chars) /\ AreJoined(n, r, w)
  BY <1>1, <1>2, TwoTexts
<1> HIDE DEF w, l
<1>7. /\ Len(w) = Len(n) + Len(r) /\ Len(n) \in Nat /\ Len(r) \in Nat
      /\ \A i \in 1..Len(n) : w[i] = n[i]
      /\ \A i \in (Len(n) + 1)..Len(w) : w[i] = r[i - Len(n)] /\ i - Len(n) \in 1..Len(r)
  <2>1. /\ Len(w) = Len(n) + Len(r) /\ Len(n) \in Nat /\ Len(r) \in Nat
        /\ \A i \in 1..Len(n) : w[i] = n[i]
        /\ \A i \in 1..Len(r) : w[Len(n) + i] = r[i]
    BY <1>6 DEF AreJoined
  <2>2. \A i \in (Len(n) + 1)..Len(w) : i - Len(n) \in 1..Len(r) /\ Len(n) + (i - Len(n)) = i
    BY <2>1
  <2> QED
    BY <2>1, <2>2
<1>8. \A i \in (Len(n) + 1)..Len(w) : w[i] \notin Quote /\ w[i] \notin Space
  BY <1>5, <1>7
<1>9. \A i \in 1..Len(w) : i \in 1..Len(n) \/ i \in (Len(n) + 1)..Len(w)
  BY <1>7
<1>10. m.quoted \in BOOLEAN
  BY PiecesType
<1>11. ASSUME NEW i \in 1..Len(w)
       PROVE  /\ w[i] \in Quote <=> m.quoted /\ i \in {1, l + 2}
              /\ w[i] \in Space => m.quoted /\ i \in 2..(l + 1)
  <2>1. CASE i \in 1..Len(n) /\ m.quoted
    <3>1. w[i] = n[i] /\ (n[i] \in Quote <=> i \in {1, l + 2}) /\ i \in 1..(l + 2)
      BY <1>4, <1>7, <2>1
    <3>2. w[i] \in Space => i \notin {1, l + 2}
      BY <3>1, QuoteIsNoSpace
    <3> QED
      BY <1>4, <2>1, <3>1, <3>2
  <2>2. CASE i \in 1..Len(n) /\ ~m.quoted
    BY <1>4, <1>7, <2>2
  <2>3. CASE i \in (Len(n) + 1)..Len(w)
    <3>1. w[i] \notin Quote /\ w[i] \notin Space
      BY <1>8, <2>3
    <3>2. m.quoted => i \notin {1, l + 2}
      BY <1>4, <1>7, <2>3
    <3> QED
      BY <3>1, <3>2
  <2> QED
    BY <1>9, <1>10, <2>1, <2>2, <2>3
<1>12. w # <<>> /\ (m.quoted => Len(w) > l + 2)
  BY <1>3, <1>4, <1>6, <1>7
<1>13. w[1] \notin Space
  <2>1. 1 \in 1..Len(w) /\ 1 \notin 2..(l + 1)
    BY <1>3, <1>4, <1>7
  <2> QED
    BY <1>11, <2>1
<1>14. w[Len(w)] \notin Space
  <2>1. Len(w) \in (Len(n) + 1)..Len(w)
    BY <1>3, <1>7
  <2> QED
    BY <1>8, <2>1
<1> QED
  BY <1>4, <1>6, <1>11, <1>12, <1>13, <1>14 DEF w, l

\* The quotes of a measurement protect its spaces, and are closed at its end.
LEMMA QuotesProtect ==
    ASSUME NEW m, Proper(m)
    PROVE  /\ \A o \in 0..(Len(Write(m)) - 1) :
                 /\ ~(Write(m)[o + 1] \in Space /\ ~Quoted(m, o))
                 /\ Quoted(m, o + 1) <=> ~(Quoted(m, o) <=> Write(m)[o + 1] \in Quote)
           /\ ~Quoted(m, 0) /\ \A o \in Nat : o >= Len(Write(m)) => ~Quoted(m, o)
<1> DEFINE w == Write(m)
           l == Len(m.label)
<1>1. /\ w \in Seq(Chars) /\ l \in Nat /\ (m.quoted => Len(w) > l + 2)
      /\ \A i \in 1..Len(w) :
            /\ w[i] \in Quote <=> m.quoted /\ i \in {1, l + 2}
            /\ w[i] \in Space => m.quoted /\ i \in 2..(l + 1)
  BY WrittenChars
<1>2. m.quoted \in BOOLEAN /\ \A o : Quoted(m, o) <=> m.quoted /\ o \in 1..(l + 1)
  BY PiecesType DEF Quoted
<1> HIDE DEF w, l
<1>3. ASSUME NEW o \in 0..(Len(w) - 1)
      PROVE  /\ ~(w[o + 1] \in Space /\ ~Quoted(m, o))
             /\ Quoted(m, o + 1) <=> ~(Quoted(m, o) <=> w[o + 1] \in Quote)
  <2>1. o + 1 \in 1..Len(w) /\ o \in Nat
    BY <1>1
  <2>2. w[o + 1] \in Quote <=> m.quoted /\ o + 1 \in {1, l + 2}
    BY <1>1, <2>1
  <2>3. w[o + 1] \in Space => Quoted(m, o)
    <3>1. o + 1 \in 2..(l + 1) => o \in 1..(l + 1)
      BY <1>1, <2>1
    <3> QED
      BY <1>1, <1>2, <2>1, <3>1
  <2>4. Quoted(m, o + 1) <=> ~(Quoted(m, o) <=> w[o + 1] \in Quote)
    <3>1. Quoted(m, o + 1) <=> m.quoted /\ o + 1 \in 1..(l + 1)
      BY <1>2
    <3>2. Quoted(m, o) <=> m.quoted /\ o \in 1..(l + 1)
      BY <1>2
    <3>3. o + 1 \in 1..(l + 1) <=> ~(o \in 1..(l + 1) <=> o + 1 \in {1, l + 2})
      BY <1>1, <2>1
    <3> QED
      BY <1>2, <2>2, <3>1, <3>2, <3>3
  <2> QED
    BY <2>3, <2>4
<1>4. ~Quoted(m, 0)
  BY <1>2
<1>5. \A o \in Nat : o >= Len(w) => ~Quoted(m, o)
  BY <1>1, <1>2
<1> QED
  BY <1>3, <1>4, <1>5 DEF w

-----------------------------------------------------------------------------
(***************************************************************************)
(* Sequences of texts, one after the other: where each of them begins.     *)
(***************************************************************************)
Upto(ps, j) == FlattenSeq(SubSeq(ps, 1, j))
StartOf(ps, j) == Len(Upto(ps, j))

\* One more text.
LEMMA UptoNext ==
    ASSUME NEW ps \in Seq(Strings), NEW j \in 0..(Len(ps) - 1)
    PROVE  /\ Upto(ps, j) \in Seq(Chars) /\ ps[j + 1] \in Seq(Chars)
           /\ Upto(ps, j + 1) = Upto(ps, j) \o ps[j + 1]
<1> DEFINE T == Strings
           some == SubSeq(ps, 1, j)
           p == ps[j + 1]
<1>1. Len(ps) \in Nat /\ j \in 0..Len(ps) /\ p \in T
  OBVIOUS
<1>2. SubSeq(ps, 1, j + 1) = Append(some, p)
  <2>1. 1 \in 1..(Len(ps) + 1) /\ j \in (1 - 1)..(Len(ps) - 1)
    BY <1>1
  <2> QED
    BY <2>1, StretchExtended
<1>3. some \in Seq(T)
  BY <1>1, Beginning
<1> HIDE DEF some, p
<1>4. FlattenSeq(Append(some, p)) = FlattenSeq(some) \o p /\ FlattenSeq(some) \in Seq(Chars)
  BY <1>1, <1>3, FlattenAppended, FlattenType DEF Strings
<1> QED
  BY <1>1, <1>2, <1>4 DEF Upto, some, p, Strings

\* None of the texts, and all of them.
LEMMA UptoEnds ==
    ASSUME NEW ps \in Seq(Strings)
    PROVE  /\ Upto(ps, 0) = <<>> /\ StartOf(ps, 0) = 0
           /\ Upto(ps, Len(ps)) = FlattenSeq(ps) /\ FlattenSeq(ps) \in Seq(Chars)
<1>1. SubSeq(ps, 1, 0) = <<>> /\ SubSeq(ps, 1, Len(ps)) = ps /\ Len(<<>>) = 0
  BY WholeStretch
<1>2. FlattenSeq(ps) \in Seq(Chars)
  BY FlattenType DEF Strings
<1> QED
  BY <1>1, <1>2, FlattenNone DEF Upto, StartOf

\* The texts that are put together begin with each of the first ones.
Begins(ps, j, k) ==
    /\ StartOf(ps, j) \in Nat /\ StartOf(ps, k) \in Nat /\ StartOf(ps, j) <= StartOf(ps, k)
    /\ \A i \in 1..StartOf(ps, j) : Upto(ps, k)[i] = Upto(ps, j)[i]

\* By induction over the number of texts in between.
LEMMA UptoBegins ==
    ASSUME NEW ps \in Seq(Strings), NEW j \in 0..Len(ps), NEW k \in j..Len(ps)
    PROVE  Begins(ps, j, k)
<1> DEFINE S == {i \in 0..(Len(ps) - j) : Begins(ps, j, j + i)}
<1>1. Len(ps) \in Nat /\ Len(ps) - j \in Nat /\ j \in Nat
  OBVIOUS
<1>2. \A i \in 0..Len(ps) : Upto(ps, i) \in Seq(Chars)
  <2>1. SUFFICES ASSUME NEW i \in 0..Len(ps)
                 PROVE  Upto(ps, i) \in Seq(Chars)
    OBVIOUS
  <2>2. SubSeq(ps, 1, i) \in Seq(Strings)
    BY Beginning
  <2> QED
    BY <2>2, FlattenType DEF Upto, Strings
<1>3. Begins(ps, j, j + 0)
  <2>1. j + 0 = j /\ Upto(ps, j) \in Seq(Chars)
    BY <1>1, <1>2
  <2>2. StartOf(ps, j) \in Nat
    BY <2>1 DEF StartOf
  <2> QED
    BY <2>1, <2>2 DEF Begins
<1>4. ASSUME NEW i \in 0..((Len(ps) - j) - 1), Begins(ps, j, j + i)
      PROVE  Begins(ps, j, j + (i + 1))
  <2> DEFINE old == Upto(ps, j + i)
             p == ps[(j + i) + 1]
             new == Upto(ps, (j + i) + 1)
  <2>1. j + i \in 0..(Len(ps) - 1) /\ j + (i + 1) = (j + i) + 1
    BY <1>1
  <2>2. old \in Seq(Chars) /\ p \in Seq(Chars) /\ new = old \o p
    BY <2>1, UptoNext
  <2> HIDE DEF old, p, new
  <2>3. AreJoined(old, p, new)
    BY <2>2, TwoTexts
  <2>4. /\ Len(new) \in Nat /\ Len(old) \in Nat /\ Len(old) <= Len(new)
        /\ \A n \in 1..Len(old) : new[n] = old[n]
    BY <2>3 DEF AreJoined
  <2>5. /\ StartOf(ps, j) \in Nat /\ StartOf(ps, j) <= Len(old)
        /\ \A n \in 1..StartOf(ps, j) : old[n] = Upto(ps, j)[n]
    BY <1>4 DEF Begins, StartOf, old
  <2>6. \A n \in 1..StartOf(ps, j) : n \in 1..Len(old)
    BY <2>4, <2>5
  <2>7. StartOf(ps, (j + i) + 1) = Len(new)
    BY DEF StartOf, new
  <2>8. Begins(ps, j, (j + i) + 1)
    BY <2>4, <2>5, <2>6, <2>7 DEF Begins, new
  <2> QED
    BY <2>1, <2>8
<1>5. 0..(Len(ps) - j) \subseteq S
  <2>1. 0 \in S
    BY <1>1, <1>3
  <2>2. \A i \in 0..((Len(ps) - j) - 1) : i \in S => i + 1 \in S
    BY <1>1, <1>4
  <2> HIDE DEF S
  <2> QED
    BY <1>1, <2>1, <2>2, Induction
<1>6. k - j \in 0..(Len(ps) - j) /\ j + (k - j) = k
  BY <1>1
<1>7. Begins(ps, j, j + (k - j))
  BY <1>5, <1>6
<1> QED
  BY <1>6, <1>7

\* Where the next text begins, and its characters.
LEMMA PlaceOf ==
    ASSUME NEW ps \in Seq(Strings), NEW j \in 0..(Len(ps) - 1)
    PROVE  /\ StartOf(ps, j) \in Nat /\ Len(ps[j + 1]) \in Nat
           /\ StartOf(ps, j + 1) = StartOf(ps, j) + Len(ps[j + 1])
           /\ StartOf(ps, j + 1) <= Len(FlattenSeq(ps))
           /\ \A i \in 1..Len(ps[j + 1]) : FlattenSeq(ps)[StartOf(ps, j) + i] = ps[j + 1][i]
<1> DEFINE old == Upto(ps, j)
           p == ps[j + 1]
           new == Upto(ps, j + 1)
           all == FlattenSeq(ps)
<1>1. old \in Seq(Chars) /\ p \in Seq(Chars) /\ new = old \o p
  BY UptoNext
<1>2. Upto(ps, Len(ps)) = all
  BY UptoEnds
<1> HIDE DEF old, p, new, all
<1>3. AreJoined(old, p, new)
  BY <1>1, TwoTexts
<1>4. /\ Len(new) = Len(old) + Len(p) /\ Len(old) \in Nat /\ Len(p) \in Nat
      /\ \A i \in 1..Len(p) : new[Len(old) + i] = p[i]
  BY <1>3 DEF AreJoined
<1>5. Begins(ps, j + 1, Len(ps))
  <2>1. j + 1 \in 0..Len(ps) /\ Len(ps) \in (j + 1)..Len(ps)
    OBVIOUS
  <2> QED
    BY <2>1, UptoBegins
<1>6. Len(new) <= Len(all) /\ \A i \in 1..Len(new) : all[i] = new[i]
  BY <1>2, <1>5 DEF Begins, StartOf, new
<1>7. \A i \in 1..Len(p) : all[Len(old) + i] = p[i]
  BY <1>4, <1>6
<1>8. StartOf(ps, j) = Len(old) /\ StartOf(ps, j + 1) = Len(new)
  BY DEF StartOf, old, new
<1> QED
  BY <1>4, <1>6, <1>7, <1>8 DEF p, all

-----------------------------------------------------------------------------
(***************************************************************************)
(* The text of measurements: where each begins, and what is read of it.    *)
(***************************************************************************)
Pieces(ms, gap) == [k \in DOMAIN ms |-> Write(ms[k]) \o gap]
Place(ms, gap, j) == StartOf(Pieces(ms, gap), j)
Writes(ms, j) == [k \in 1..j |-> Write(ms[k])]

\* t consists of what is written for ms, with a gap between any two of them.
Laid(t, ms, gap) ==
    /\ Place(ms, gap, 0) = 0
    /\ Len(t) = Place(ms, gap, Len(ms) - 1) + Len(Write(ms[Len(ms)]))
    /\ \A j \in 0..(Len(ms) - 1) :
          /\ Place(ms, gap, j) \in Nat
          /\ Place(ms, gap, j) <= Place(ms, gap, Len(ms) - 1)
          /\ \A i \in 1..Len(Write(ms[j + 1])) :
                t[Place(ms, gap, j) + i] = Write(ms[j + 1])[i]
    /\ \A j \in 0..(Len(ms) - 2) :
          /\ Place(ms, gap, j + 1) = Place(ms, gap, j) + Len(Write(ms[j + 1])) + Len(gap)
          /\ \A i \in 1..Len(gap) :
                t[Place(ms, gap, j) + Len(Write(ms[j + 1])) + i] \in Space

\* n characters are read, o of them of the measurement after the first j and of the
\* gap behind it.
Stands(ms, gap, j, o, n, q, ts, cur) ==
    LET w == Write(ms[j + 1])
    IN  /\ n = Place(ms, gap, j) + o
        /\ o < Len(w) + Len(gap)
        /\ (q <=> Quoted(ms[j + 1], o))
        /\ o <= Len(w) => ts = Writes(ms, j) /\ cur = SubSeq(w, 1, o)
        /\ o > Len(w) => ts = Writes(ms, j + 1) /\ cur = <<>>

\* Somewhere in the text of ms.
Within(t, ms, n, q, ts, cur) ==
    /\ n <= Len(t)
    /\ \E gap \in Spacing :
          /\ Laid(t, ms, gap)
          /\ \E j \in 0..(Len(ms) - 1) : \E o \in Nat : Stands(ms, gap, j, o, n, q, ts, cur)

WrittenInv ==
    /\ meant # <<>> => meant \in Written
    /\ pc = "idle" =>
          at = 1 /\ inQuote = FALSE /\ current = <<>> /\ tokens = <<>> /\ meant = <<>>
    /\ pc \in {"idle", "tokenize"} => metrics = <<>> /\ parseErrors = FALSE
    /\ meant # <<>> /\ pc = "tokenize" => Within(text, meant, at - 1, inQuote, tokens, current)
    /\ meant # <<>> /\ pc = "parse" =>
          /\ tokens = Writes(meant, Len(meant))
          /\ at \in 1..(Len(meant) + 1)
          /\ metrics = Meanings(SubSeq(meant, 1, at - 1))
          /\ at > 1 => parseErrors \/ metrics # <<>>
    /\ RoundTrip

\* Each piece is a written measurement and a gap, of at least one space.
LEMMA PiecesAre ==
    ASSUME NEW ms \in Written, NEW gap \in Spacing
    PROVE  /\ Pieces(ms, gap) \in Seq(Strings) /\ Len(Pieces(ms, gap)) = Len(ms)
           /\ Len(ms) \in Nat /\ DOMAIN ms = 1..Len(ms) /\ DOMAIN gap = 1..Len(gap)
           /\ Len(gap) \in Nat /\ Len(gap) # 0 /\ \A i \in 1..Len(gap) : gap[i] \in Space
           /\ \A k \in 1..Len(ms) : AreJoined(Write(ms[k]), gap, Pieces(ms, gap)[k])
<1> DEFINE ps == Pieces(ms, gap)
           T == Strings
<1>1. gap \in Seq(Chars) /\ gap \in Seq(Space) /\ gap # <<>>
  BY TextsAssumption, CharsAre, WiderText DEF TextsAssumption
<1>2. Len(gap) \in Nat /\ Len(gap) # 0 /\ DOMAIN gap = 1..Len(gap)
      /\ \A i \in 1..Len(gap) : gap[i] \in Space
  <2> DEFINE S == Space
  <2>1. gap \in Seq(S) /\ gap # <<>>
    BY <1>1
  <2> HIDE DEF S
  <2> QED
    BY <2>1 DEF S
<1>3. ms \in Seq(Measurement)
  BY WrittenAreProper
<1>4. Len(ms) \in Nat /\ DOMAIN ms = 1..Len(ms) /\ \A k \in DOMAIN ms : ms[k] \in Measurement
  BY <1>3
<1>5. \A k \in DOMAIN ms : Write(ms[k]) \o gap \in T /\ AreJoined(Write(ms[k]), gap, Write(ms[k]) \o gap)
  <2> SUFFICES ASSUME NEW k \in DOMAIN ms
               PROVE  Write(ms[k]) \o gap \in T /\ AreJoined(Write(ms[k]), gap, Write(ms[k]) \o gap)
    OBVIOUS
  <2>1. Write(ms[k]) \in Seq(Chars)
    BY <1>4, WriteType
  <2> QED
    BY <1>1, <2>1, TwoTexts DEF Strings
<1>6. ps \in [1..Len(ms) -> T]
  <2> HIDE DEF T
  <2> QED
    BY <1>4, <1>5 DEF Pieces
<1>7. \A k \in 1..Len(ms) : ps[k] = Write(ms[k]) \o gap
  BY <1>4 DEF Pieces
<1> HIDE DEF ps
<1>8. ps \in Seq(T) /\ Len(ps) = Len(ms)
  BY <1>4, <1>6, FunctionIsSequence
<1>9. \A k \in 1..Len(ms) : AreJoined(Write(ms[k]), gap, ps[k])
  BY <1>4, <1>5, <1>7
<1> QED
  BY <1>2, <1>4, <1>8, <1>9 DEF ps

\* The text that ParsePerfdata is given has the spaces behind the last one trimmed,
\* and nothing else.
LEMMA WrittenText ==
    ASSUME NEW ms \in Written, NEW gap \in Spacing, ms # <<>>
    PROVE  /\ Laid(Trim(FlattenSeq(Pieces(ms, gap)), Space), ms, gap)
           /\ Trim(FlattenSeq(Pieces(ms, gap)), Space) # <<>>
<1> DEFINE ps == Pieces(ms, gap)
           s == FlattenSeq(ps)
           L == Len(ms) - 1
           P(j) == Place(ms, gap, j)
           w(j) == Write(ms[j + 1])
           t == Trim(s, Space)
           last == P(L) + Len(w(L))
<1>1. /\ ps \in Seq(Strings) /\ Len(ps) = Len(ms) /\ Len(ms) \in Nat /\ DOMAIN ms = 1..Len(ms)
      /\ Len(gap) \in Nat /\ Len(gap) # 0 /\ \A i \in 1..Len(gap) : gap[i] \in Space
      /\ \A k \in 1..Len(ms) : AreJoined(Write(ms[k]), gap, ps[k])
  BY PiecesAre
<1>2. L \in Nat /\ Len(ms) = L + 1
  <2>1. ms \in Seq(Measurement)
    BY WrittenAreProper
  <2>2. Len(ms) # 0
    BY <2>1
  <2> QED
    BY <1>1, <2>2
<1>3. \A j \in 0..L : /\ Len(w(j)) \in Nat /\ Len(w(j)) # 0
                      /\ w(j)[1] \notin Space /\ w(j)[Len(w(j))] \notin Space
  <2> SUFFICES ASSUME NEW j \in 0..L
               PROVE  /\ Len(w(j)) \in Nat /\ Len(w(j)) # 0
                      /\ w(j)[1] \notin Space /\ w(j)[Len(w(j))] \notin Space
    OBVIOUS
  <2>1. j + 1 \in DOMAIN ms
    BY <1>1, <1>2
  <2>2. Proper(ms[j + 1])
    BY <2>1, WrittenAreProper
  <2>3. /\ w(j) \in Seq(Chars) /\ w(j) # <<>>
        /\ w(j)[1] \notin Space /\ w(j)[Len(w(j))] \notin Space
    BY <2>2, WrittenChars
  <2> HIDE DEF w
  <2> QED
    BY <2>3
<1>4. /\ s \in Seq(Chars) /\ P(0) = 0 /\ P(L + 1) = Len(s)
  BY <1>1, <1>2, UptoEnds DEF Place, StartOf
<1>5. \A j \in 0..L :
         /\ P(j) \in Nat /\ P(j + 1) = P(j) + Len(w(j)) + Len(gap) /\ P(j + 1) <= Len(s)
         /\ \A i \in 1..Len(w(j)) : s[P(j) + i] = w(j)[i]
         /\ \A i \in 1..Len(gap) : s[P(j) + Len(w(j)) + i] \in Space
  <2> SUFFICES ASSUME NEW j \in 0..L
               PROVE  /\ P(j) \in Nat /\ P(j + 1) = P(j) + Len(w(j)) + Len(gap)
                      /\ P(j + 1) <= Len(s)
                      /\ \A i \in 1..Len(w(j)) : s[P(j) + i] = w(j)[i]
                      /\ \A i \in 1..Len(gap) : s[P(j) + Len(w(j)) + i] \in Space
    OBVIOUS
  <2>1. j \in 0..(Len(ps) - 1) /\ j + 1 \in 1..Len(ms)
    BY <1>1, <1>2
  <2>2. /\ P(j) \in Nat /\ Len(ps[j + 1]) \in Nat /\ P(j + 1) = P(j) + Len(ps[j + 1])
        /\ P(j + 1) <= Len(s) /\ \A i \in 1..Len(ps[j + 1]) : s[P(j) + i] = ps[j + 1][i]
    BY <1>1, <2>1, PlaceOf DEF Place
  <2>3. AreJoined(w(j), gap, ps[j + 1])
    BY <1>1, <2>1
  <2>4. /\ Len(ps[j + 1]) = Len(w(j)) + Len(gap) /\ Len(w(j)) \in Nat
        /\ \A i \in 1..Len(w(j)) : ps[j + 1][i] = w(j)[i]
        /\ \A i \in 1..Len(gap) : ps[j + 1][Len(w(j)) + i] = gap[i]
    BY <2>3 DEF AreJoined
  <2> HIDE DEF P, w, ps, s
  <2>5. \A i \in 1..Len(w(j)) : i \in 1..Len(ps[j + 1])
    BY <1>1, <2>4
  <2>6. \A i \in 1..Len(gap) : Len(w(j)) + i \in 1..Len(ps[j + 1])
    BY <1>1, <2>4
  <2>7. \A i \in 1..Len(gap) : s[P(j) + (Len(w(j)) + i)] \in Space
    BY <1>1, <2>2, <2>4, <2>6
  <2>8. \A i \in 1..Len(gap) : P(j) + (Len(w(j)) + i) = P(j) + Len(w(j)) + i
    BY <1>1, <2>2, <2>4
  <2>9. \A i \in 1..Len(gap) : s[P(j) + Len(w(j)) + i] \in Space
    BY <2>7, <2>8
  <2> QED
    BY <1>1, <2>2, <2>4, <2>5, <2>9
<1>6. \A j \in 0..L : P(j) <= P(L)
  <2> SUFFICES ASSUME NEW j \in 0..L
               PROVE  P(j) <= P(L)
    OBVIOUS
  <2>1. j \in 0..Len(ps) /\ L \in j..Len(ps)
    BY <1>1, <1>2
  <2>2. Begins(ps, j, L)
    BY <1>1, <2>1, UptoBegins
  <2> QED
    BY <2>2 DEF Begins, Place
<1> HIDE DEF ps, s, P, w, L
<1>7. L \in 0..L /\ 0 \in 0..L /\ last \in 1..Len(s) /\ Len(s) = last + Len(gap)
  BY <1>1, <1>2, <1>3, <1>4, <1>5
<1>8. s[1] \notin Space
  <2>1. 1 \in 1..Len(w(0)) /\ w(0)[1] \notin Space
    BY <1>3, <1>7
  <2>3. s[P(0) + 1] = w(0)[1]
    BY <1>5, <1>7, <2>1
  <2>2. P(0) + 1 = 1
    BY <1>4
  <2> QED
    BY <2>1, <2>2, <2>3
<1>9. s[last] \notin Space
  <2>1. Len(w(L)) \in 1..Len(w(L))
    BY <1>3, <1>7
  <2> QED
    BY <1>3, <1>5, <1>7, <2>1
<1>10. \A k \in DOMAIN s : k > last => s[k] \in Space
  <2> SUFFICES ASSUME NEW k \in DOMAIN s, k > last
               PROVE  s[k] \in Space
    OBVIOUS
  <2>1. k \in 1..Len(s)
    BY <1>4
  <2>2. k - last \in 1..Len(gap) /\ last + (k - last) = k
    BY <1>1, <1>7, <2>1
  <2> QED
    BY <1>5, <1>7, <2>2
<1>11. PICK a \in 1..(Len(s) + 1) : \E b \in (a - 1)..Len(s) :
          /\ t = SubSeq(s, a, b)
          /\ \A k \in DOMAIN s : k < a \/ k > b => s[k] \in Space
          /\ a <= b => s[a] \notin Space /\ s[b] \notin Space
  BY <1>4, TrimIsStretch
<1>12. PICK b \in (a - 1)..Len(s) :
          /\ t = SubSeq(s, a, b)
          /\ \A k \in DOMAIN s : k < a \/ k > b => s[k] \in Space
          /\ a <= b => s[a] \notin Space /\ s[b] \notin Space
  BY <1>11
<1> HIDE DEF t, last
<1>13. DOMAIN s = 1..Len(s) /\ Len(s) \in Nat
  BY <1>4
<1>14. ~(1 < a \/ 1 > b)
  <2>1. 1 \in DOMAIN s
    BY <1>7, <1>13
  <2> QED
    BY <1>8, <1>12, <2>1
<1>15. a = 1 /\ 1 <= b /\ b \in 1..Len(s)
  BY <1>13, <1>14
<1>16. b = last
  <2>1. last \in DOMAIN s /\ b \in DOMAIN s
    BY <1>7, <1>13, <1>15
  <2>2. ~(last > b)
    BY <1>9, <1>12, <2>1
  <2>3. ~(b > last)
    BY <1>10, <1>12, <1>15, <2>1
  <2> QED
    BY <1>7, <1>15, <2>2, <2>3
<1>17. t = SubSeq(s, 1, last)
  BY <1>12, <1>15, <1>16
<1>18. Len(t) = last /\ \A i \in 1..last : t[i] = s[i]
  BY <1>4, <1>7, <1>17
<1>19. \A j \in 0..L : /\ P(j) \in Nat /\ P(j) <= P(L)
                       /\ \A i \in 1..Len(w(j)) : t[P(j) + i] = w(j)[i]
  <2> SUFFICES ASSUME NEW j \in 0..L, NEW i \in 1..Len(w(j))
               PROVE  t[P(j) + i] = w(j)[i]
    BY <1>5, <1>6
  <2>1. P(j) + i \in 1..last
    <3>1. CASE j = L
      BY <1>3, <1>5, <3>1 DEF last
    <3>2. CASE j # L
      <4>1. j + 1 \in 0..L
        BY <1>2, <3>2
      <4>2. P(j) + Len(w(j)) + Len(gap) <= P(L) /\ P(j) \in Nat /\ P(L) \in Nat
        BY <1>5, <1>6, <1>7, <4>1
      <4>3. Len(w(j)) \in Nat /\ Len(w(L)) \in Nat
        BY <1>3, <1>7
      <4> QED
        BY <1>1, <4>2, <4>3 DEF last
    <3> QED
      BY <3>1, <3>2
  <2> QED
    BY <1>5, <1>18, <2>1
<1>20. \A j \in 0..(L - 1) : /\ P(j + 1) = P(j) + Len(w(j)) + Len(gap)
                             /\ \A i \in 1..Len(gap) : t[P(j) + Len(w(j)) + i] \in Space
  <2> SUFFICES ASSUME NEW j \in 0..(L - 1), NEW i \in 1..Len(gap)
               PROVE  /\ P(j + 1) = P(j) + Len(w(j)) + Len(gap)
                      /\ t[P(j) + Len(w(j)) + i] \in Space
    BY <1>1, <1>2, <1>5
  <2>1. j \in 0..L /\ j + 1 \in 0..L
    BY <1>2
  <2>2. /\ P(j + 1) = P(j) + Len(w(j)) + Len(gap) /\ s[P(j) + Len(w(j)) + i] \in Space
        /\ P(j) \in Nat
    BY <1>5, <2>1
  <2>3. P(j) + Len(w(j)) + i \in 1..last
    <3>1. P(j + 1) <= P(L) /\ P(L) \in Nat /\ Len(w(L)) \in Nat /\ Len(w(j)) \in Nat
      BY <1>3, <1>5, <1>6, <1>7, <2>1
    <3> QED
      BY SMTT(30), <1>1, <2>2, <3>1 DEF last
  <2> QED
    BY <1>18, <2>2, <2>3
<1>21. Len(ms) - 2 = L - 1 /\ Len(ms) - 1 = L /\ L + 1 = Len(ms)
  BY <1>2
<1>22. t # <<>>
  BY <1>7, <1>18
<1>23. P(0) = 0 /\ Len(t) = P(L) + Len(w(L))
  BY <1>4, <1>18 DEF last
<1>24. Len(t) = P(L) + Len(Write(ms[Len(ms)]))
  BY <1>21, <1>23 DEF w
<1>25. Laid(t, ms, gap)
  BY <1>19, <1>20, <1>21, <1>23, <1>24, Zenon DEF Laid, P, w
<1> QED
  BY <1>22, <1>25 DEF t, s, ps

\* The texts of the first measurements.
LEMMA WritesNext ==
    ASSUME NEW ms \in Written
    PROVE  /\ Writes(ms, 0) = <<>> /\ Len(ms) \in Nat
           /\ \A j \in 0..Len(ms) : Writes(ms, j) \in Seq(Strings) /\ Len(Writes(ms, j)) = j
           /\ \A j \in 0..(Len(ms) - 1) :
                 Append(Writes(ms, j), Write(ms[j + 1])) = Writes(ms, j + 1)
<1> DEFINE T == Strings
<1>1. ms \in Seq(Measurement)
  BY WrittenAreProper
<1>2. Len(ms) \in Nat /\ \A k \in 1..Len(ms) : Write(ms[k]) \in T
  <2>1. Len(ms) \in Nat /\ \A k \in 1..Len(ms) : ms[k] \in Measurement
    BY <1>1
  <2> QED
    BY <2>1, WriteType DEF Strings
<1> HIDE DEF T
<1>3. ASSUME NEW j \in 0..Len(ms)
      PROVE  /\ Writes(ms, j) \in Seq(T) /\ Len(Writes(ms, j)) = j /\ j \in Nat
             /\ \A k \in 1..j : Writes(ms, j)[k] = Write(ms[k])
  <2>1. j \in Nat /\ \A k \in 1..j : Write(ms[k]) \in T
    BY <1>2
  <2>2. Writes(ms, j) \in [1..j -> T] /\ \A k \in 1..j : Writes(ms, j)[k] = Write(ms[k])
    BY <2>1 DEF Writes
  <2> QED
    BY <2>1, <2>2, FunctionIsSequence
<1>4. ASSUME NEW j \in 0..(Len(ms) - 1)
      PROVE  Append(Writes(ms, j), Write(ms[j + 1])) = Writes(ms, j + 1)
  <2> DEFINE old == Writes(ms, j)
             new == Writes(ms, j + 1)
             w == Write(ms[j + 1])
             more == Append(old, w)
  <2>1. j \in 0..Len(ms) /\ j + 1 \in 0..Len(ms) /\ j \in Nat /\ j + 1 \in 1..(j + 1)
    BY <1>2
  <2>2. old \in Seq(T) /\ Len(old) = j /\ \A k \in 1..j : old[k] = Write(ms[k])
    BY <1>3, <2>1
  <2>3. new \in Seq(T) /\ Len(new) = j + 1 /\ \A k \in 1..(j + 1) : new[k] = Write(ms[k])
    BY <1>3, <2>1
  <2>4. w \in T /\ new[j + 1] = w
    BY <1>2, <2>1, <2>3
  <2> HIDE DEF old, new, w
  <2>5. /\ more \in Seq(T) /\ Len(more) = j + 1 /\ \A k \in 1..j : more[k] = old[k]
        /\ more[j + 1] = w
    BY <2>1, <2>2, <2>4, Appended
  <2> HIDE DEF more
  <2>6. \A k \in 1..(j + 1) : more[k] = new[k]
    <3>1. \A k \in 1..j : k \in 1..(j + 1) /\ more[k] = new[k]
      BY <2>1, <2>2, <2>3, <2>5
    <3> QED
      BY <2>1, <2>4, <2>5, <3>1
  <2>7. more = new
    BY <2>1, <2>3, <2>5, <2>6
  <2> QED
    BY <2>7 DEF more, new, old, w
<1>5. Writes(ms, 0) = <<>>
  <2>1. 0 \in 0..Len(ms)
    BY <1>2
  <2>2. Writes(ms, 0) \in Seq(T) /\ Len(Writes(ms, 0)) = 0
    BY <1>3, <2>1
  <2> QED
    BY <2>2
<1> QED
  BY <1>2, <1>3, <1>4, <1>5 DEF T

\* A character of a measurement is no separator; one behind it is.
LEMMA CharOfWritten ==
    ASSUME NEW ms \in Written, NEW gap \in Spacing, NEW t \in Seq(Chars), Laid(t, ms, gap),
           NEW j \in 0..(Len(ms) - 1), NEW o \in Nat, NEW n \in 0..Len(t), NEW q, NEW ts, NEW cur,
           Stands(ms, gap, j, o, n, q, ts, cur)
    PROVE  LET w == Write(ms[j + 1])
           IN  /\ w \in Seq(Chars) /\ w # <<>> /\ Proper(ms[j + 1])
               /\ n < Len(t) /\ o < Len(w) => t[n + 1] = w[o + 1]
               /\ n < Len(t) /\ o >= Len(w) =>
                     j < Len(ms) - 1 /\ t[n + 1] \in Space /\ (q <=> FALSE)
               /\ n = Len(t) => j = Len(ms) - 1 /\ o = Len(w)
<1> DEFINE w == Write(ms[j + 1])
           L == Len(ms) - 1
           P(k) == Place(ms, gap, k)
<1>1. /\ Len(gap) \in Nat /\ Len(gap) # 0 /\ Len(ms) \in Nat /\ DOMAIN ms = 1..Len(ms)
  BY PiecesAre
<1>2. Proper(ms[j + 1])
  <2>1. j + 1 \in DOMAIN ms
    BY <1>1
  <2> QED
    BY <2>1, WrittenAreProper
<1>3. w \in Seq(Chars) /\ w # <<>>
  BY <1>2, WrittenChars
<1>4. \A k \in Nat : k >= Len(w) => ~Quoted(ms[j + 1], k)
  BY <1>2, QuotesProtect
<1>5. n = P(j) + o /\ o < Len(w) + Len(gap) /\ (q <=> Quoted(ms[j + 1], o))
  BY DEF Stands
<1>6. /\ P(j) \in Nat /\ P(j) <= P(L) /\ P(L) \in Nat
      /\ \A i \in 1..Len(w) : t[P(j) + i] = w[i]
  <2>1. L \in 0..L
    BY <1>1
  <2> QED
    BY <2>1 DEF Laid
<1>7. j < L => /\ P(j + 1) = P(j) + Len(w) + Len(gap) /\ P(j + 1) <= P(L)
               /\ \A i \in 1..Len(gap) : t[P(j) + Len(w) + i] \in Space
  <2>1. j < L => j \in 0..(Len(ms) - 2) /\ j + 1 \in 0..(Len(ms) - 1)
    BY <1>1
  <2> QED
    BY <2>1 DEF Laid
<1>8. Len(t) = P(L) + Len(Write(ms[Len(ms)]))
  BY DEF Laid
<1>9. Len(Write(ms[Len(ms)])) \in Nat /\ Len(Write(ms[Len(ms)])) # 0
  <2> DEFINE v == Write(ms[Len(ms)])
  <2>1. Len(ms) \in DOMAIN ms
    BY <1>1
  <2>2. v \in Seq(Chars) /\ v # <<>>
    BY <2>1, WrittenAreProper, WrittenChars
  <2> HIDE DEF v
  <2>3. Len(v) \in Nat /\ Len(v) # 0
    BY <2>2
  <2> QED
    BY <2>3 DEF v
<1>10. j = L => Len(t) = P(j) + Len(w)
  <2>1. j = L => j + 1 = Len(ms)
    BY <1>1
  <2> QED
    BY <1>8, <2>1
<1>11. j \in 0..L /\ L \in Int
  BY <1>1
<1> HIDE DEF w, P
<1>12. Len(w) \in Nat /\ Len(t) \in Nat
  BY <1>3
<1>13. ASSUME n < Len(t), o < Len(w)
       PROVE  t[n + 1] = w[o + 1]
  <2>1. o + 1 \in 1..Len(w) /\ P(j) + (o + 1) = n + 1
    BY <1>5, <1>6, <1>12, <1>13
  <2> QED
    BY <1>6, <2>1
<1>14. ASSUME n < Len(t), o >= Len(w)
       PROVE  j < L /\ t[n + 1] \in Space /\ (q <=> FALSE)
  <2>1. j # L
    BY <1>5, <1>6, <1>10, <1>12, <1>14
  <2>2. j < L
    BY <1>11, <2>1
  <2>3. (o - Len(w)) + 1 \in 1..Len(gap) /\ P(j) + Len(w) + ((o - Len(w)) + 1) = n + 1
    BY <1>1, <1>5, <1>6, <1>12, <1>14
  <2> QED
    BY <1>4, <1>5, <1>7, <1>14, <2>2, <2>3
<1>15. ASSUME n = Len(t)
       PROVE  j = L /\ o = Len(w)
  <2>1. ~(j < L)
    BY SMTT(30), <1>1, <1>5, <1>6, <1>7, <1>8, <1>9, <1>12, <1>15
  <2>2. j = L
    BY <1>11, <2>1
  <2> QED
    BY <1>5, <1>6, <1>10, <1>12, <1>15, <2>2
<1> QED
  BY <1>2, <1>3, <1>13, <1>14, <1>15 DEF w

\* A separator of the text ends the token of a measurement, the others are skipped.
LEMMA GapRead ==
    ASSUME NEW ms \in Written, NEW t \in Seq(Chars), NEW n \in 0..(Len(t) - 1), NEW q,
           NEW ts, NEW cur, Within(t, ms, n, q, ts, cur), t[n + 1] \in Space, ~q
    PROVE  Within(t, ms, n + 1, q, IF cur = <<>> THEN ts ELSE Append(ts, cur), <<>>)
<1> DEFINE L == Len(ms) - 1
           done == IF cur = <<>> THEN ts ELSE Append(ts, cur)
<1>1. PICK gap \in Spacing :
         /\ Laid(t, ms, gap)
         /\ \E j \in 0..L : \E o \in Nat : Stands(ms, gap, j, o, n, q, ts, cur)
  BY DEF Within
<1>2. PICK j \in 0..L : \E o \in Nat : Stands(ms, gap, j, o, n, q, ts, cur)
  BY <1>1
<1>3. PICK o \in Nat : Stands(ms, gap, j, o, n, q, ts, cur)
  BY <1>2
<1> DEFINE w == Write(ms[j + 1])
           P(k) == Place(ms, gap, k)
<1>4. n \in 0..Len(t) /\ n < Len(t) /\ Len(t) \in Nat /\ n \in Nat
  OBVIOUS
<1>5. /\ w \in Seq(Chars) /\ w # <<>> /\ Proper(ms[j + 1])
      /\ o < Len(w) => t[n + 1] = w[o + 1]
      /\ o >= Len(w) => j < L
  BY <1>1, <1>3, <1>4, CharOfWritten
<1>6. Len(w) \in Nat /\ Len(w) # 0
  <2> HIDE DEF w
  <2> QED
    BY <1>5
<1>7. /\ n = P(j) + o /\ o < Len(w) + Len(gap) /\ (q <=> Quoted(ms[j + 1], o))
      /\ o <= Len(w) => ts = Writes(ms, j) /\ cur = SubSeq(w, 1, o)
      /\ o > Len(w) => ts = Writes(ms, j + 1) /\ cur = <<>>
  BY <1>3 DEF Stands
<1>8. ~(o < Len(w))
  <2> SUFFICES ASSUME o < Len(w)
               PROVE  FALSE
    OBVIOUS
  <2>1. o \in 0..(Len(w) - 1)
    BY <1>6
  <2>2. ~(w[o + 1] \in Space /\ ~Quoted(ms[j + 1], o))
    BY <1>5, <2>1, QuotesProtect
  <2> QED
    BY <1>5, <1>7, <2>2
<1>9. o >= Len(w) /\ j < L
  BY <1>5, <1>6, <1>8
<1>10. done = Writes(ms, j + 1)
  <2>1. CASE o > Len(w)
    BY <1>7, <2>1
  <2>2. CASE o = Len(w)
    <3>1. SubSeq(w, 1, Len(w)) = w
      BY <1>5, WholeStretch
    <3>2. cur = w /\ ts = Writes(ms, j)
      BY <1>6, <1>7, <2>2, <3>1
    <3>3. Append(Writes(ms, j), w) = Writes(ms, j + 1)
      BY WritesNext
    <3> QED
      BY <1>5, <3>2, <3>3
  <2> QED
    BY <1>6, <1>9, <2>1, <2>2
<1>11. Len(ms) \in Nat /\ Len(gap) \in Nat /\ Len(gap) # 0
  BY PiecesAre
<1>12. j + 1 \in 0..L /\ j \in 0..(Len(ms) - 2)
  BY <1>9, <1>11
<1>13. P(j + 1) = P(j) + Len(w) + Len(gap) /\ P(j) \in Nat
  BY <1>1, <1>12 DEF Laid
<1>14. \A k \in Nat : k >= Len(w) => ~Quoted(ms[j + 1], k)
  BY <1>5, QuotesProtect
<1> SUFFICES Within(t, ms, n + 1, q, done, <<>>)
  OBVIOUS
<1> HIDE DEF w, done, P
<1>15. n = P(j) + o /\ o < Len(w) + Len(gap)
  BY <1>7
<1>16. CASE o + 1 < Len(w) + Len(gap)
  <2>1. o + 1 \in Nat /\ o + 1 > Len(w) /\ n + 1 = P(j) + (o + 1) /\ ~(o + 1 <= Len(w))
    BY SMTT(30), <1>6, <1>9, <1>13, <1>15
  <2>2. ~Quoted(ms[j + 1], o + 1)
    BY <1>6, <1>14, <2>1
  <2>3. Stands(ms, gap, j, o + 1, n + 1, q, done, <<>>)
    BY <1>10, <1>16, <2>1, <2>2 DEF Stands, w, P
  <2>4. n + 1 <= Len(t)
    BY <1>4
  <2> QED
    BY <1>1, <2>1, <2>3, <2>4 DEF Within
<1>17. CASE ~(o + 1 < Len(w) + Len(gap))
  <2>1. n + 1 = P(j + 1) + 0
    <3>1. o + 1 = Len(w) + Len(gap)
      BY <1>6, <1>11, <1>17, <1>15
    <3> QED
      BY SMTT(30), <1>4, <1>6, <1>11, <1>13, <1>15, <3>1
  <2> DEFINE v == Write(ms[(j + 1) + 1])
  <2>2. Proper(ms[(j + 1) + 1])
    <3>1. DOMAIN ms = 1..Len(ms)
      BY PiecesAre
    <3>2. (j + 1) + 1 \in DOMAIN ms
      BY <1>11, <1>12, <3>1
    <3> QED
      BY <3>2, WrittenAreProper
  <2>3. v \in Seq(Chars) /\ ~Quoted(ms[(j + 1) + 1], 0)
    BY <2>2, WrittenChars, QuotesProtect
  <2> HIDE DEF v
  <2>4. Len(v) \in Nat /\ SubSeq(v, 1, 0) = <<>>
    BY <2>3
  <2>5. 0 < Len(v) + Len(gap) /\ ~(0 > Len(v)) /\ 0 \in Nat
    BY <1>11, <2>4
  <2>6. Stands(ms, gap, j + 1, 0, n + 1, q, done, <<>>)
    BY <1>10, <2>1, <2>3, <2>4, <2>5 DEF Stands, v, P
  <2>7. n + 1 <= Len(t)
    BY <1>4
  <2> QED
    BY <1>1, <1>12, <2>5, <2>6, <2>7 DEF Within
<1> QED
  BY <1>16, <1>17

\* Any other character belongs to the measurement that is read.
LEMMA WrittenCharRead ==
    ASSUME NEW ms \in Written, NEW t \in Seq(Chars), NEW n \in 0..(Len(t) - 1), NEW q, NEW r,
           NEW ts, NEW cur, Within(t, ms, n, q, ts, cur), ~(t[n + 1] \in Space /\ ~q),
           r <=> ~(q <=> t[n + 1] \in Quote)
    PROVE  Within(t, ms, n + 1, r, ts, Append(cur, t[n + 1]))
<1> DEFINE L == Len(ms) - 1
<1>1. PICK gap \in Spacing :
         /\ Laid(t, ms, gap)
         /\ \E j \in 0..L : \E o \in Nat : Stands(ms, gap, j, o, n, q, ts, cur)
  BY DEF Within
<1>2. PICK j \in 0..L : \E o \in Nat : Stands(ms, gap, j, o, n, q, ts, cur)
  BY <1>1
<1>3. PICK o \in Nat : Stands(ms, gap, j, o, n, q, ts, cur)
  BY <1>2
<1> DEFINE w == Write(ms[j + 1])
           P(k) == Place(ms, gap, k)
<1>4. n \in 0..Len(t) /\ n < Len(t) /\ Len(t) \in Nat /\ n \in Nat
  OBVIOUS
<1>5. /\ w \in Seq(Chars) /\ w # <<>> /\ Proper(ms[j + 1])
      /\ o < Len(w) => t[n + 1] = w[o + 1]
      /\ o >= Len(w) => t[n + 1] \in Space /\ (q <=> FALSE)
  BY <1>1, <1>3, <1>4, CharOfWritten
<1>6. Len(w) \in Nat /\ Len(w) # 0
  <2> HIDE DEF w
  <2> QED
    BY <1>5
<1>7. /\ n = P(j) + o /\ (q <=> Quoted(ms[j + 1], o))
      /\ o <= Len(w) => ts = Writes(ms, j) /\ cur = SubSeq(w, 1, o)
  BY <1>3 DEF Stands
<1>8. o < Len(w) /\ t[n + 1] = w[o + 1]
  <2>1. ~(o >= Len(w))
    BY <1>5
  <2> QED
    BY <1>5, <1>6, <2>1
<1>9. Len(gap) \in Nat /\ Len(gap) # 0
  BY PiecesAre
<1>10. o \in 0..(Len(w) - 1)
  BY <1>6, <1>8
<1>11. r <=> Quoted(ms[j + 1], o + 1)
  <2>1. Quoted(ms[j + 1], o + 1) <=> ~(Quoted(ms[j + 1], o) <=> w[o + 1] \in Quote)
    BY <1>5, <1>10, QuotesProtect
  <2> QED
    BY <1>7, <1>8, <2>1
<1>12. Append(cur, t[n + 1]) = SubSeq(w, 1, o + 1)
  <2>1. SubSeq(w, 1, o + 1) = Append(SubSeq(w, 1, o), w[o + 1])
    <3>1. 1 \in 1..(Len(w) + 1) /\ o \in (1 - 1)..(Len(w) - 1)
      BY <1>6, <1>10
    <3> HIDE DEF w
    <3> QED
      BY <1>5, <3>1, StretchExtended
  <2> QED
    BY SMTT(30), <1>6, <1>7, <1>8, <2>1
<1>13. P(j) \in Nat
  BY <1>1 DEF Laid
<1>14. /\ o + 1 \in Nat /\ n + 1 = P(j) + (o + 1) /\ o + 1 < Len(w) + Len(gap)
       /\ ~(o + 1 > Len(w)) /\ n + 1 <= Len(t)
  BY SMTT(30), <1>4, <1>6, <1>7, <1>9, <1>10, <1>13
<1>15. ts = Writes(ms, j)
  BY <1>6, <1>7, <1>8
<1> HIDE DEF w
<1>16. Stands(ms, gap, j, o + 1, n + 1, r, ts, Append(cur, t[n + 1]))
  BY <1>11, <1>12, <1>14, <1>15 DEF Stands, w
<1> QED
  BY <1>1, <1>14, <1>16 DEF Within

\* At its end the tokens are what was written.
LEMMA AllRead ==
    ASSUME NEW ms \in Written, NEW t \in Seq(Chars), NEW n \in Nat, n >= Len(t), NEW q,
           NEW ts, NEW cur, Within(t, ms, n, q, ts, cur)
    PROVE  (IF cur = <<>> THEN ts ELSE Append(ts, cur)) = Writes(ms, Len(ms))
<1> DEFINE L == Len(ms) - 1
<1>1. PICK gap \in Spacing :
         /\ Laid(t, ms, gap)
         /\ \E j \in 0..L : \E o \in Nat : Stands(ms, gap, j, o, n, q, ts, cur)
  BY DEF Within
<1>2. PICK j \in 0..L : \E o \in Nat : Stands(ms, gap, j, o, n, q, ts, cur)
  BY <1>1
<1>3. PICK o \in Nat : Stands(ms, gap, j, o, n, q, ts, cur)
  BY <1>2
<1> DEFINE w == Write(ms[j + 1])
<1>4. n = Len(t) /\ n \in 0..Len(t)
  BY DEF Within
<1>5. /\ w \in Seq(Chars) /\ w # <<>>
      /\ j = L /\ o = Len(w)
  BY <1>1, <1>3, <1>4, CharOfWritten
<1>6. o <= Len(w) => ts = Writes(ms, j) /\ cur = SubSeq(w, 1, o)
  BY <1>3 DEF Stands
<1>7. Append(Writes(ms, j), w) = Writes(ms, j + 1) /\ Len(ms) \in Nat
  BY WritesNext
<1> HIDE DEF w
<1>8. SubSeq(w, 1, Len(w)) = w /\ Len(w) \in Nat
  BY <1>5, WholeStretch
<1>9. j + 1 = Len(ms)
  BY <1>5, <1>7
<1> QED
  BY <1>5, <1>6, <1>7, <1>8, <1>9

\* Before its first character none is.
LEMMA NoneRead ==
    ASSUME NEW ms \in Written, ms # <<>>, NEW gap \in Spacing, NEW t \in Seq(Chars),
           Laid(t, ms, gap), NEW q, ~q
    PROVE  Within(t, ms, 0, q, <<>>, <<>>)
<1> DEFINE w == Write(ms[0 + 1])
<1>1. Len(gap) \in Nat /\ Len(gap) # 0 /\ DOMAIN ms = 1..Len(ms)
  BY PiecesAre
<1>2. Len(ms) \in Nat /\ Len(ms) # 0
  BY WrittenAreProper
<1>3. Proper(ms[0 + 1])
  <2>1. 0 + 1 \in DOMAIN ms
    BY <1>1, <1>2
  <2> QED
    BY <2>1, WrittenAreProper
<1>4. w \in Seq(Chars) /\ ~Quoted(ms[0 + 1], 0)
  BY <1>3, WrittenChars, QuotesProtect
<1> HIDE DEF w
<1>5. Len(w) \in Nat /\ SubSeq(w, 1, 0) = <<>>
  BY <1>4
<1>6. 0 < Len(w) + Len(gap) /\ ~(0 > Len(w)) /\ 0 = 0 + 0 /\ 0 <= Len(t)
  BY <1>1, <1>5
<1>7. Place(ms, gap, 0) = 0
  BY DEF Laid
<1>8. Stands(ms, gap, 0, 0, 0, q, <<>>, <<>>)
  BY <1>4, <1>5, <1>6, <1>7, WritesNext DEF Stands, w
<1>9. 0 \in 0..(Len(ms) - 1) /\ 0 \in Nat
  BY <1>2
<1> QED
  BY <1>6, <1>8, <1>9 DEF Within

\* What one more measurement means.
LEMMA MeaningsNext ==
    ASSUME NEW ms \in Written, NEW a \in 0..(Len(ms) - 1)
    PROVE  Meanings(SubSeq(ms, 1, a + 1)) =
              IF Lost(ms[a + 1]) THEN Meanings(SubSeq(ms, 1, a))
              ELSE Append(Meanings(SubSeq(ms, 1, a)), Meaning(ms[a + 1]))
<1> DEFINE M == {Meaning(m) : m \in Measurement}
           B == Seq(M)
           F == [m \in Measurement |-> IF Lost(m) THEN <<>> ELSE <<Meaning(m)>>]
           s == SubSeq(ms, 1, a)
           x == ms[a + 1]
           old == [k \in DOMAIN s |-> F[s[k]]]
<1>1. F \in [Measurement -> B]
  <2>1. ASSUME NEW m \in Measurement
        PROVE  (IF Lost(m) THEN <<>> ELSE <<Meaning(m)>>) \in B
    <3> DEFINE y == Meaning(m)
    <3>1. y \in M
      OBVIOUS
    <3> HIDE DEF M, y
    <3>2. <<>> \in B /\ <<y>> \in B
      BY <3>1
    <3> QED
      BY <3>2 DEF y
  <2> HIDE DEF B
  <2> QED
    BY <2>1
<1>2. ms \in Seq(Measurement) /\ Len(ms) \in Nat
  BY WrittenAreProper
<1>3. s \in Seq(Measurement) /\ x \in Measurement
  <2>1. a \in 0..Len(ms) /\ a + 1 \in 1..Len(ms)
    BY <1>2
  <2> QED
    BY <1>2, <2>1, Beginning
<1>4. SubSeq(ms, 1, a + 1) = Append(s, x)
  <2>1. 1 \in 1..(Len(ms) + 1) /\ a \in (1 - 1)..(Len(ms) - 1)
    BY <1>2
  <2> QED
    BY <1>2, <2>1, StretchExtended
<1>5. \A r \in Seq(Measurement) : Meanings(r) = FlattenSeq([k \in DOMAIN r |-> F[r[k]]])
  <2> SUFFICES ASSUME NEW r \in Seq(Measurement)
               PROVE  Meanings(r) = FlattenSeq([k \in DOMAIN r |-> F[r[k]]])
    OBVIOUS
  <2>1. \A k \in DOMAIN r : r[k] \in Measurement
    OBVIOUS
  <2>2. \A k \in DOMAIN r :
           F[r[k]] = IF Lost(r[k]) THEN <<>> ELSE <<Meaning(r[k])>>
    BY <2>1
  <2> HIDE DEF F
  <2>3. [k \in DOMAIN r |-> F[r[k]]] =
           [k \in DOMAIN r |-> IF Lost(r[k]) THEN <<>> ELSE <<Meaning(r[k])>>]
    BY <2>2
  <2> QED
    BY <2>3 DEF Meanings
<1>6. F[x] = IF Lost(x) THEN <<>> ELSE <<Meaning(x)>>
  BY <1>3
<1> HIDE DEF F, s, x, M
<1>7. Append(s, x) \in Seq(Measurement)
  BY <1>3
<1> HIDE DEF B
<1>8. Meanings(Append(s, x)) = FlattenSeq(Append(old, F[x])) /\ Meanings(s) = FlattenSeq(old)
  <2>1. [k \in DOMAIN Append(s, x) |-> F[Append(s, x)[k]]] = Append(old, F[x])
    BY <1>1, <1>3, MappedAppended
  <2>2. Meanings(s) = FlattenSeq(old)
    BY <1>3, <1>5
  <2>3. Meanings(Append(s, x)) = FlattenSeq([k \in DOMAIN Append(s, x) |-> F[Append(s, x)[k]]])
    BY <1>5, <1>7
  <2> QED
    BY <2>1, <2>2, <2>3
<1>9. old \in Seq(B) /\ F[x] \in B
  BY <1>1, <1>3, Mapped
<1> HIDE DEF old
<1>10. /\ FlattenSeq(Append(old, F[x])) = FlattenSeq(old) \o F[x]
       /\ FlattenSeq(old) \in Seq(M)
  BY <1>9, FlattenAppended, FlattenType DEF B
<1> DEFINE before == FlattenSeq(old)
<1>11. before \in Seq(M) /\ Meanings(s) = before /\ Meanings(Append(s, x)) = before \o F[x]
  BY <1>8, <1>10
<1> HIDE DEF before
<1>12. CASE Lost(x)
  <2>1. before \o <<>> = before
    BY <1>11
  <2> QED
    BY <1>4, <1>6, <1>11, <1>12, <2>1 DEF s, x
<1>13. CASE ~Lost(x)
  <2> DEFINE y == Meaning(x)
  <2>1. y \in M
    BY <1>3 DEF M
  <2>2. F[x] = <<y>>
    BY <1>6, <1>13
  <2> HIDE DEF y
  <2>3. before \o <<y>> = Append(before, y)
    BY <1>11, <2>1
  <2> QED
    BY <1>4, <1>11, <1>13, <2>2, <2>3 DEF s, x, y
<1> QED
  BY <1>12, <1>13

\* No measurement means anything, and the first Len(ms) are all of them.
LEMMA NoMeanings ==
    ASSUME NEW ms \in Written
    PROVE  Meanings(SubSeq(ms, 1, 0)) = <<>> /\ SubSeq(ms, 1, Len(ms)) = ms
<1>1. ms \in Seq(Measurement)
  BY WrittenAreProper
<1>2. SubSeq(ms, 1, 0) = <<>> /\ DOMAIN <<>> = {}
  BY <1>1
<1>3. Meanings(<<>>) = FlattenSeq(<<>>)
  <2>1. \A f : DOMAIN f = {} /\ f = [k \in DOMAIN f |-> f[k]] => f = <<>>
    OBVIOUS
  <2> QED
    BY <1>2, <2>1 DEF Meanings
<1> QED
  BY <1>1, <1>2, <1>3, FlattenNone, WholeStretch

\* The place in the written text is kept by every step: characters are read one by
\* one, tokens parsed in the order in which they were written.
LEMMA WrittenKept ==
    ASSUME TypeInv, WrittenInv, [Next]_vars
    PROVE  WrittenInv'
<1>1. ASSUME NEW t, NEW ms \in Written \cup {<<>>}, ParsePerfdata(t, ms),
             t \in Seq(Chars),
             ms # <<>> => \E gap \in Spacing : t = FlattenSeq(Pieces(ms, gap))
      PROVE  WrittenInv'
  <2>1. /\ pc = "idle" /\ text' = Trim(t, Space) /\ meant' = ms
        /\ pc' = (IF text' = <<>> THEN "returned" ELSE "tokenize")
        /\ UNCHANGED <<at, inQuote, current, tokens, metrics, parseErrors>>
    BY <1>1 DEF ParsePerfdata
  <2>2. /\ at' = 1 /\ inQuote' = FALSE /\ current' = <<>> /\ tokens' = <<>>
        /\ metrics' = <<>> /\ parseErrors' = FALSE
    BY <2>1 DEF WrittenInv
  <2>3. meant' # <<>> =>
           meant' \in Written /\ pc' = "tokenize"
           /\ Within(text', meant', at' - 1, inQuote', tokens', current')
    <3> SUFFICES ASSUME ms # <<>>
                 PROVE  /\ ms \in Written /\ text' # <<>>
                        /\ Within(text', ms, at' - 1, inQuote', tokens', current')
      BY <2>1
    <3>1. PICK gap \in Spacing : t = FlattenSeq(Pieces(ms, gap))
      BY <1>1
    <3>2. ms \in Written
      OBVIOUS
    <3>3. Laid(text', ms, gap) /\ text' # <<>>
      BY <2>1, <3>1, <3>2, WrittenText
    <3>4. text' \in Seq(Chars)
      BY <1>1, <2>1, TrimType
    <3>5. Within(text', ms, 0, inQuote', <<>>, <<>>)
      BY <2>2, <3>2, <3>3, <3>4, NoneRead
    <3>6. at' - 1 = 0
      BY <2>2
    <3> QED
      BY <2>2, <3>2, <3>3, <3>5, <3>6
  <2>4. pc' \in {"tokenize", "returned"}
    BY <2>1
  <2> QED
    BY <2>2, <2>3, <2>4 DEF WrittenInv, RoundTrip
<1>2. CASE ParseAnyText
  BY <1>1, <1>2, TextsAssumption DEF ParseAnyText, TextsAssumption
<1>3. CASE ParseWritten
  BY <1>1, <1>3, WrittenType DEF ParseWritten, Pieces
<1>4. CASE Tokenize
  <2> DEFINE n == at - 1
  <2>1. /\ pc = "tokenize" /\ pc' = "tokenize" /\ text' = text /\ at' = at + 1
        /\ meant' = meant /\ metrics' = metrics /\ parseErrors' = parseErrors
        /\ text \in Seq(Chars) /\ at \in 1..Len(text) /\ inQuote \in BOOLEAN
    BY <1>4 DEF Tokenize, TypeInv, TypeOK
  <2>2. n \in 0..(Len(text) - 1) /\ n + 1 = at /\ at' - 1 = n + 1
    BY <2>1
  <2> HIDE DEF n
  <2>3. metrics = <<>> /\ parseErrors = FALSE /\ (meant # <<>> => meant \in Written)
    BY <2>1 DEF WrittenInv
  <2>4. ASSUME meant # <<>>
        PROVE  Within(text, meant, n + 1, inQuote', tokens', current')
    <3>1. Within(text, meant, n, inQuote, tokens, current) /\ meant \in Written
      BY <2>1, <2>4 DEF WrittenInv, n
    <3>2. Separator(text[n + 1]) <=> text[n + 1] \in Space /\ ~inQuote
      BY DEF Separator, Space
    <3>3. CASE Separator(text[n + 1])
      <4>1. tokens' = Completed /\ current' = <<>> /\ inQuote' = inQuote
        BY <1>4, <2>2, <3>3 DEF Tokenize
      <4> QED
        BY <2>1, <2>2, <3>1, <3>2, <3>3, <4>1, GapRead DEF Completed
    <3>4. CASE ~Separator(text[n + 1])
      <4>1. /\ tokens' = tokens /\ current' = Append(current, text[n + 1])
            /\ inQuote' = (inQuote # (text[n + 1] \in Quote))
        BY <1>4, <2>2, <3>4 DEF Tokenize
      <4>2. inQuote' <=> ~(inQuote <=> text[n + 1] \in Quote)
        <5>1. inQuote = TRUE \/ inQuote = FALSE
          BY <2>1
        <5>2. CASE text[n + 1] \in Quote
          <6>1. inQuote' = (inQuote # TRUE)
            BY <4>1, <5>2
          <6> QED
            BY <5>1, <5>2, <6>1
        <5>3. CASE ~(text[n + 1] \in Quote)
          <6>1. (text[n + 1] \in Quote) = FALSE
            BY <5>3
          <6>2. inQuote' = (inQuote # FALSE)
            BY <4>1, <6>1, Zenon
          <6> QED
            BY <5>1, <5>3, <6>2
        <5> QED
          BY <5>2, <5>3
      <4>3. ~(text[n + 1] \in Space /\ ~inQuote)
        BY <3>2, <3>4
      <4> QED
        BY <2>1, <2>2, <3>1, <4>1, <4>2, <4>3, WrittenCharRead
    <3> QED
      BY <3>3, <3>4
  <2> QED
    BY <2>1, <2>2, <2>3, <2>4 DEF WrittenInv, RoundTrip
<1>5. CASE EndOfText
  <2> DEFINE n == at - 1
  <2>1. /\ pc = "tokenize" /\ pc' = "parse" /\ tokens' = Completed /\ at' = 1
        /\ meant' = meant /\ metrics' = metrics /\ parseErrors' = parseErrors
        /\ text \in Seq(Chars) /\ at > Len(text) /\ at \in Nat /\ at >= 1
    BY <1>5 DEF EndOfText, TypeInv, TypeOK
  <2>2. n \in Nat /\ n >= Len(text)
    BY <2>1
  <2> HIDE DEF n
  <2>3. metrics = <<>> /\ parseErrors = FALSE /\ (meant # <<>> => meant \in Written)
    BY <2>1 DEF WrittenInv
  <2>4. ASSUME meant # <<>>
        PROVE  /\ tokens' = Writes(meant, Len(meant)) /\ 1 \in 1..(Len(meant) + 1)
               /\ metrics = Meanings(SubSeq(meant, 1, 1 - 1))
    <3>1. Within(text, meant, n, inQuote, tokens, current) /\ meant \in Written
      BY <2>1, <2>4 DEF WrittenInv, n
    <3>2. tokens' = Writes(meant, Len(meant))
      BY <2>1, <2>2, <3>1, AllRead DEF Completed
    <3>3. Len(meant) \in Nat /\ 1 - 1 = 0
      BY <3>1, WritesNext
    <3>4. Meanings(SubSeq(meant, 1, 0)) = <<>>
      BY <3>1, NoMeanings
    <3> QED
      BY <2>3, <3>2, <3>3, <3>4
  <2>5. ~(at' > 1)
    BY <2>1
  <2> QED
    BY <2>1, <2>3, <2>4, <2>5 DEF WrittenInv, RoundTrip
<1>6. ASSUME pc = "parse", meant # <<>>, at <= Len(tokens)
      PROVE  /\ meant \in Written /\ Proper(meant[at]) /\ tokens[at] = Write(meant[at])
             /\ tokens = Writes(meant, Len(meant))
             /\ at \in 1..Len(meant) /\ at + 1 \in 1..(Len(meant) + 1) /\ (at + 1) - 1 = at
             /\ Meanings(SubSeq(meant, 1, at)) =
                   IF Lost(meant[at]) THEN metrics
                   ELSE Append(metrics, Meaning(meant[at]))
  <2>1. /\ meant \in Written /\ tokens = Writes(meant, Len(meant))
        /\ at \in 1..(Len(meant) + 1) /\ metrics = Meanings(SubSeq(meant, 1, at - 1))
    BY <1>6 DEF WrittenInv
  <2>2. Len(meant) \in Nat /\ Len(tokens) = Len(meant)
    <3>1. Len(meant) \in Nat
      BY <2>1, WritesNext
    <3>2. Len(meant) \in 0..Len(meant)
      BY <3>1
    <3> QED
      BY <2>1, <3>1, <3>2, WritesNext
  <2>3. at \in 1..Len(meant)
    BY <1>6, <2>1, <2>2
  <2>4. tokens[at] = Write(meant[at])
    BY <2>1, <2>3 DEF Writes
  <2>5. Proper(meant[at])
    <3>1. meant \in Seq(Measurement)
      BY <2>1, WrittenAreProper
    <3>2. at \in DOMAIN meant
      BY <2>3, <3>1
    <3> QED
      BY <2>1, <3>2, WrittenAreProper
  <2>6. at - 1 \in 0..(Len(meant) - 1) /\ (at - 1) + 1 = at
    BY <2>2, <2>3
  <2>7. Meanings(SubSeq(meant, 1, (at - 1) + 1)) =
           IF Lost(meant[(at - 1) + 1]) THEN Meanings(SubSeq(meant, 1, at - 1))
           ELSE Append(Meanings(SubSeq(meant, 1, at - 1)), Meaning(meant[(at - 1) + 1]))
    BY <2>1, <2>6, MeaningsNext
  <2> QED
    BY <2>1, <2>2, <2>3, <2>4, <2>5, <2>6, <2>7
<1>7. CASE ParseToken
  <2>1. /\ pc = "parse" /\ pc' = "parse" /\ at <= Len(tokens) /\ Parses(tokens[at])
        /\ metrics' = Append(metrics, MetricOf(tokens[at])) /\ at' = at + 1
        /\ meant' = meant /\ tokens' = tokens /\ parseErrors' = parseErrors
        /\ metrics \in Seq(Metric)
    BY <1>7 DEF ParseToken, TypeInv, TypeOK
  <2>2. ASSUME meant # <<>>
        PROVE  /\ meant \in Written /\ tokens = Writes(meant, Len(meant))
               /\ at + 1 \in 1..(Len(meant) + 1)
               /\ metrics' = Meanings(SubSeq(meant, 1, (at + 1) - 1))
    <3>1. ~Lost(meant[at]) /\ MetricOf(tokens[at]) = Meaning(meant[at])
      BY <1>6, <2>1, <2>2, TokenRoundTrip
    <3> QED
      BY <1>6, <2>1, <2>2, <3>1
  <2>3. metrics' # <<>>
    <3> DEFINE x == MetricOf(tokens[at])
    <3> HIDE DEF x
    <3>1. Append(metrics, x) # <<>>
      BY <2>1
    <3> QED
      BY <2>1, <3>1 DEF x
  <2> QED
    BY <2>1, <2>2, <2>3 DEF WrittenInv, RoundTrip
<1>8. CASE TokenFails
  <2>1. /\ pc = "parse" /\ pc' = "parse" /\ at <= Len(tokens) /\ ~Parses(tokens[at])
        /\ metrics' = metrics /\ at' = at + 1
        /\ meant' = meant /\ tokens' = tokens /\ parseErrors' = TRUE
    BY <1>8 DEF TokenFails
  <2>2. ASSUME meant # <<>>
        PROVE  /\ meant \in Written /\ tokens = Writes(meant, Len(meant))
               /\ at + 1 \in 1..(Len(meant) + 1)
               /\ metrics = Meanings(SubSeq(meant, 1, (at + 1) - 1))
    <3>1. Lost(meant[at])
      BY <1>6, <2>1, <2>2, TokenRoundTrip
    <3> QED
      BY <1>6, <2>1, <2>2, <3>1
  <2> QED
    BY <2>1, <2>2 DEF WrittenInv, RoundTrip
<1>9. CASE Return
  <2>1. /\ pc = "parse" /\ pc' = "returned" /\ at > Len(tokens)
        /\ failed' = (parseErrors /\ metrics = <<>>)
        /\ meant' = meant /\ metrics' = metrics /\ parseErrors \in BOOLEAN
    BY <1>9 DEF Return, TypeInv, TypeOK
  <2>2. ASSUME meant # <<>>
        PROVE  /\ meant \in Written /\ metrics = Meanings(meant)
               /\ failed' = (Meanings(meant) = <<>>)
    <3>1. /\ meant \in Written /\ tokens = Writes(meant, Len(meant))
          /\ at \in 1..(Len(meant) + 1) /\ metrics = Meanings(SubSeq(meant, 1, at - 1))
          /\ at > 1 => parseErrors \/ metrics # <<>>
      BY <2>1, <2>2 DEF WrittenInv
    <3>2. Len(meant) \in Nat /\ Len(meant) # 0
      BY <2>2, <3>1, WrittenAreProper
    <3>3. Len(tokens) = Len(meant)
      <4>1. Len(meant) \in 0..Len(meant)
        BY <3>2
      <4> QED
        BY <3>1, <4>1, WritesNext
    <3>4. at - 1 = Len(meant) /\ at > 1
      BY <2>1, <3>1, <3>2, <3>3
    <3>5. metrics = Meanings(meant)
      BY <3>1, <3>4, NoMeanings
    <3>6. failed' = (metrics = <<>>)
      BY <2>1, <3>1, <3>4
    <3> QED
      BY <3>1, <3>5, <3>6
  <2> QED
    BY <2>1, <2>2 DEF WrittenInv, RoundTrip
<1>10. CASE NextCall
  BY <1>10 DEF NextCall, WrittenInv, RoundTrip
<1>11. CASE UNCHANGED vars
  BY <1>11 DEF vars, WrittenInv, RoundTrip
<1> QED
  BY <1>2, <1>3, <1>4, <1>5, <1>7, <1>8, <1>9, <1>10, <1>11 DEF Next

\* What plugins write in the format of ParsePerfdata's comment comes back as it was
\* meant, however many measurements there are, whatever their labels, numbers and
\* ranges, and however wide the gaps between them: quotes protect the spaces and
\* semicolons of a label, and no token affects another.  Lost are exactly the
\* measurements without a value and those whose unit begins with e, E or a sign.
THEOREM WrittenComesBack == Spec => []RoundTrip
<1>1. Init => TypeInv
  BY StartsTyped
<1>2. Init => WrittenInv
  BY DEF Init, WrittenInv, RoundTrip
<1>3. TypeInv /\ WrittenInv /\ [Next]_vars => TypeInv' /\ WrittenInv'
  BY TypeKept, WrittenKept
<1>4. WrittenInv => RoundTrip
  BY DEF WrittenInv
<1> QED
  BY <1>1, <1>2, <1>3, <1>4, PTL DEF Spec
=============================================================================
