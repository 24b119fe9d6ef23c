--------------------------- MODULE PerfdataParser ---------------------------
(***************************************************************************)
(* perfdata_parser.go: ParsePerfdata takes the performance data of a check *)
(* apart, 'label'=value[UOM];[warn];[crit];[min];[max] for each metric and *)
(* spaces between metrics, and turns it into metrics.                      *)
(*                                                                         *)
(* A text is a sequence of characters, of which the parser tells apart the *)
(* ones below.  A number is left as its text; <<>> stands for nil.         *)
(***************************************************************************)
EXTENDS Text

CONSTANTS
    Texts,      \* texts of any kind
    Written,    \* what plugins write: sequences of measurements
    Spacing     \* what they write between two measurements

VARIABLES
    text,       \* perfdata, trimmed
    meant,      \* the measurements it was written from, if it was
    pc,         \* idle, tokenize, parse, returned
    at,         \* the next character, or the next token
    inQuote, current, tokens,   \* of tokenizePerfdata
    metrics, parseErrors,       \* of ParsePerfdata
    failed      \* whether the call returned an error

vars == <<text, meant, pc, at, inQuote, current, tokens, metrics, parseErrors, failed>>

Nil == <<>>
Space == {" "}
Quote == {"'"}
Digits == {"1", "2"}

\* "-" stands for both signs, "e" for both cases of the exponent's letter.
Numeric == Digits \cup {"-", ".", "e"}

Chars == Space \cup Quote \cup Numeric \cup {"=", ";", ":", "@", "~", "U", "a", "s", "B", "x"}

\* What strconv.ParseFloat accepts of these characters, in the range of a float64:
\* -1, .2, 1., 2.1e-1.
IsFloat(s) ==
    /\ \A k \in DOMAIN s : s[k] \in Numeric
    /\ Where(s, Digits) # {}
    /\ \A k \in Where(s, {"-"}) : k > 1 => s[k - 1] = "e"
    /\ \A k \in Where(s, {"."}), j \in Where(s, {".", "e"}) : j >= k
    /\ \A k \in Where(s, {"e"}) :
          /\ \A j \in Where(s, {"e"}) : j = k
          /\ \E d \in Where(s, Digits) : d < k
          /\ \E d \in Where(s, Digits) : d > k

-----------------------------------------------------------------------------
(***************************************************************************)
(* Plugins.  A measurement has a label, a value ("U" if undetermined) with *)
(* its unit, two threshold ranges, a minimum and a maximum.                *)
(***************************************************************************)
\* A number or nothing; a range of them, which may start at minus infinity.
Bound == {s \in Seq(Numeric) : s = <<>> \/ IsFloat(s)}
Span == [inside : BOOLEAN, start : Bound \cup {<<"~">>}, end : Bound]

Measurement ==
    [quoted : BOOLEAN, label : Seq(Chars \ (Quote \cup {"="})),
     value : Bound \cup {<<"U">>},
     unit : Seq(Chars \ (Digits \cup Space \cup Quote \cup {";"})),
     warning : Span, critical : Span, min : Bound, max : Bound, short : BOOLEAN]

\* The plugin guidelines: a label has no quote or "=" in it, and is quoted if it has a
\* space; a unit has no digit, quote, space or semicolon.  They allow a unit that begins
\* with a dot as well: no plugin has one, and none is written here (1.s reads as 1. and s).
ASSUME TextsAssumption ==
    /\ Texts \subseteq Seq(Chars)
    /\ Written \subseteq Seq(Measurement)
    /\ \A ms \in Written : \A m \in ToSet(ms) :
          /\ m.label # <<>> /\ m.value # <<>> /\ (~m.quoted => Where(m.label, Space) = {})
          /\ 1 \notin Where(m.unit, {"."})
    /\ \A gap \in Spacing : gap \in Seq(Space) /\ gap # <<>>

\* [@][start:][end]
WriteRange(r) ==
    (IF r.inside THEN <<"@">> ELSE <<>>)
    \o (IF r.start = <<>> THEN <<>> ELSE r.start \o <<":">>)
    \o r.end

\* Empty fields at the end may be left out.
Fields(m) ==
    LET all == <<WriteRange(m.warning), WriteRange(m.critical), m.min, m.max>>
        last == Max({0} \cup {k \in 1..4 : all[k] # <<>>})
    IN  IF m.short THEN SubSeq(all, 1, last) ELSE all

Write(m) ==
    (IF m.quoted THEN <<"'">> \o m.label \o <<"'">> ELSE m.label)
    \o <<"=">> \o m.value \o m.unit
    \o FlattenSeq([k \in DOMAIN Fields(m) |-> <<";">> \o Fields(m)[k]])

Undetermined(m) == m.value = <<"U">>

\* The unit begins the way a number may go on: the exabytes of "5EB".
Swallowed(m) == 1 \in Where(m.unit, Numeric)

Lost(m) == Undetermined(m) \/ Swallowed(m)

UnitName(u) == CASE u = <<"s">> -> "s" [] u = <<"B">> -> "By" [] OTHER -> "1"

Meaning(m) ==
    [label |-> m.label, value |-> m.value, unit |-> UnitName(m.unit),
     warning |-> m.warning.end, critical |-> m.critical.end,
     min |-> m.min, max |-> m.max]

\* What they mean, without those that get lost.
Meanings(ms) ==
    FlattenSeq([k \in DOMAIN ms |-> IF Lost(ms[k]) THEN <<>> ELSE <<Meaning(ms[k])>>])

-----------------------------------------------------------------------------
(***************************************************************************)
(* parsePerfdataToken                                                      *)
(***************************************************************************)
\* nagiosUOMToOTel, two of its entries standing for all; an unknown unit is "1".
Unit(uom) == CASE uom = <<"s">> -> "s" [] uom = <<"B">> -> "By" [] OTHER -> "1"

\* Mutant: the bound before the colon.
ThresholdStart(s) ==
    LET t == WithoutPrefix(WithoutPrefix(Trim(s, Space), "@"), "~")
        bound == Head(Split(t, ":"))
    IN  IF IsFloat(bound) THEN bound ELSE Nil

\* parseThreshold: of a range "start:end" the end.
Threshold(s) ==
    LET t == WithoutPrefix(WithoutPrefix(Trim(s, Space), "@"), "~")
        bound == Last(Split(t, ":"))
    IN  IF IsFloat(bound) THEN bound ELSE Nil

OptionalFloat(s) == IF IsFloat(Trim(s, Space)) THEN Trim(s, Space) ELSE Nil

\* The length of the numeric part of s.
NumEnd(s) == Max({n \in 0..Len(s) : \A k \in 1..n : s[k] \in Numeric})

\* The parts of a token: strings.Index(token, "=") and strings.Split(rest, ";").
EqIdx(token) == Min(Where(token, {"="}))
Label(token) == Trim(SubSeq(token, 1, EqIdx(token) - 1), Quote)
Parts(token) ==
    LET rest == SubSeq(token, EqIdx(token) + 1, Len(token))
    IN  Split(rest, ";")
ValuePart(token) == Trim(Head(Parts(token)), Space)
Value(token) == SubSeq(ValuePart(token), 1, NumEnd(ValuePart(token)))
UOM(token) ==
    Trim(SubSeq(ValuePart(token), NumEnd(ValuePart(token)) + 1, Len(ValuePart(token))),
         Space)

\* An empty value, "U" and "no numeric value" all lack a number.
Parses(token) ==
    /\ Where(token, {"="}) # {}
    /\ Label(token) # <<>>
    /\ IsFloat(Value(token))

MetricOf(token) ==
    LET Part(k) == IF k \in DOMAIN Parts(token) THEN Parts(token)[k] ELSE <<>>
    IN  [label |-> Label(token), value |-> Value(token), unit |-> Unit(UOM(token)),
         warning |-> Threshold(Part(2)), critical |-> Threshold(Part(3)),
         min |-> OptionalFloat(Part(4)), max |-> OptionalFloat(Part(5))]

-----------------------------------------------------------------------------
(***************************************************************************)
(* ParsePerfdata                                                           *)
(***************************************************************************)
\* With nothing but space it returns nil, nil.
ParsePerfdata(t, ms) ==
    /\ pc = "idle"
    /\ text' = Trim(t, Space)
    /\ meant' = ms
    /\ pc' = IF text' = <<>> THEN "returned" ELSE "tokenize"
    /\ UNCHANGED <<at, inQuote, current, tokens, metrics, parseErrors, failed>>

ParseAnyText == \E t \in Texts : ParsePerfdata(t, <<>>)

ParseWritten ==
    \E ms \in Written, gap \in Spacing :
        ParsePerfdata(FlattenSeq([k \in DOMAIN ms |-> Write(ms[k]) \o gap]), ms)

\* Mutant: quotes do not protect a space.
EverySpace(ch) == ch = " "

\* The space between two tokens.
Separator(ch) == ch = " " /\ ~inQuote

\* Mutant: every separator ends a token.
EmptyTokens == Append(tokens, current)

\* The tokens once current ends.
Completed == IF current = <<>> THEN tokens ELSE Append(tokens, current)

Tokenize ==
    /\ pc = "tokenize" /\ at <= Len(text)
    /\ LET ch == text[at]
       IN  IF Separator(ch)
             THEN tokens' = Completed /\ current' = <<>> /\ UNCHANGED inQuote
             ELSE /\ current' = Append(current, ch)
                  /\ inQuote' = (inQuote # (ch \in Quote))
                  /\ UNCHANGED tokens
    /\ at' = at + 1
    /\ UNCHANGED <<text, meant, pc, metrics, parseErrors, failed>>

EndOfText ==
    /\ pc = "tokenize" /\ at > Len(text)
    /\ tokens' = Completed
    /\ current' = <<>>
    /\ pc' = "parse"
    /\ at' = 1
    /\ UNCHANGED <<text, meant, inQuote, metrics, parseErrors, failed>>

ParseToken ==
    /\ pc = "parse" /\ at <= Len(tokens) /\ Parses(tokens[at])
    /\ metrics' = Append(metrics, MetricOf(tokens[at]))
    /\ at' = at + 1
    /\ UNCHANGED <<text, meant, pc, inQuote, current, tokens, parseErrors, failed>>

TokenFails ==
    /\ pc = "parse" /\ at <= Len(tokens) /\ ~Parses(tokens[at])
    /\ parseErrors' = TRUE
    /\ at' = at + 1
    /\ UNCHANGED <<text, meant, pc, inQuote, current, tokens, metrics, failed>>

\* An error only when no token has given a metric.
Return ==
    /\ pc = "parse" /\ at > Len(tokens)
    /\ failed' = (parseErrors /\ metrics = <<>>)
    /\ pc' = "returned"
    /\ UNCHANGED <<text, meant, at, inQuote, current, tokens, metrics, parseErrors>>

Init ==
    /\ text = <<>> /\ meant = <<>>
    /\ pc = "idle" /\ at = 1
    /\ inQuote = FALSE /\ current = <<>> /\ tokens = <<>>
    /\ metrics = <<>> /\ parseErrors = FALSE /\ failed = FALSE

\* The variables of a call go with it.
NextCall ==
    /\ pc = "returned"
    /\ text' = <<>> /\ meant' = <<>>
    /\ pc' = "idle" /\ at' = 1
    /\ inQuote' = FALSE /\ current' = <<>> /\ tokens' = <<>>
    /\ metrics' = <<>> /\ parseErrors' = FALSE /\ failed' = FALSE

Next ==
    \/ ParseAnyText \/ ParseWritten
    \/ Tokenize \/ EndOfText
    \/ ParseToken \/ TokenFails \/ Return
    \/ NextCall

Spec == Init /\ [][Next]_vars

-----------------------------------------------------------------------------
(***************************************************************************)
(* Properties.                                                             *)
(***************************************************************************)
Metric ==
    [label : Seq(Chars), value : Seq(Numeric), unit : {"s", "By", "1"},
     warning : Seq(Numeric), critical : Seq(Numeric),
     min : Seq(Numeric), max : Seq(Numeric)]

\* Every variable has its type, and no token is empty.
TypeOK ==
    /\ text \in Seq(Chars)
    /\ pc \in {"idle", "tokenize", "parse", "returned"}
    /\ at \in Nat
    /\ inQuote \in BOOLEAN
    /\ current \in Seq(Chars)
    /\ tokens \in Seq(Seq(Chars) \ {<<>>})
    /\ metrics \in Seq(Metric)
    /\ parseErrors \in BOOLEAN
    /\ failed \in BOOLEAN

\* The spaces with an even number of quotes before them.
Gaps(s) == {k \in Where(s, Space) : Cardinality(Where(SubSeq(s, 1, k), Quote)) % 2 = 0}

\* Where a token begins, and where the one that begins at a ends.
TokenStarts(s) ==
    {k \in DOMAIN s \ Gaps(s) : k - 1 \notin DOMAIN s \ Gaps(s)}
TokenEnd(s, a) == Max({b \in a..Len(s) : a..b \cap Gaps(s) = {}})

\* tokenizePerfdata splits any text at the spaces outside of quotes and drops
\* nothing else: "splits a perfdata string into individual metric tokens,
\* handling quoted labels with spaces".
TokensAreSplit ==
    pc = "parse" =>
        LET starts == TokenStarts(text)
        IN  /\ Len(tokens) = Cardinality(starts)
            /\ \A a \in starts :
                  tokens[Cardinality(starts \cap 1..a)] = SubSeq(text, a, TokenEnd(text, a))

\* What a plugin writes in the format of ParsePerfdata's comment comes back as it
\* was meant, a range as its upper bound, except for two kinds of measurement, which
\* get lost without a trace in what comes back of the others: one without a value, and
\* one whose unit begins with e, E or a sign, which the numeric scan takes into the
\* number, so that it is none.  It is an error when all of them are lost.
RoundTrip ==
    pc = "returned" /\ meant # <<>> =>
        /\ metrics = Meanings(meant)
        /\ failed = (Meanings(meant) = <<>>)
=============================================================================
