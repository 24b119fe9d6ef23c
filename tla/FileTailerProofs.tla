-------------------------- MODULE FileTailerProofs --------------------------
(***************************************************************************)
(* Theorems about FileTailer, for any checks, formats, files and faults    *)
(* and any number of lines: what collect makes of a line, what becomes of  *)
(* the lines it has read, and that shutdown leaves no descriptor open.     *)
(***************************************************************************)
EXTENDS FileTailer, TextProofs

-----------------------------------------------------------------------------
(***************************************************************************)
(* Order.                                                                  *)
(***************************************************************************)
\* Every two elements of s, the first before the second, are in the relation L.
IsOrdered(s, L) == \A i, j \in DOMAIN s : i < j => <<s[i], s[j]>> \in L

\* The elements of two sequences put together.
LEMMA SetJoined ==
    ASSUME NEW A, NEW a \in Seq(A), NEW b \in Seq(A)
    PROVE  /\ a \o b \in Seq(A) /\ ToSet(a \o b) = ToSet(a) \cup ToSet(b)
           /\ ToSet(a) \subseteq A
<1>1. a \o b \in Seq(A) /\ ToSet(a) \subseteq A
  BY DEF ToSet
<1>2. ASSUME NEW x \in ToSet(a \o b)
      PROVE  x \in ToSet(a) \cup ToSet(b)
  <2>1. PICK k \in DOMAIN (a \o b) : x = (a \o b)[k]
    BY DEF ToSet
  <2>2. k \in 1..(Len(a) + Len(b)) /\ Len(a) \in Nat /\ Len(b) \in Nat
    OBVIOUS
  <2>3. CASE k <= Len(a)
    <3>1. (a \o b)[k] = a[k] /\ k \in DOMAIN a
      BY <2>2, <2>3
    <3> QED
      BY <2>1, <3>1 DEF ToSet
  <2>4. CASE k > Len(a)
    <3>1. (a \o b)[k] = b[k - Len(a)] /\ k - Len(a) \in DOMAIN b
      BY <2>2, <2>4
    <3> QED
      BY <2>1, <3>1 DEF ToSet
  <2> QED
    BY <2>2, <2>3, <2>4
<1>3. ASSUME NEW x \in ToSet(a) \cup ToSet(b)
      PROVE  x \in ToSet(a \o b)
  <2>1. CASE x \in ToSet(a)
    <3>1. PICK k \in DOMAIN a : x = a[k]
      BY <2>1 DEF ToSet
    <3>2. k \in DOMAIN (a \o b) /\ (a \o b)[k] = a[k]
      OBVIOUS
    <3> QED
      BY <3>1, <3>2 DEF ToSet
  <2>2. CASE x \in ToSet(b)
    <3>1. PICK k \in DOMAIN b : x = b[k]
      BY <2>2 DEF ToSet
    <3>2. Len(a) + k \in DOMAIN (a \o b) /\ (a \o b)[Len(a) + k] = b[k]
      OBVIOUS
    <3> QED
      BY <3>1, <3>2 DEF ToSet
  <2> QED
    BY <2>1, <2>2
<1> QED
  BY <1>1, <1>2, <1>3

\* Two sequences joined are in order exactly when each of them is and everything in
\* the first comes before everything in the second.
LEMMA OrderedJoined ==
    ASSUME NEW A, NEW a \in Seq(A), NEW b \in Seq(A), NEW L
    PROVE  IsOrdered(a \o b, L) <=>
              /\ IsOrdered(a, L) /\ IsOrdered(b, L)
              /\ \A x \in ToSet(a), y \in ToSet(b) : <<x, y>> \in L
<1> DEFINE s == a \o b
<1>1. /\ s \in Seq(A) /\ Len(a) \in Nat /\ Len(b) \in Nat /\ Len(s) = Len(a) + Len(b)
      /\ DOMAIN a = 1..Len(a) /\ DOMAIN b = 1..Len(b) /\ DOMAIN s = 1..(Len(a) + Len(b))
      /\ \A k \in DOMAIN a : s[k] = a[k]
      /\ \A k \in DOMAIN b : s[Len(a) + k] = b[k]
  OBVIOUS
<1> HIDE DEF s
<1>2. ASSUME IsOrdered(s, L)
      PROVE  /\ IsOrdered(a, L) /\ IsOrdered(b, L)
             /\ \A x \in ToSet(a), y \in ToSet(b) : <<x, y>> \in L
  <2>1. ASSUME NEW i \in DOMAIN a, NEW j \in DOMAIN a, i < j
        PROVE  <<a[i], a[j]>> \in L
    <3>1. i \in DOMAIN s /\ j \in DOMAIN s
      BY <1>1
    <3>2. <<s[i], s[j]>> \in L
      BY <1>2, <2>1, <3>1 DEF IsOrdered
    <3>3. s[i] = a[i] /\ s[j] = a[j]
      BY <1>1
    <3> QED
      BY <3>2, <3>3
  <2>2. ASSUME NEW i \in DOMAIN b, NEW j \in DOMAIN b, i < j
        PROVE  <<b[i], b[j]>> \in L
    <3>1. Len(a) + i \in DOMAIN s /\ Len(a) + j \in DOMAIN s /\ Len(a) + i < Len(a) + j
      BY <1>1, <2>2
    <3>2. <<s[Len(a) + i], s[Len(a) + j]>> \in L
      BY <1>2, <3>1 DEF IsOrdered
    <3>3. s[Len(a) + i] = b[i] /\ s[Len(a) + j] = b[j]
      BY <1>1
    <3> QED
      BY <3>2, <3>3
  <2>3. ASSUME NEW x \in ToSet(a), NEW y \in ToSet(b)
        PROVE  <<x, y>> \in L
    <3>1. PICK i \in DOMAIN a : x = a[i]
      BY DEF ToSet
    <3>2. PICK j \in DOMAIN b : y = b[j]
      BY DEF ToSet
    <3>3. i \in DOMAIN s /\ Len(a) + j \in DOMAIN s /\ i < Len(a) + j
      BY <1>1
    <3>4. <<s[i], s[Len(a) + j]>> \in L
      BY <1>2, <3>3 DEF IsOrdered
    <3>5. s[i] = x /\ s[Len(a) + j] = y
      BY <1>1, <3>1, <3>2
    <3> QED
      BY <3>4, <3>5
  <2> QED
    BY <2>1, <2>2, <2>3 DEF IsOrdered
<1>3. ASSUME IsOrdered(a, L), IsOrdered(b, L),
             \A x \in ToSet(a), y \in ToSet(b) : <<x, y>> \in L
      PROVE  IsOrdered(s, L)
  <2>1. SUFFICES ASSUME NEW i \in DOMAIN s, NEW j \in DOMAIN s, i < j
                 PROVE  <<s[i], s[j]>> \in L
    BY DEF IsOrdered
  <2>2. CASE j <= Len(a)
    <3>1. i \in DOMAIN a /\ j \in DOMAIN a
      BY <1>1, <2>1, <2>2
    <3>2. <<a[i], a[j]>> \in L
      BY <1>3, <2>1, <3>1 DEF IsOrdered
    <3> QED
      BY <1>1, <3>1, <3>2
  <2>3. CASE i > Len(a)
    <3>1. i - Len(a) \in DOMAIN b /\ j - Len(a) \in DOMAIN b /\ i - Len(a) < j - Len(a)
      BY <1>1, <2>1, <2>3
    <3>2. <<b[i - Len(a)], b[j - Len(a)]>> \in L
      BY <1>3, <3>1 DEF IsOrdered
    <3>3. s[Len(a) + (i - Len(a))] = b[i - Len(a)] /\ s[Len(a) + (j - Len(a))] = b[j - Len(a)]
      BY <1>1, <3>1
    <3>4. Len(a) + (i - Len(a)) = i /\ Len(a) + (j - Len(a)) = j
      BY <1>1
    <3> QED
      BY <3>2, <3>3, <3>4
  <2>4. CASE i <= Len(a) /\ j > Len(a)
    <3>1. i \in DOMAIN a /\ j - Len(a) \in DOMAIN b
      BY <1>1, <2>4
    <3>2. <<a[i], b[j - Len(a)]>> \in L
      BY <1>3, <3>1 DEF ToSet
    <3>3. s[i] = a[i] /\ s[Len(a) + (j - Len(a))] = b[j - Len(a)]
      BY <1>1, <3>1
    <3>4. Len(a) + (j - Len(a)) = j
      BY <1>1
    <3> QED
      BY <3>2, <3>3, <3>4
  <2> QED
    BY <1>1, <2>2, <2>3, <2>4
<1> QED
  BY <1>2, <1>3 DEF s

\* One element, an element more, and none.
LEMMA One ==
    ASSUME NEW A, NEW x \in A
    PROVE  <<x>> \in Seq(A) /\ ToSet(<<x>>) = {x} /\ \A L : IsOrdered(<<x>>, L)
<1>1. <<x>> \in Seq(A) /\ DOMAIN <<x>> = {1} /\ <<x>>[1] = x
  OBVIOUS
<1> QED
  BY <1>1 DEF ToSet, IsOrdered

\* Appending is putting a sequence of one behind.
LEMMA OneMore ==
    ASSUME NEW A, NEW a \in Seq(A), NEW x \in A
    PROVE  Append(a, x) = a \o <<x>>
OBVIOUS

\* The same, behind two sequences.
LEMMA JoinedMore ==
    ASSUME NEW A, NEW a \in Seq(A), NEW b \in Seq(A), NEW x \in A
    PROVE  a \o Append(b, x) = (a \o b) \o <<x>>
OBVIOUS

\* The empty sequence is in any order.
LEMMA NoneIsOrdered ==
    ASSUME NEW A
    PROVE  <<>> \in Seq(A) /\ ToSet(<<>>) = {} /\ \A L : IsOrdered(<<>>, L)
<1>1. DOMAIN <<>> = {}
  OBVIOUS
<1> QED
  BY <1>1 DEF ToSet, IsOrdered

-----------------------------------------------------------------------------
(***************************************************************************)
(* Lines of Nagios: what PerfdataLine's parsers make of what its templates *)
(* write for a check.                                                      *)
(***************************************************************************)
\* What ChecksAssumption says of one check.
LEMMA CheckIsPlain ==
    ASSUME NEW c \in Checks
    PROVE  /\ c.host \in Seq(Words) /\ c.service \in Seq(Words) /\ c.output \in Seq(Words)
           /\ c.perf \in Seq(Words) /\ c.command \in Seq(Words) /\ c.arguments \in Seq(Words)
           /\ c.state \in 0..3 /\ c.time \in 0..9
           /\ \A k \in DOMAIN c.host : c.host[k] # "\t"
           /\ \A k \in DOMAIN c.service : c.service[k] # "\t"
           /\ \A k \in DOMAIN c.output : c.output[k] # "\t"
           /\ \A k \in DOMAIN c.perf : c.perf[k] # "\t"
           /\ \A k \in DOMAIN c.command : c.command[k] # "\t" /\ c.command[k] # "!"
           /\ \A k \in DOMAIN c.arguments : c.arguments[k] # "\t"
           /\ c.perf # <<>> => c.perf[Len(c.perf)] \notin Blanks
           /\ c.command \o c.arguments # <<>> =>
                 (c.command \o c.arguments)[Len(c.command \o c.arguments)] \notin Blanks
           /\ c.arguments # <<>> => c.arguments[1] = "!"
<1>1. c \in Check
  BY ChecksAssumption
<1>2. /\ Lacks({c.host, c.service, c.output, c.perf, c.command, c.arguments}, "\t")
      /\ ~EndsBlank(c.perf) /\ ~EndsBlank(c.command \o c.arguments)
      /\ Lacks({c.command}, "!") /\ (c.arguments # <<>> => Head(c.arguments) = "!")
  BY ChecksAssumption
<1>3. /\ c.host \in Seq(Words) /\ c.service \in Seq(Words) /\ c.output \in Seq(Words)
      /\ c.perf \in Seq(Words) /\ c.command \in Seq(Words) /\ c.arguments \in Seq(Words)
      /\ c.state \in 0..3 /\ c.time \in 0..9
  BY <1>1 DEF Check
<1>4. ASSUME NEW s, NEW x, NEW T, s \in T, Lacks(T, x)
      PROVE  \A k \in DOMAIN s : s[k] # x
  BY <1>4 DEF Lacks, ToSet
<1>5. /\ \A k \in DOMAIN c.host : c.host[k] # "\t"
      /\ \A k \in DOMAIN c.service : c.service[k] # "\t"
      /\ \A k \in DOMAIN c.output : c.output[k] # "\t"
      /\ \A k \in DOMAIN c.perf : c.perf[k] # "\t"
      /\ \A k \in DOMAIN c.command : c.command[k] # "\t"
      /\ \A k \in DOMAIN c.command : c.command[k] # "!"
      /\ \A k \in DOMAIN c.arguments : c.arguments[k] # "\t"
  <2> DEFINE T == {c.host, c.service, c.output, c.perf, c.command, c.arguments}
  <2>1. c.host \in T /\ c.service \in T /\ c.output \in T /\ c.perf \in T /\ c.command \in T
        /\ c.arguments \in T /\ c.command \in {c.command}
    OBVIOUS
  <2>2. Lacks(T, "\t") /\ Lacks({c.command}, "!")
    BY <1>2
  <2> HIDE DEF T
  <2> QED
    BY <1>4, <2>1, <2>2
<1>6. c.arguments # <<>> => c.arguments[1] = "!"
  BY <1>2, <1>3
<1>7. c.perf # <<>> => c.perf[Len(c.perf)] \notin Blanks
  BY <1>2 DEF EndsBlank, Last
<1>8. c.command \o c.arguments # <<>> =>
         (c.command \o c.arguments)[Len(c.command \o c.arguments)] \notin Blanks
  BY <1>2 DEF EndsBlank, Last
<1> QED
  BY <1>3, <1>5, <1>6, <1>7, <1>8

\* The words of a line: the check's, the templates', and Nagios' states and times.
TemplateWords ==
    {"\t", "::", "[HOSTPERFDATA]", "[SERVICEPERFDATA]", "DATATYPE", "TIMET", "HOSTNAME",
     "SERVICEDESC", "HOSTSTATE", "HOSTOUTPUT", "HOSTPERFDATA", "HOSTCHECKCOMMAND",
     "SERVICESTATE", "SERVICEOUTPUT", "SERVICEPERFDATA", "SERVICECHECKCOMMAND"}
StateWords == {"UP", "DOWN", "UNREACHABLE", "OK", "WARNING", "CRITICAL", "UNKNOWN"}
TimeWords == {"0", "1", "2", "3", "4", "5", "6", "7", "8", "9"}
LineWords == Words \cup TemplateWords \cup StateWords \cup TimeWords

\* One word that is not a blank is not trimmed.
LEMMA TrimOneWord ==
    ASSUME NEW w, w \notin Blanks
    PROVE  TrimSpace(<<w>>) = <<w>>
<1>1. <<w>> \in Seq({w}) /\ <<w>> # <<>> /\ Len(<<w>>) = 1 /\ <<w>>[1] = w
  OBVIOUS
<1> QED
  BY <1>1, TrimUnchanged DEF TrimSpace

\* The state that parseNagiosState reads is the check's, except for a host's warning.
LEMMA StateIsRead ==
    ASSUME NEW c \in Checks, NEW isHost \in BOOLEAN
    PROVE  /\ NagiosState(StateName(c, isHost)) =
                 IF isHost /\ c.state = 1 THEN 0 ELSE c.state
           /\ \E w \in LineWords : StateName(c, isHost) = <<w>> /\ w # "\t"
<1>1. c.state \in {0, 1, 2, 3}
  <2>1. c.state \in 0..3
    BY CheckIsPlain
  <2> QED
    BY <2>1
<1> DEFINE w == (IF isHost THEN HostStates ELSE ServiceStates)[c.state + 1]
<1>2. /\ isHost => w = IF c.state \in {0, 1} THEN "UP"
                       ELSE IF c.state = 2 THEN "DOWN" ELSE "UNREACHABLE"
      /\ ~isHost => w = IF c.state = 0 THEN "OK" ELSE IF c.state = 1 THEN "WARNING"
                        ELSE IF c.state = 2 THEN "CRITICAL" ELSE "UNKNOWN"
  BY <1>1 DEF HostStates, ServiceStates
<1>3. StateName(c, isHost) = <<w>>
  BY DEF StateName
<1> HIDE DEF w
<1>4. w \in LineWords /\ w \notin Blanks
  <2>1. \/ w = "UP" \/ w = "DOWN" \/ w = "UNREACHABLE"
        \/ w = "OK" \/ w = "WARNING" \/ w = "CRITICAL" \/ w = "UNKNOWN"
    BY <1>1, <1>2
  <2>2. w \in LineWords
    BY <2>1 DEF LineWords, StateWords
  <2>3. w # " " /\ w # "\t"
    BY <2>1
  <2> QED
    BY <2>2, <2>3 DEF Blanks
<1>5. TrimSpace(<<w>>) = <<w>>
  BY <1>4, TrimOneWord
<1>6. \A x : (TrimSpace(<<w>>) = <<x>>) <=> (w = x)
  BY <1>5
<1>7. NagiosState(<<w>>) = IF w \in {"OK", "UP", "0"} THEN 0
                           ELSE IF w \in {"WARNING", "1"} THEN 1
                           ELSE IF w \in {"CRITICAL", "DOWN", "2"} THEN 2 ELSE 3
  BY <1>6 DEF NagiosState
<1>8. NagiosState(<<w>>) = IF isHost /\ c.state = 1 THEN 0 ELSE c.state
  BY <1>1, <1>2, <1>7
<1>9. w # "\t"
  BY <1>4 DEF Blanks
<1> QED
  BY <1>3, <1>4, <1>8, <1>9

\* And the time is the check's.
LEMMA TimeIsRead ==
    ASSUME NEW c \in Checks
    PROVE  /\ Timet(Second(c)) = c.time
           /\ \E w \in LineWords : Second(c) = <<w>> /\ w # "\t"
<1>1. c.time \in 0..9
  BY CheckIsPlain
<1> DEFINE w == Digit[c.time + 1]
<1>2. \A n \in 0..9 : /\ Digit[n + 1] \in LineWords /\ Digit[n + 1] \notin Blanks
                      /\ \A k \in 0..9 : Digit[n + 1] = Digit[k + 1] => n = k
  <2>1. \A n \in 0..9 : n = 0 \/ n = 1 \/ n = 2 \/ n = 3 \/ n = 4
                        \/ n = 5 \/ n = 6 \/ n = 7 \/ n = 8 \/ n = 9
    OBVIOUS
  <2>2. /\ Digit[0 + 1] = "0" /\ Digit[1 + 1] = "1" /\ Digit[2 + 1] = "2"
        /\ Digit[3 + 1] = "3" /\ Digit[4 + 1] = "4" /\ Digit[5 + 1] = "5"
        /\ Digit[6 + 1] = "6" /\ Digit[7 + 1] = "7" /\ Digit[8 + 1] = "8"
        /\ Digit[9 + 1] = "9"
    BY DEF Digit
  <2>3. \A n \in 0..9 : Digit[n + 1] # " " /\ Digit[n + 1] # "\t"
    BY <2>1, <2>2
  <2>4. \A n, k \in 0..9 : Digit[n + 1] = Digit[k + 1] => n = k
    BY <2>1, <2>2
  <2>5. \A n \in 0..9 : Digit[n + 1] \in LineWords
    BY <2>1, <2>2 DEF LineWords, TimeWords
  <2> QED
    BY <2>3, <2>4, <2>5 DEF Blanks
<1>3. w \in LineWords /\ w \notin Blanks
  BY <1>1, <1>2
<1>4. TrimSpace(<<w>>) = <<w>>
  BY <1>3, TrimOneWord
<1>5. \A n \in 0..9 : (TrimSpace(<<w>>) = <<Digit[n + 1]>>) <=> (n = c.time)
  <2>1. \A x : (<<w>> = <<x>>) <=> (w = x)
    OBVIOUS
  <2> QED
    BY <1>1, <1>2, <1>4, <2>1
<1>6. (CHOOSE n \in 0..9 : TrimSpace(<<w>>) = <<Digit[n + 1]>>) = c.time
  BY <1>1, <1>5
<1>7. Timet(<<w>>) = c.time
  BY <1>1, <1>5, <1>6 DEF Timet
<1>8. Second(c) = <<w>>
  BY DEF Second
<1>9. w # "\t"
  BY <1>3 DEF Blanks
<1> QED
  BY <1>3, <1>7, <1>8, <1>9

\* Texts of a check are texts of words of a line.
LEMMA CheckTextsInLine ==
    ASSUME NEW s \in Seq(Words)
    PROVE  s \in Seq(LineWords)
<1>1. Words \subseteq LineWords
  BY DEF LineWords
<1> HIDE DEF LineWords
<1> QED
  BY <1>1

NoTab(s) == \A k \in DOMAIN s : s[k] # "\t"

\* The default template puts the perfdata behind fields without tabs.
LEMMA DefaultFieldsAre ==
    ASSUME NEW c \in Checks, NEW isHost \in BOOLEAN
    PROVE  \E front \in Seq(Seq(LineWords)) :
              /\ DefaultFields(c, isHost) = Append(front, c.perf)
              /\ Len(front) = IF isHost THEN 5 ELSE 6
              /\ \A i \in DOMAIN front : NoTab(front[i])
              /\ front[1] = <<IF isHost THEN "[HOSTPERFDATA]" ELSE "[SERVICEPERFDATA]">>
              /\ front[2] = Second(c) /\ front[3] = c.host
              /\ isHost => front[4] = StateName(c, isHost) /\ front[5] = c.output
              /\ ~isHost => /\ front[4] = c.service /\ front[5] = StateName(c, isHost)
                            /\ front[6] = c.output
<1> DEFINE state == StateName(c, isHost)
           time == Second(c)
           prefix == <<IF isHost THEN "[HOSTPERFDATA]" ELSE "[SERVICEPERFDATA]">>
           T == Seq(LineWords)
<1>1. /\ c.host \in T /\ c.service \in T /\ c.output \in T /\ c.perf \in T
      /\ NoTab(c.host) /\ NoTab(c.service) /\ NoTab(c.output) /\ NoTab(c.perf)
  BY CheckIsPlain, CheckTextsInLine DEF NoTab
<1>2. ASSUME NEW w \in LineWords, w # "\t"
      PROVE  <<w>> \in T /\ NoTab(<<w>>)
  BY <1>2 DEF NoTab
<1>3. state \in T /\ NoTab(state)
  BY <1>2, StateIsRead
<1>4. time \in T /\ NoTab(time)
  BY <1>2, TimeIsRead
<1>5. prefix \in T /\ NoTab(prefix)
  <2>1. /\ "[HOSTPERFDATA]" \in LineWords /\ "[HOSTPERFDATA]" # "\t"
        /\ "[SERVICEPERFDATA]" \in LineWords /\ "[SERVICEPERFDATA]" # "\t"
    BY DEF LineWords, TemplateWords
  <2> QED
    BY <1>2, <2>1
<1>6. CASE isHost
  <2>1. DefaultFields(c, isHost) = <<prefix, time, c.host, state, c.output, c.perf>>
    BY <1>6 DEF DefaultFields
  <2> HIDE DEF T, state, time, prefix
  <2> DEFINE front == <<prefix, time, c.host, state, c.output>>
  <2>2. /\ front \in Seq(T) /\ Len(front) = 5
        /\ <<prefix, time, c.host, state, c.output, c.perf>> = Append(front, c.perf)
    BY <1>1, <1>3, <1>4, <1>5
  <2>3. \A i \in DOMAIN front : NoTab(front[i])
    BY <1>1, <1>3, <1>4, <1>5
  <2>4. /\ front[1] = prefix /\ front[2] = time /\ front[3] = c.host
        /\ front[4] = state /\ front[5] = c.output
    OBVIOUS
  <2> HIDE DEF front
  <2> QED
    BY <1>6, <2>1, <2>2, <2>3, <2>4 DEF T, state, time, prefix
<1>7. CASE ~isHost
  <2>1. DefaultFields(c, isHost) = <<prefix, time, c.host, c.service, state, c.output, c.perf>>
    BY <1>7 DEF DefaultFields
  <2> HIDE DEF T, state, time, prefix
  <2> DEFINE front == <<prefix, time, c.host, c.service, state, c.output>>
  <2>2. /\ front \in Seq(T) /\ Len(front) = 6
        /\ <<prefix, time, c.host, c.service, state, c.output, c.perf>> = Append(front, c.perf)
    BY <1>1, <1>3, <1>4, <1>5
  <2>3. \A i \in DOMAIN front : NoTab(front[i])
    BY <1>1, <1>3, <1>4, <1>5
  <2>4. /\ front[1] = prefix /\ front[2] = time /\ front[3] = c.host
        /\ front[4] = c.service /\ front[5] = state /\ front[6] = c.output
    OBVIOUS
  <2> HIDE DEF front
  <2> QED
    BY <1>7, <2>1, <2>2, <2>3, <2>4 DEF T, state, time, prefix
<1> QED
  BY <1>6, <1>7

\* What parseDefaultLine and parseDefaultHostLine make of a line by its parts.
LEMMA DefaultByParts ==
    ASSUME NEW line, NEW isHost \in BOOLEAN, NEW parts, parts = Split(line, "\t"),
           Head(line) = IF isHost THEN "[HOSTPERFDATA]" ELSE "[SERVICEPERFDATA]",
           Len(parts) = IF isHost THEN 6 ELSE 7
    PROVE  ParseDefault(line, isHost) =
              IF isHost
                THEN <<Result(parts[3], HostCheck, parts[4], parts[5], parts[6], parts[2], <<>>)>>
                ELSE <<Result(parts[3], parts[4], parts[5], parts[6], parts[7], parts[2], <<>>)>>
<1>1. CASE isHost
  BY <1>1 DEF ParseDefault
<1>2. CASE ~isHost
  BY <1>2 DEF ParseDefault
<1> QED
  BY <1>1, <1>2

\* In the default layout, a check with perfdata comes back as it was written.
LEMMA DefaultLineParses ==
    ASSUME NEW c \in Checks, NEW isHost \in BOOLEAN, NEW f, f # "pnp4nagios", c.perf # <<>>
    PROVE  ParseLine(NagiosLine(f, c, isHost), f, isHost) = <<Meaning(f, c, isHost)>>
<1> DEFINE T == Seq(LineWords)
<1>1. PICK front \in Seq(T) :
              /\ DefaultFields(c, isHost) = Append(front, c.perf)
              /\ Len(front) = IF isHost THEN 5 ELSE 6
              /\ \A i \in DOMAIN front : NoTab(front[i])
              /\ front[1] = <<IF isHost THEN "[HOSTPERFDATA]" ELSE "[SERVICEPERFDATA]">>
              /\ front[2] = Second(c) /\ front[3] = c.host
              /\ isHost => front[4] = StateName(c, isHost) /\ front[5] = c.output
              /\ ~isHost => /\ front[4] = c.service /\ front[5] = StateName(c, isHost)
                            /\ front[6] = c.output
  BY DefaultFieldsAre
<1>2. /\ c.perf \in T /\ NoTab(c.perf) /\ c.perf[Len(c.perf)] \notin Blanks
      /\ "\t" \in LineWords
  <2>1. "\t" \in LineWords
    BY DEF LineWords, TemplateWords
  <2> QED
    BY <2>1, CheckIsPlain, CheckTextsInLine DEF NoTab
<1> DEFINE parts == Append(front, c.perf)
           line == Join(parts, "\t")
           prefix == IF isHost THEN "[HOSTPERFDATA]" ELSE "[SERVICEPERFDATA]"
<1>3. NagiosLine(f, c, isHost) = line
  BY <1>1 DEF NagiosLine
<1> HIDE DEF T
<1>4. /\ parts \in Seq(T) /\ parts # <<>> /\ Len(parts) = Len(front) + 1
      /\ \A i \in DOMAIN front : parts[i] = front[i]
      /\ parts[Len(front) + 1] = c.perf /\ front # <<>> /\ DOMAIN front = 1..Len(front)
  <2>1. Len(front) # 0
    BY <1>1
  <2>2. front # <<>>
    BY <1>1, <2>1
  <2>3. front \in Seq(T) /\ c.perf \in T
    BY <1>1, <1>2
  <2> QED
    BY <2>2, <2>3, Appended
<1>5. \A i \in DOMAIN parts : NoTab(parts[i])
  BY <1>1, <1>2, <1>4
<1>6. parts[1] = <<prefix>>
  BY <1>1, <1>4
<1> HIDE DEF parts
<1>7. Split(line, "\t") = parts
  BY <1>2, <1>4, <1>5, SplitOfJoin DEF T, NoTab
<1>8. line \in T /\ line # <<>> /\ line[1] = prefix
  <2>1. parts[1] # <<>> /\ parts[1][1] = prefix
    BY <1>6
  <2>2. line # <<>> /\ line[1] = parts[1][1]
    BY <1>2, <1>4, <2>1, JoinBegins DEF T
  <2>3. line \in T
    BY <1>2, <1>4, JoinType DEF T
  <2> QED
    BY <2>1, <2>2, <2>3
<1>9. line[Len(line)] = c.perf[Len(c.perf)]
  BY <1>1, <1>2, <1>4, JoinEnds DEF T, parts
<1> HIDE DEF line
<1>10. prefix \notin Blanks
  BY DEF Blanks
<1>11. TrimSpace(line) = line
  BY <1>2, <1>8, <1>9, <1>10, TrimUnchanged DEF T, TrimSpace
<1>12. ParseLine(line, f, isHost) = ParseDefault(line, isHost)
  BY <1>8, <1>11 DEF ParseLine
<1>13. Head(line) = prefix
  BY <1>8 DEF T
<1>14. Len(parts) = IF isHost THEN 6 ELSE 7
  BY <1>1, <1>4
<1>15. ParseDefault(line, isHost) =
           IF isHost
             THEN <<Result(parts[3], HostCheck, parts[4], parts[5], parts[6], parts[2], <<>>)>>
             ELSE <<Result(parts[3], parts[4], parts[5], parts[6], parts[7], parts[2], <<>>)>>
  BY <1>7, <1>13, <1>14, DefaultByParts
<1>16. CASE isHost
  <2>1. /\ parts[3] = c.host /\ parts[4] = StateName(c, isHost) /\ parts[5] = c.output
        /\ parts[6] = c.perf /\ parts[2] = Second(c)
    <3>1. Len(front) = 5 /\ DOMAIN front = 1..5
      BY <1>1, <1>4, <1>16
    <3>2. /\ parts[2] = front[2] /\ parts[3] = front[3] /\ parts[4] = front[4]
          /\ parts[5] = front[5] /\ parts[5 + 1] = c.perf
      BY <1>4, <3>1
    <3>3. front[4] = StateName(c, isHost) /\ front[5] = c.output
      BY <1>1, <1>16
    <3>4. parts[6] = c.perf
      BY <3>2
    <3> QED
      BY <1>1, <3>2, <3>3, <3>4
  <2>2. Result(c.host, HostCheck, StateName(c, isHost), c.output, c.perf, Second(c), <<>>)
           = Meaning(f, c, isHost)
    BY <1>16, StateIsRead, TimeIsRead DEF Result, Meaning
  <2> QED
    BY <1>3, <1>12, <1>15, <1>16, <2>1, <2>2
<1>17. CASE ~isHost
  <2>1. /\ parts[3] = c.host /\ parts[4] = c.service /\ parts[5] = StateName(c, isHost)
        /\ parts[6] = c.output /\ parts[7] = c.perf /\ parts[2] = Second(c)
    <3>1. Len(front) = 6 /\ DOMAIN front = 1..6
      BY <1>1, <1>4, <1>17
    <3>2. /\ parts[2] = front[2] /\ parts[3] = front[3] /\ parts[4] = front[4]
          /\ parts[5] = front[5] /\ parts[6] = front[6] /\ parts[6 + 1] = c.perf
      BY <1>4, <3>1
    <3> QED
      BY <1>1, <1>17, <3>2
  <2>2. Result(c.host, c.service, StateName(c, isHost), c.output, c.perf, Second(c), <<>>)
           = Meaning(f, c, isHost)
    BY <1>17, StateIsRead, TimeIsRead DEF Result, Meaning
  <2> QED
    BY <1>3, <1>12, <1>15, <1>17, <2>1, <2>2
<1> QED
  BY <1>16, <1>17

\* Without perfdata it is lost: a line that ends in a tab loses its last field.
LEMMA DefaultLineLost ==
    ASSUME NEW c \in Checks, NEW isHost \in BOOLEAN, NEW f, f # "pnp4nagios", c.perf = <<>>
    PROVE  ParseLine(NagiosLine(f, c, isHost), f, isHost) = <<>>
<1> DEFINE T == Seq(LineWords)
<1>1. PICK front \in Seq(T) :
              /\ DefaultFields(c, isHost) = Append(front, c.perf)
              /\ Len(front) = IF isHost THEN 5 ELSE 6
              /\ \A i \in DOMAIN front : NoTab(front[i])
              /\ front[1] = <<IF isHost THEN "[HOSTPERFDATA]" ELSE "[SERVICEPERFDATA]">>
  BY DefaultFieldsAre
<1>2. "\t" \in LineWords /\ "\t" \in Blanks /\ front # <<>>
  BY <1>1 DEF LineWords, TemplateWords, Blanks
<1> DEFINE whole == Join(front, "\t")
           text == whole \o <<"\t">> \o <<>>
           line == TrimSpace(text)
<1>3. NagiosLine(f, c, isHost) = text
  <2>1. <<>> \in Seq(LineWords)
    OBVIOUS
  <2>2. Join(Append(front, <<>>), "\t") = text
    BY <1>2, <2>1, JoinMore
  <2> QED
    BY <1>1, <2>2 DEF NagiosLine
<1>4. Split(whole, "\t") = front
  BY <1>1, <1>2, SplitOfJoin DEF NoTab
<1>5. whole \in T
  BY <1>2, JoinType
<1> HIDE DEF whole
<1>6. /\ text \in T /\ Len(text) = Len(whole) + 1 /\ Len(whole) \in Nat
      /\ text[Len(text)] = "\t" /\ \A k \in DOMAIN whole : text[k] = whole[k]
      /\ DOMAIN text = 1..Len(text)
  BY <1>2, <1>5
<1> HIDE DEF text
<1>7. Len(Split(line, "\t")) < (IF isHost THEN 6 ELSE 7) \/ line = <<>>
  <2>1. PICK a \in 1..(Len(text) + 1) : \E b \in (a - 1)..Len(text) :
              /\ line = SubSeq(text, a, b)
              /\ a <= b => text[a] \notin Blanks /\ text[b] \notin Blanks
    BY <1>6, TrimIsStretch DEF TrimSpace
  <2>2. PICK b \in (a - 1)..Len(text) :
              /\ line = SubSeq(text, a, b)
              /\ a <= b => text[a] \notin Blanks /\ text[b] \notin Blanks
    BY <2>1
  <2> HIDE DEF line
  <2>3. CASE a > b
    <3>1. line = <<>>
      BY <1>6, <2>2, <2>3
    <3> QED
      BY <3>1
  <2>4. CASE a <= b
    <3>1. b # Len(text)
      BY <1>2, <1>6, <2>2, <2>4
    <3>2. a \in 1..(Len(whole) + 1) /\ b \in (a - 1)..Len(whole)
      BY <1>6, <2>4, <3>1
    <3>3. SubSeq(text, a, b) = SubSeq(whole, a, b)
      <4>1. \A k \in a..b : text[k] = whole[k]
        <5>1. DOMAIN whole = 1..Len(whole)
          BY <1>5
        <5>2. \A k \in a..b : k \in 1..Len(whole)
          BY <1>6, <3>2
        <5> QED
          BY <1>6, <5>1, <5>2
      <4> QED
        BY <1>5, <1>6, <3>2, <4>1
    <3>4. Len(Split(line, "\t")) <= Len(front)
      BY <1>4, <1>5, <2>2, <3>2, <3>3, SplitOfStretch
    <3>5. line \in T
      BY <1>5, <2>2, <3>2, <3>3
    <3>6. Split(line, "\t") \in Seq(T)
      BY <3>5, SplitType
    <3>7. Len(Split(line, "\t")) \in Nat
      BY <3>6
    <3> QED
      BY <1>1, <3>4, <3>7
  <2> QED
    BY <1>6, <2>3, <2>4
<1> HIDE DEF line
<1>8. ParseLine(text, f, isHost) = IF line = <<>> THEN <<>> ELSE ParseDefault(line, isHost)
  BY DEF ParseLine, line
<1>9. line # <<>> => ParseDefault(line, isHost) = <<>>
  <2>1. SUFFICES ASSUME Len(Split(line, "\t")) < (IF isHost THEN 6 ELSE 7)
                 PROVE  ParseDefault(line, isHost) = <<>>
    BY <1>7
  <2>2. CASE isHost
    BY <2>1, <2>2 DEF ParseDefault
  <2>3. CASE ~isHost
    BY <2>1, <2>3 DEF ParseDefault
  <2> QED
    BY <2>2, <2>3
<1> QED
  BY <1>3, <1>8, <1>9

\* One pair, taken apart as parsePNP4NagiosFields does.
LEMMA PairTakenApart ==
    ASSUME NEW W, "::" \in W, NEW key \in W, key # "::", NEW value \in Seq(W)
    PROVE  LET pair == Named(key, value)
           IN  /\ pair \in Seq(W) /\ pair # <<>> /\ pair[1] = key
               /\ Contains(pair, "::") /\ Before(pair, "::") = <<key>>
               /\ Value(pair) = value
<1> DEFINE pair == Named(key, value)
<1>1. pair = <<key>> \o <<"::">> \o value
  <2>1. <<key, "::">> = <<key>> \o <<"::">>
    OBVIOUS
  <2> QED
    BY <2>1 DEF Named
<1>2. <<key>> \in Seq(W) /\ \A k \in DOMAIN <<key>> : <<key>>[k] # "::"
  OBVIOUS
<1>3. Before(pair, "::") = <<key>> /\ After(pair, "::") = value
  BY <1>1, <1>2, BeforeAndAfter
<1>4. pair \in Seq(W) /\ Len(pair) = Len(value) + 2 /\ pair[1] = key /\ pair[2] = "::"
  BY DEF Named
<1>5. pair # <<>> /\ 2 \in 1..Len(pair)
  BY <1>4
<1>6. Contains(pair, "::")
  BY <1>4, <1>5 DEF Contains
<1> QED
  BY <1>3, <1>4, <1>5, <1>6 DEF Value

\* A line of pairs with different keys gives each key its value.
ArePairs(W, parts, keys, values) ==
    /\ \A k \in DOMAIN parts :
          /\ keys[k] \in W /\ keys[k] # "::" /\ values[k] \in Seq(W)
          /\ parts[k] = Named(keys[k], values[k])
    /\ \A j, k \in DOMAIN parts : keys[j] = keys[k] => j = k

Gives(fields, key, value) == <<key>> \in DOMAIN fields /\ fields[<<key>>] = value

\* The pairs of a line are what the parsers find in it.
LEMMA PairsAreFields ==
    ASSUME NEW W, "::" \in W, NEW parts \in Seq(Seq(W)), NEW keys, NEW values,
           ArePairs(W, parts, keys, values),
           NEW line, Split(line, "\t") = parts
    PROVE  \A k \in DOMAIN parts : Gives(Pnp4nagiosFields(line), keys[k], values[k])
<1> DEFINE pairs == {k \in DOMAIN parts : Contains(parts[k], "::")}
           key(k) == Before(parts[k], "::")
           last(k) == \A j \in pairs : key(j) = key(k) => j <= k
           chosen(x) == CHOOSE k \in pairs : key(k) = x /\ last(k)
<1>1. \A k \in DOMAIN parts : /\ Contains(parts[k], "::") /\ key(k) = <<keys[k]>>
                              /\ Value(parts[k]) = values[k]
  BY PairTakenApart DEF ArePairs
<1>2. pairs = DOMAIN parts
  BY <1>1
<1>3. Pnp4nagiosFields(line) = [x \in {key(k) : k \in pairs} |-> Value(parts[chosen(x)])]
  <2> DEFINE FieldsOf(ps) ==
               LET ks == {k \in DOMAIN ps : Contains(ps[k], "::")}
                   keyIn(k) == Before(ps[k], "::")
                   lastIn(k) == \A j \in ks : keyIn(j) = keyIn(k) => j <= k
               IN  [x \in {keyIn(k) : k \in ks} |->
                       Value(ps[CHOOSE k \in ks : keyIn(k) = x /\ lastIn(k)])]
  <2>1. Pnp4nagiosFields(line) = FieldsOf(Split(line, "\t"))
    BY DEF Pnp4nagiosFields
  <2>2. FieldsOf(parts) = [x \in {key(k) : k \in pairs} |-> Value(parts[chosen(x)])]
    OBVIOUS
  <2>3. Split(line, "\t") = parts
    OBVIOUS
  <2> HIDE DEF FieldsOf
  <2>4. FieldsOf(Split(line, "\t")) = FieldsOf(parts)
    BY <2>3
  <2> HIDE DEF key, pairs, chosen
  <2> QED
    BY <2>1, <2>2, <2>4
<1>4. {key(k) : k \in pairs} = {<<keys[k]>> : k \in DOMAIN parts}
  BY <1>1, <1>2
<1>5. ASSUME NEW k \in DOMAIN parts
      PROVE  chosen(<<keys[k]>>) = k
  <2>1. \A j \in DOMAIN parts : key(j) = <<keys[k]>> => j = k
    <3>1. \A x, y : <<x>> = <<y>> => x = y
      OBVIOUS
    <3> QED
      BY <1>1, <3>1 DEF ArePairs
  <2>2. k \in pairs /\ key(k) = <<keys[k]>>
    BY <1>1, <1>2
  <2>3. last(k)
    <3>1. k \in Nat
      OBVIOUS
    <3>2. \A j \in pairs : key(j) = key(k) => j = k
      BY <1>2, <2>1, <2>2
    <3> QED
      BY <3>1, <3>2
  <2> HIDE DEF pairs, key, last
  <2> QED
    BY <1>2, <2>1, <2>2, <2>3
<1>6. ASSUME NEW k \in DOMAIN parts
      PROVE  Pnp4nagiosFields(line)[<<keys[k]>>] = values[k]
  <2> HIDE DEF chosen, key, pairs
  <2>1. <<keys[k]>> \in {key(j) : j \in pairs}
    BY <1>4
  <2>2. Pnp4nagiosFields(line)[<<keys[k]>>] = Value(parts[chosen(<<keys[k]>>)])
    BY <1>3, <2>1
  <2> QED
    BY <1>1, <1>5, <2>2
<1> HIDE DEF chosen, key, pairs
<1>7. DOMAIN Pnp4nagiosFields(line) = {key(k) : k \in pairs}
  BY <1>3
<1> QED
  BY <1>4, <1>6, <1>7 DEF Gives

\* The command of a check ends where its arguments begin.
LEMMA CommandIsRead ==
    ASSUME NEW c \in Checks
    PROVE  Before(c.command \o c.arguments, "!") = c.command
<1>1. /\ c.command \in Seq(Words) /\ c.arguments \in Seq(Words)
      /\ \A k \in DOMAIN c.command : c.command[k] # "!"
      /\ c.arguments # <<>> => c.arguments[1] = "!"
  BY CheckIsPlain
<1>2. CASE c.arguments = <<>>
  <2>1. c.command \o c.arguments = c.command
    BY <1>1, <1>2
  <2> QED
    BY <1>1, <2>1, BeforeNone
<1>3. CASE c.arguments # <<>>
  <2>1. "!" \in Words /\ Tail(c.arguments) \in Seq(Words)
    BY <1>1, <1>3
  <2> DEFINE first == c.command
             rest == Tail(c.arguments)
             all == c.arguments
  <2>2. first \in Seq(Words) /\ rest \in Seq(Words) /\ all \in Seq(Words)
    BY <1>1, <2>1
  <2>3. all = <<"!">> \o rest
    BY <1>1, <1>3
  <2>4. \A k \in DOMAIN first : first[k] # "!"
    BY <1>1
  <2> HIDE DEF first, rest, all
  <2>5. first \o all = first \o <<"!">> \o rest
    BY <2>2, <2>1, <2>3
  <2>6. Before(first \o all, "!") = first
    BY <2>1, <2>2, <2>4, <2>5, BeforeAndAfter
  <2> QED
    BY <2>6 DEF first, all
<1> QED
  BY <1>2, <1>3

\* Two texts without tabs make one without.
LEMMA NoTabJoined ==
    ASSUME NEW T, NEW a \in Seq(T), NEW b \in Seq(T), NoTab(a), NoTab(b)
    PROVE  a \o b \in Seq(T) /\ NoTab(a \o b)
<1>1. a \o b \in Seq(T)
  OBVIOUS
<1>2. ASSUME NEW k \in DOMAIN (a \o b)
      PROVE  (a \o b)[k] # "\t"
  <2>1. k \in 1..(Len(a) + Len(b)) /\ Len(a) \in Nat /\ Len(b) \in Nat
    OBVIOUS
  <2>2. CASE k <= Len(a)
    <3>1. (a \o b)[k] = a[k] /\ k \in DOMAIN a
      BY <2>1, <2>2
    <3> QED
      BY <3>1 DEF NoTab
  <2>3. CASE k > Len(a)
    <3>1. (a \o b)[k] = b[k - Len(a)] /\ k - Len(a) \in DOMAIN b
      BY <2>1, <2>3
    <3> QED
      BY <3>1 DEF NoTab
  <2> QED
    BY <2>1, <2>2, <2>3
<1> QED
  BY <1>1, <1>2 DEF NoTab

\* A pair of a template without tabs.
LEMMA PairIsPlain ==
    ASSUME NEW key \in TemplateWords, key # "\t", NEW value \in Seq(LineWords), NoTab(value)
    PROVE  Named(key, value) \in Seq(LineWords) /\ NoTab(Named(key, value))
<1>1. key \in LineWords /\ "::" \in LineWords /\ "::" # "\t"
  BY DEF LineWords, TemplateWords
<1> DEFINE head == <<key, "::">>
<1>2. head \in Seq(LineWords) /\ Len(head) = 2 /\ head[1] = key /\ head[2] = "::"
  BY <1>1
<1> HIDE DEF head, LineWords
<1>3. NoTab(head)
  BY <1>1, <1>2 DEF NoTab
<1>4. head \o value \in Seq(LineWords) /\ NoTab(head \o value)
  BY <1>2, <1>3, NoTabJoined
<1> QED
  BY <1>4 DEF Named, head

\* PNP4Nagios' template writes pairs of different keys, without tabs, the command last.
Command(c) == c.command \o c.arguments

\* The values that are written contain no separator.
LEMMA ValuesArePlain ==
    ASSUME NEW c \in Checks, NEW isHost \in BOOLEAN
    PROVE  /\ c.host \in Seq(LineWords) /\ c.service \in Seq(LineWords)
           /\ c.output \in Seq(LineWords) /\ c.perf \in Seq(LineWords)
           /\ Command(c) \in Seq(LineWords) /\ Second(c) \in Seq(LineWords)
           /\ StateName(c, isHost) \in Seq(LineWords)
           /\ <<"HOSTPERFDATA">> \in Seq(LineWords) /\ <<"SERVICEPERFDATA">> \in Seq(LineWords)
           /\ NoTab(c.host) /\ NoTab(c.service) /\ NoTab(c.output) /\ NoTab(c.perf)
           /\ NoTab(Command(c)) /\ NoTab(Second(c)) /\ NoTab(StateName(c, isHost))
           /\ NoTab(<<"HOSTPERFDATA">>) /\ NoTab(<<"SERVICEPERFDATA">>)
<1>1. /\ c.host \in Seq(LineWords) /\ c.service \in Seq(LineWords)
      /\ c.output \in Seq(LineWords) /\ c.perf \in Seq(LineWords)
      /\ NoTab(c.host) /\ NoTab(c.service) /\ NoTab(c.output) /\ NoTab(c.perf)
      /\ c.command \in Seq(LineWords) /\ c.arguments \in Seq(LineWords)
      /\ NoTab(c.command) /\ NoTab(c.arguments)
  BY CheckIsPlain, CheckTextsInLine DEF NoTab
<1>2. Command(c) \in Seq(LineWords) /\ NoTab(Command(c))
  BY <1>1, NoTabJoined DEF Command
<1>3. ASSUME NEW w \in LineWords, w # "\t"
      PROVE  <<w>> \in Seq(LineWords) /\ NoTab(<<w>>)
  BY <1>3 DEF NoTab
<1>4. /\ "HOSTPERFDATA" \in LineWords /\ "HOSTPERFDATA" # "\t"
      /\ "SERVICEPERFDATA" \in LineWords /\ "SERVICEPERFDATA" # "\t"
  BY DEF LineWords, TemplateWords
<1>5. <<"HOSTPERFDATA">> \in Seq(LineWords) /\ NoTab(<<"HOSTPERFDATA">>)
  BY <1>3, <1>4
<1>6. <<"SERVICEPERFDATA">> \in Seq(LineWords) /\ NoTab(<<"SERVICEPERFDATA">>)
  BY <1>3, <1>4
<1>7. StateName(c, isHost) \in Seq(LineWords) /\ NoTab(StateName(c, isHost))
  BY <1>3, StateIsRead
<1>8. Second(c) \in Seq(LineWords) /\ NoTab(Second(c))
  BY <1>3, TimeIsRead
<1> QED
  BY <1>1, <1>2, <1>5, <1>6, <1>7, <1>8

\* The keys and the values of its pairs.
Pnp4nagiosKeys(isHost) ==
    IF isHost
      THEN <<"DATATYPE", "TIMET", "HOSTNAME", "HOSTSTATE", "HOSTOUTPUT", "HOSTPERFDATA",
             "HOSTCHECKCOMMAND">>
      ELSE <<"DATATYPE", "TIMET", "HOSTNAME", "SERVICEDESC", "SERVICESTATE",
             "SERVICEOUTPUT", "SERVICEPERFDATA", "SERVICECHECKCOMMAND">>
Pnp4nagiosValues(c, isHost) ==
    IF isHost
      THEN << <<"HOSTPERFDATA">>, Second(c), c.host, StateName(c, isHost), c.output, c.perf,
             Command(c)>>
      ELSE << <<"SERVICEPERFDATA">>, Second(c), c.host, c.service, StateName(c, isHost),
             c.output, c.perf, Command(c)>>

\* The pairs of a line in the pnp4nagios format, key by key.
LEMMA Pnp4nagiosPairsAre ==
    ASSUME NEW c \in Checks, NEW isHost \in BOOLEAN
    PROVE  LET keys == Pnp4nagiosKeys(isHost)
               values == Pnp4nagiosValues(c, isHost)
               pairs == Pnp4nagiosPairs(c, isHost)
           IN  /\ DOMAIN pairs = 1..(IF isHost THEN 7 ELSE 8)
               /\ \A k \in DOMAIN pairs :
                     /\ keys[k] \in TemplateWords /\ keys[k] # "\t" /\ keys[k] # "::"
                     /\ values[k] \in Seq(LineWords) /\ NoTab(values[k])
                     /\ pairs[k] = Named(keys[k], values[k])
               /\ \A j, k \in DOMAIN pairs : keys[j] = keys[k] => j = k
<1> DEFINE keys == Pnp4nagiosKeys(isHost)
           values == Pnp4nagiosValues(c, isHost)
           pairs == Pnp4nagiosPairs(c, isHost)
           Plain(v) == v \in Seq(LineWords) /\ NoTab(v)
<1>1. CASE isHost
  <2>1. \A k \in 1..7 : k = 1 \/ k = 2 \/ k = 3 \/ k = 4 \/ k = 5 \/ k = 6 \/ k = 7
    OBVIOUS
  <2>2. DOMAIN pairs = 1..7
    BY <1>1 DEF Pnp4nagiosPairs
  <2>3. /\ keys[1] = "DATATYPE" /\ keys[2] = "TIMET" /\ keys[3] = "HOSTNAME"
        /\ keys[4] = "HOSTSTATE" /\ keys[5] = "HOSTOUTPUT" /\ keys[6] = "HOSTPERFDATA"
        /\ keys[7] = "HOSTCHECKCOMMAND"
    BY <1>1 DEF Pnp4nagiosKeys
  <2>4. /\ values[1] = <<"HOSTPERFDATA">> /\ values[2] = Second(c) /\ values[3] = c.host
        /\ values[4] = StateName(c, isHost) /\ values[5] = c.output /\ values[6] = c.perf
        /\ values[7] = Command(c)
    BY <1>1 DEF Pnp4nagiosValues
  <2>5. /\ pairs[1] = Named("DATATYPE", <<"HOSTPERFDATA">>)
        /\ pairs[2] = Named("TIMET", Second(c))
        /\ pairs[3] = Named("HOSTNAME", c.host)
        /\ pairs[4] = Named("HOSTSTATE", StateName(c, isHost))
        /\ pairs[5] = Named("HOSTOUTPUT", c.output)
        /\ pairs[6] = Named("HOSTPERFDATA", c.perf)
        /\ pairs[7] = Named("HOSTCHECKCOMMAND", Command(c))
    BY <1>1 DEF Pnp4nagiosPairs, Command
  <2>6. \A k \in 1..7 : Plain(values[k])
    <3>1. /\ Plain(<<"HOSTPERFDATA">>) /\ Plain(Second(c)) /\ Plain(c.host)
          /\ Plain(StateName(c, isHost)) /\ Plain(c.output) /\ Plain(c.perf)
          /\ Plain(Command(c))
      BY ValuesArePlain
    <3> HIDE DEF Plain, values
    <3> QED
      BY <2>1, <2>4, <3>1
  <2> HIDE DEF keys, values, pairs
  <2>7. \A k \in 1..7 : keys[k] \in TemplateWords /\ keys[k] # "\t" /\ keys[k] # "::"
    BY <2>1, <2>3 DEF TemplateWords
  <2>8. \A k \in 1..7 : pairs[k] = Named(keys[k], values[k])
    BY <2>1, <2>3, <2>4, <2>5
  <2>9. \A j, k \in 1..7 : keys[j] = keys[k] => j = k
    BY <2>1, <2>3
  <2> QED
    BY <1>1, <2>2, <2>6, <2>7, <2>8, <2>9 DEF keys, values, pairs
<1>2. CASE ~isHost
  <2>1. \A k \in 1..8 : \/ k = 1 \/ k = 2 \/ k = 3 \/ k = 4 \/ k = 5 \/ k = 6 \/ k = 7
                        \/ k = 8
    OBVIOUS
  <2>2. DOMAIN pairs = 1..8
    BY <1>2 DEF Pnp4nagiosPairs
  <2>3. /\ keys[1] = "DATATYPE" /\ keys[2] = "TIMET" /\ keys[3] = "HOSTNAME"
        /\ keys[4] = "SERVICEDESC" /\ keys[5] = "SERVICESTATE" /\ keys[6] = "SERVICEOUTPUT"
        /\ keys[7] = "SERVICEPERFDATA" /\ keys[8] = "SERVICECHECKCOMMAND"
    BY <1>2 DEF Pnp4nagiosKeys
  <2>4. /\ values[1] = <<"SERVICEPERFDATA">> /\ values[2] = Second(c) /\ values[3] = c.host
        /\ values[4] = c.service /\ values[5] = StateName(c, isHost)
        /\ values[6] = c.output /\ values[7] = c.perf /\ values[8] = Command(c)
    BY <1>2 DEF Pnp4nagiosValues
  <2>5. /\ pairs[1] = Named("DATATYPE", <<"SERVICEPERFDATA">>)
        /\ pairs[2] = Named("TIMET", Second(c))
        /\ pairs[3] = Named("HOSTNAME", c.host)
        /\ pairs[4] = Named("SERVICEDESC", c.service)
        /\ pairs[5] = Named("SERVICESTATE", StateName(c, isHost))
        /\ pairs[6] = Named("SERVICEOUTPUT", c.output)
        /\ pairs[7] = Named("SERVICEPERFDATA", c.perf)
        /\ pairs[8] = Named("SERVICECHECKCOMMAND", Command(c))
    BY <1>2 DEF Pnp4nagiosPairs, Command
  <2>6. \A k \in 1..8 : Plain(values[k])
    <3>1. /\ Plain(<<"SERVICEPERFDATA">>) /\ Plain(Second(c)) /\ Plain(c.host)
          /\ Plain(c.service) /\ Plain(StateName(c, isHost)) /\ Plain(c.output)
          /\ Plain(c.perf) /\ Plain(Command(c))
      BY ValuesArePlain
    <3> HIDE DEF Plain, values
    <3> QED
      BY <2>1, <2>4, <3>1
  <2> HIDE DEF keys, values, pairs
  <2>7. \A k \in 1..8 : keys[k] \in TemplateWords /\ keys[k] # "\t" /\ keys[k] # "::"
    BY <2>1, <2>3 DEF TemplateWords
  <2>8. \A k \in 1..8 : pairs[k] = Named(keys[k], values[k])
    BY <2>1, <2>3, <2>4, <2>5
  <2>9. \A j, k \in 1..8 : keys[j] = keys[k] => j = k
    BY <2>1, <2>3
  <2> QED
    BY <1>2, <2>2, <2>6, <2>7, <2>8, <2>9 DEF keys, values, pairs
<1> QED
  BY <1>1, <1>2

\* What parsePNP4NagiosFields finds in a line of these pairs.
LEMMA Pnp4nagiosFieldsAre ==
    ASSUME NEW c \in Checks, NEW isHost \in BOOLEAN, NEW line,
           Split(line, "\t") = Pnp4nagiosPairs(c, isHost),
           Pnp4nagiosPairs(c, isHost) \in Seq(Seq(LineWords))
    PROVE  LET fields == Pnp4nagiosFields(line)
               keys == IF isHost THEN HostKeys ELSE ServiceKeys
           IN  /\ Gives(fields, "TIMET", Second(c)) /\ Gives(fields, "HOSTNAME", c.host)
               /\ ~isHost => Gives(fields, "SERVICEDESC", c.service)
               /\ Gives(fields, keys.state, StateName(c, isHost))
               /\ Gives(fields, keys.output, c.output) /\ Gives(fields, keys.perf, c.perf)
               /\ Gives(fields, keys.command, Command(c))
<1> DEFINE fields == Pnp4nagiosFields(line)
           names == IF isHost THEN HostKeys ELSE ServiceKeys
           keys == Pnp4nagiosKeys(isHost)
           values == Pnp4nagiosValues(c, isHost)
           pairs == Pnp4nagiosPairs(c, isHost)
<1>1. /\ DOMAIN pairs = 1..(IF isHost THEN 7 ELSE 8)
      /\ \A k \in DOMAIN pairs :
            /\ keys[k] \in TemplateWords /\ keys[k] # "\t" /\ keys[k] # "::"
            /\ values[k] \in Seq(LineWords) /\ NoTab(values[k])
            /\ pairs[k] = Named(keys[k], values[k])
      /\ \A j, k \in DOMAIN pairs : keys[j] = keys[k] => j = k
  BY Pnp4nagiosPairsAre
<1>2. TemplateWords \subseteq LineWords /\ "::" \in LineWords
  BY DEF LineWords, TemplateWords
<1> HIDE DEF keys, values, pairs
<1>3. \A k \in DOMAIN pairs :
         /\ keys[k] \in LineWords /\ keys[k] # "::" /\ values[k] \in Seq(LineWords)
         /\ pairs[k] = Named(keys[k], values[k])
  BY <1>1, <1>2
<1>4. pairs \in Seq(Seq(LineWords)) /\ Split(line, "\t") = pairs
  BY DEF pairs
<1>5. \A j, k \in DOMAIN pairs : keys[j] = keys[k] => j = k
  BY <1>1
<1>6. ArePairs(LineWords, pairs, keys, values)
  BY <1>3, <1>5 DEF ArePairs
<1>7. \A k \in DOMAIN pairs : Gives(fields, keys[k], values[k])
  BY <1>2, <1>4, <1>6, PairsAreFields
<1> HIDE DEF fields
<1>8. CASE isHost
  <2>1. /\ keys[2] = "TIMET" /\ keys[3] = "HOSTNAME" /\ keys[4] = "HOSTSTATE"
        /\ keys[5] = "HOSTOUTPUT" /\ keys[6] = "HOSTPERFDATA"
        /\ keys[7] = "HOSTCHECKCOMMAND"
    BY <1>8 DEF keys, Pnp4nagiosKeys
  <2>2. /\ values[2] = Second(c) /\ values[3] = c.host /\ values[4] = StateName(c, isHost)
        /\ values[5] = c.output /\ values[6] = c.perf /\ values[7] = Command(c)
    BY <1>8 DEF values, Pnp4nagiosValues
  <2>3. DOMAIN pairs = 1..7
    BY <1>1, <1>8
  <2>4. /\ Gives(fields, keys[2], values[2]) /\ Gives(fields, keys[3], values[3])
        /\ Gives(fields, keys[4], values[4]) /\ Gives(fields, keys[5], values[5])
        /\ Gives(fields, keys[6], values[6]) /\ Gives(fields, keys[7], values[7])
    BY <1>7, <2>3
  <2>5. /\ names.state = "HOSTSTATE" /\ names.output = "HOSTOUTPUT"
        /\ names.perf = "HOSTPERFDATA" /\ names.command = "HOSTCHECKCOMMAND"
    BY <1>8 DEF HostKeys
  <2> HIDE DEF names
  <2>6. /\ Gives(fields, "TIMET", Second(c)) /\ Gives(fields, "HOSTNAME", c.host)
        /\ Gives(fields, names.state, StateName(c, isHost))
        /\ Gives(fields, names.output, c.output) /\ Gives(fields, names.perf, c.perf)
        /\ Gives(fields, names.command, Command(c))
    BY <2>1, <2>2, <2>4, <2>5
  <2> QED
    BY <1>8, <2>6 DEF fields, names
<1>9. CASE ~isHost
  <2>1. /\ keys[2] = "TIMET" /\ keys[3] = "HOSTNAME" /\ keys[4] = "SERVICEDESC"
        /\ keys[5] = "SERVICESTATE" /\ keys[6] = "SERVICEOUTPUT"
        /\ keys[7] = "SERVICEPERFDATA" /\ keys[8] = "SERVICECHECKCOMMAND"
    BY <1>9 DEF keys, Pnp4nagiosKeys
  <2>2. /\ values[2] = Second(c) /\ values[3] = c.host /\ values[4] = c.service
        /\ values[5] = StateName(c, isHost) /\ values[6] = c.output /\ values[7] = c.perf
        /\ values[8] = Command(c)
    BY <1>9 DEF values, Pnp4nagiosValues
  <2>3. DOMAIN pairs = 1..8
    BY <1>1, <1>9
  <2>4. /\ Gives(fields, keys[2], values[2]) /\ Gives(fields, keys[3], values[3])
        /\ Gives(fields, keys[4], values[4]) /\ Gives(fields, keys[5], values[5])
        /\ Gives(fields, keys[6], values[6]) /\ Gives(fields, keys[7], values[7])
        /\ Gives(fields, keys[8], values[8])
    BY <1>7, <2>3
  <2>5. /\ names.state = "SERVICESTATE" /\ names.output = "SERVICEOUTPUT"
        /\ names.perf = "SERVICEPERFDATA" /\ names.command = "SERVICECHECKCOMMAND"
    BY <1>9 DEF ServiceKeys
  <2> HIDE DEF names
  <2>6. /\ Gives(fields, "TIMET", Second(c)) /\ Gives(fields, "HOSTNAME", c.host)
        /\ Gives(fields, "SERVICEDESC", c.service)
        /\ Gives(fields, names.state, StateName(c, isHost))
        /\ Gives(fields, names.output, c.output) /\ Gives(fields, names.perf, c.perf)
        /\ Gives(fields, names.command, Command(c))
    BY <2>1, <2>2, <2>4, <2>5
  <2> QED
    BY <1>9, <2>6 DEF fields, names
<1> QED
  BY <1>8, <1>9

\* And what the parser makes of them.
LEMMA Pnp4nagiosByFields ==
    ASSUME NEW line, NEW isHost \in BOOLEAN, NEW host, NEW service, NEW state, NEW output,
           NEW perf, NEW time, NEW command, NEW fields, fields = Pnp4nagiosFields(line),
           Gives(fields, "TIMET", time), Gives(fields, "HOSTNAME", host),
           ~isHost => Gives(fields, "SERVICEDESC", service),
           LET keys == IF isHost THEN HostKeys ELSE ServiceKeys
           IN  /\ Gives(fields, keys.state, state) /\ Gives(fields, keys.output, output)
               /\ Gives(fields, keys.perf, perf) /\ Gives(fields, keys.command, command)
    PROVE  ParsePnp4nagios(line, isHost) =
              <<Result(host, IF isHost THEN HostCheck ELSE service, state, output, perf, time,
                       Before(command, "!"))>>
<1> DEFINE keys == IF isHost THEN HostKeys ELSE ServiceKeys
           required == IF isHost THEN {"HOSTNAME"} ELSE {"HOSTNAME", "SERVICEDESC"}
           field(key) == IF <<key>> \in DOMAIN fields THEN fields[<<key>>] ELSE <<>>
<1>1. ParsePnp4nagios(line, isHost) =
         IF \E key \in required : <<key>> \notin DOMAIN fields THEN <<>>
         ELSE <<Result(field("HOSTNAME"),
                       IF isHost THEN HostCheck ELSE field("SERVICEDESC"),
                       field(keys.state), field(keys.output), field(keys.perf),
                       field("TIMET"), Before(field(keys.command), "!"))>>
  BY DEF ParsePnp4nagios
<1> HIDE DEF keys
<1>2. /\ field("TIMET") = time /\ field("HOSTNAME") = host /\ field(keys.state) = state
      /\ field(keys.output) = output /\ field(keys.perf) = perf
      /\ field(keys.command) = command
  BY DEF Gives, keys
<1>3. \A key \in required : <<key>> \in DOMAIN fields
  BY DEF Gives
<1>4. ~isHost => field("SERVICEDESC") = service
  BY DEF Gives
<1> HIDE DEF required, field
<1>5. CASE isHost
  BY <1>1, <1>2, <1>3, <1>5
<1>6. CASE ~isHost
  BY <1>1, <1>2, <1>3, <1>4, <1>6
<1> QED
  BY <1>5, <1>6

\* They are texts, the last of which may be trimmed.
LEMMA Pnp4nagiosPairsType ==
    ASSUME NEW c \in Checks, NEW isHost \in BOOLEAN
    PROVE  LET pairs == Pnp4nagiosPairs(c, isHost)
               front == SubSeq(pairs, 1, Len(pairs) - 1)
           IN  /\ pairs \in Seq(Seq(LineWords)) /\ pairs # <<>>
               /\ \A k \in DOMAIN pairs : NoTab(pairs[k])
               /\ pairs[1] # <<>> /\ pairs[1][1] = "DATATYPE"
               /\ front \in Seq(Seq(LineWords)) /\ front # <<>>
               /\ \E key \in TemplateWords :
                     key # "\t" /\ pairs = Append(front, Named(key, Command(c)))
<1> DEFINE pairs == Pnp4nagiosPairs(c, isHost)
           keys == Pnp4nagiosKeys(isHost)
           values == Pnp4nagiosValues(c, isHost)
           front == SubSeq(pairs, 1, Len(pairs) - 1)
           n == IF isHost THEN 7 ELSE 8
           T == Seq(LineWords)
<1>1. /\ DOMAIN pairs = 1..n
      /\ \A k \in DOMAIN pairs :
            /\ keys[k] \in TemplateWords /\ keys[k] # "\t"
            /\ values[k] \in T /\ NoTab(values[k])
            /\ pairs[k] = Named(keys[k], values[k])
  BY Pnp4nagiosPairsAre
<1>2. \A k \in DOMAIN pairs : pairs[k] \in T /\ NoTab(pairs[k])
  BY <1>1, PairIsPlain
<1>3. pairs = [k \in 1..n |-> pairs[k]]
  <2>1. CASE isHost
    BY <2>1 DEF Pnp4nagiosPairs
  <2>2. CASE ~isHost
    BY <2>2 DEF Pnp4nagiosPairs
  <2> QED
    BY <2>1, <2>2
<1>4. keys[1] = "DATATYPE"
  BY DEF Pnp4nagiosKeys
<1>5. values[n] = Command(c)
  BY DEF Pnp4nagiosValues
<1>6. n \in Nat /\ n >= 7
  OBVIOUS
<1> HIDE DEF pairs, keys, values, T, n
<1>7. pairs \in Seq(T) /\ Len(pairs) = n
  <2>1. pairs \in [1..n -> T]
    BY <1>1, <1>2, <1>3
  <2> QED
    BY <1>6, <2>1, FunctionIsSequence
<1>8. 1 \in DOMAIN pairs /\ n \in DOMAIN pairs
  BY <1>1, <1>6
<1>9. pairs[1] # <<>> /\ pairs[1][1] = "DATATYPE"
  <2>1. pairs[1] = Named("DATATYPE", values[1]) /\ values[1] \in T
    BY <1>1, <1>4, <1>8
  <2>2. Len(<<"DATATYPE", "::">> \o values[1]) = Len(values[1]) + 2
        /\ (<<"DATATYPE", "::">> \o values[1])[1] = "DATATYPE"
    BY <2>1 DEF T
  <2>3. Len(values[1]) \in Nat
    BY <2>1 DEF T
  <2>4. pairs[1] = <<"DATATYPE", "::">> \o values[1]
    BY <2>1 DEF Named
  <2>5. Len(pairs[1]) # 0 /\ pairs[1][1] = "DATATYPE"
    BY <2>2, <2>3, <2>4
  <2> QED
    BY <2>5
<1>10. pairs # <<>>
  BY <1>6, <1>7
<1>11. /\ front \in Seq(T) /\ Len(pairs) - 1 \in Nat
       /\ pairs = Append(front, pairs[Len(pairs)])
  BY <1>7, <1>10, WithoutLast
<1>12. front # <<>>
  <2>1. Len(front) = Len(pairs) - 1
    BY <1>6, <1>7
  <2> QED
    BY <1>6, <1>7, <2>1
<1>13. pairs[Len(pairs)] = Named(keys[n], Command(c)) /\ keys[n] \in TemplateWords
       /\ keys[n] # "\t"
  BY <1>1, <1>5, <1>7, <1>8
<1> HIDE DEF front
<1>14. \E key \in TemplateWords : key # "\t" /\ pairs = Append(front, Named(key, Command(c)))
  BY <1>11, <1>13
<1> QED
  BY <1>2, <1>7, <1>9, <1>10, <1>11, <1>12, <1>14 DEF pairs, front, T

\* In PNP4Nagios' layout every check comes back as it was written, with its command.
LEMMA Pnp4nagiosLineParses ==
    ASSUME NEW c \in Checks, NEW isHost \in BOOLEAN, NEW f, f = "pnp4nagios"
    PROVE  ParseLine(NagiosLine(f, c, isHost), f, isHost) = <<Meaning(f, c, isHost)>>
<1> DEFINE pairs == Pnp4nagiosPairs(c, isHost)
           front == SubSeq(pairs, 1, Len(pairs) - 1)
           line == Join(pairs, "\t")
           T == Seq(LineWords)
<1>1. /\ pairs \in Seq(T) /\ pairs # <<>> /\ \A k \in DOMAIN pairs : NoTab(pairs[k])
      /\ pairs[1] # <<>> /\ pairs[1][1] = "DATATYPE"
      /\ front \in Seq(T) /\ front # <<>>
      /\ \E key \in TemplateWords : key # "\t" /\ pairs = Append(front, Named(key, Command(c)))
  BY Pnp4nagiosPairsType
<1>2. PICK key \in TemplateWords :
            key # "\t" /\ pairs = Append(front, Named(key, Command(c)))
  BY <1>1
<1>3. "\t" \in LineWords /\ key \in LineWords /\ "::" \in LineWords
  BY DEF LineWords, TemplateWords
<1>4. NagiosLine(f, c, isHost) = line
  BY DEF NagiosLine
<1> HIDE DEF pairs, front
<1>5. Split(line, "\t") = pairs
  BY <1>1, <1>3, SplitOfJoin DEF T, NoTab
<1>6. line \in T /\ line # <<>> /\ line[1] = "DATATYPE"
  BY <1>1, <1>3, JoinType, JoinBegins DEF T
<1>7. line[Len(line)] \notin Blanks
  <2> DEFINE last == Named(key, Command(c))
             value == Command(c)
  <2>1. value \in T
    BY ValuesArePlain
  <2>2. /\ last = <<key, "::">> \o value /\ last \in T
        /\ Len(last) = Len(value) + 2 /\ Len(value) \in Nat
    BY <1>3, <2>1 DEF Named
  <2>3. last[Len(last)] \notin Blanks
    <3>1. CASE value = <<>>
      <4>1. last = <<key, "::">>
        BY <2>2, <3>1
      <4>2. last[Len(last)] = "::"
        BY <4>1
      <4> QED
        BY <4>2 DEF Blanks
    <3>2. CASE value # <<>>
      <4>1. Len(value) # 0
        BY <2>1, <3>2 DEF T
      <4>2. last[Len(last)] = value[Len(value)]
        <5> HIDE DEF value, last
        <5> QED
          BY <1>3, <2>1, <2>2, <4>1 DEF T
      <4>3. value[Len(value)] \notin Blanks
        BY <3>2, CheckIsPlain DEF Command
      <4> QED
        BY <4>2, <4>3
    <3> QED
      BY <3>1, <3>2
  <2> HIDE DEF last
  <2>4. last # <<>>
    BY <2>2
  <2>5. line[Len(line)] = last[Len(last)]
    <3>1. LET t == Join(Append(front, last), "\t")
          IN  t # <<>> /\ t[Len(t)] = last[Len(last)]
      BY ZenonT(40), <1>1, <1>3, <2>2, <2>4, JoinEnds DEF T
    <3>2. pairs = Append(front, last)
      BY <1>2 DEF last
    <3> QED
      BY <3>1, <3>2
  <2> QED
    BY <2>3, <2>5
<1> HIDE DEF line
<1>8. TrimSpace(line) = line
  <2>1. "DATATYPE" \notin Blanks
    BY DEF Blanks
  <2> QED
    BY <1>6, <1>7, <2>1, TrimUnchanged DEF T, TrimSpace
<1>9. ParseLine(line, f, isHost) = ParsePnp4nagios(line, isHost)
  BY <1>6, <1>8 DEF ParseLine
<1> DEFINE fields == Pnp4nagiosFields(line)
           keys == IF isHost THEN HostKeys ELSE ServiceKeys
<1>10. /\ Gives(fields, "TIMET", Second(c)) /\ Gives(fields, "HOSTNAME", c.host)
       /\ ~isHost => Gives(fields, "SERVICEDESC", c.service)
       /\ Gives(fields, keys.state, StateName(c, isHost))
       /\ Gives(fields, keys.output, c.output) /\ Gives(fields, keys.perf, c.perf)
       /\ Gives(fields, keys.command, Command(c))
  BY <1>1, <1>5, Pnp4nagiosFieldsAre DEF T, pairs
<1>11. ParsePnp4nagios(line, isHost) =
          <<Result(c.host, IF isHost THEN HostCheck ELSE c.service, StateName(c, isHost),
                   c.output, c.perf, Second(c), Before(Command(c), "!"))>>
  BY SMTT(30), <1>10, Pnp4nagiosByFields
<1>12. Result(c.host, IF isHost THEN HostCheck ELSE c.service, StateName(c, isHost),
              c.output, c.perf, Second(c), Before(Command(c), "!")) = Meaning(f, c, isHost)
  <2>1. Before(Command(c), "!") = c.command
    BY CommandIsRead DEF Command
  <2> QED
    BY <2>1, StateIsRead, TimeIsRead DEF Result, Meaning
<1> QED
  BY <1>4, <1>9, <1>11, <1>12

\* What stands in front of a word, and behind it, consists of the words of the text.
LEMMA PiecesOfText ==
    ASSUME NEW A, NEW s \in Seq(A), NEW c
    PROVE  Before(s, c) \in Seq(A) /\ After(s, c) \in Seq(A)
<1>1. Index(s, c) \in 1..(Len(s) + 1) /\ Len(s) \in Nat
  BY IndexIsFirst
<1>2. SubSeq(s, 1, Index(s, c) - 1) \in Seq(A) /\ SubSeq(s, Index(s, c) + 1, Len(s)) \in Seq(A)
  BY <1>1
<1> QED
  BY <1>2 DEF Before, After

\* A state other than UNKNOWN is named by a word of the text it is read from.
LEMMA StateOfText ==
    ASSUME NEW A, NEW s \in Seq(A)
    PROVE  /\ NagiosState(s) \in 0..3
           /\ NagiosState(s) = 3 \/ \E w \in A : NagiosState(<<w>>) = NagiosState(s)
<1> DEFINE names == {"OK", "UP", "0", "WARNING", "1", "CRITICAL", "DOWN", "2"}
<1>1. NagiosState(s) \in 0..3
  BY DEF NagiosState
<1>2. CASE \E name \in names : TrimSpace(s) = <<name>>
  <2>1. PICK name \in names : TrimSpace(s) = <<name>>
    BY <1>2
  <2>2. name \in A
    <3> DEFINE t == TrimSpace(s)
    <3>1. t \in Seq(A)
      BY TrimType DEF TrimSpace
    <3>2. t = <<name>>
      BY <2>1
    <3> HIDE DEF t
    <3>3. Len(t) = 1 /\ t[1] = name
      BY <3>2
    <3> QED
      BY <3>1, <3>3
  <2>3. name \notin Blanks
    BY DEF Blanks
  <2>4. TrimSpace(<<name>>) = TrimSpace(s)
    BY <2>1, <2>3, TrimOneWord
  <2>5. NagiosState(<<name>>) = NagiosState(s)
    BY <2>4 DEF NagiosState
  <2> QED
    BY <1>1, <2>2, <2>5
<1>3. CASE ~\E name \in names : TrimSpace(s) = <<name>>
  <2>1. \A name \in names : TrimSpace(s) # <<name>>
    BY <1>3
  <2>2. NagiosState(s) = 3
    BY <2>1 DEF NagiosState
  <2> QED
    BY <1>1, <2>2
<1> QED
  BY <1>2, <1>3

\* A time other than 0 is a word of the text it is read from.
LEMMA TimeOfText ==
    ASSUME NEW A, NEW s \in Seq(A)
    PROVE  /\ Timet(s) \in Nat
           /\ Timet(s) = 0 \/ \E w \in A : Timet(<<w>>) = Timet(s)
<1> DEFINE reads(n) == TrimSpace(s) = <<Digit[n + 1]>>
<1>1. CASE \E n \in 0..9 : reads(n)
  <2>1. PICK n \in 0..9 : reads(n)
    BY <1>1
  <2> DEFINE w == Digit[n + 1]
  <2>2. w \in A
    <3> DEFINE t == TrimSpace(s)
    <3>1. t \in Seq(A)
      BY TrimType DEF TrimSpace
    <3>2. t = <<w>>
      BY <2>1
    <3> HIDE DEF t, w
    <3>3. Len(t) = 1 /\ t[1] = w
      BY <3>2
    <3> QED
      BY <3>1, <3>3
  <2>3. w \notin Blanks
    <3>1. \/ n = 0 \/ n = 1 \/ n = 2 \/ n = 3 \/ n = 4
          \/ n = 5 \/ n = 6 \/ n = 7 \/ n = 8 \/ n = 9
      OBVIOUS
    <3>2. /\ Digit[0 + 1] = "0" /\ Digit[1 + 1] = "1" /\ Digit[2 + 1] = "2"
          /\ Digit[3 + 1] = "3" /\ Digit[4 + 1] = "4" /\ Digit[5 + 1] = "5"
          /\ Digit[6 + 1] = "6" /\ Digit[7 + 1] = "7" /\ Digit[8 + 1] = "8"
          /\ Digit[9 + 1] = "9"
      BY DEF Digit
    <3>3. w \in TimeWords
      BY <3>1, <3>2 DEF TimeWords
    <3> HIDE DEF w
    <3> QED
      BY <3>3 DEF TimeWords, Blanks
  <2>4. TrimSpace(<<w>>) = TrimSpace(s)
    BY <2>1, <2>3, TrimOneWord
  <2>5. Timet(<<w>>) = Timet(s)
    BY <2>4 DEF Timet
  <2>6. Timet(s) \in Nat
    <3> DEFINE k == CHOOSE i \in 0..9 : reads(i)
    <3>1. Timet(s) = k
      BY <1>1 DEF Timet
    <3> HIDE DEF reads
    <3>2. k \in 0..9
      BY <1>1
    <3> HIDE DEF k
    <3> QED
      BY <3>1, <3>2
  <2> HIDE DEF w
  <2> QED
    BY <2>2, <2>5, <2>6
<1>2. CASE ~\E n \in 0..9 : reads(n)
  BY <1>2 DEF Timet
<1> QED
  BY <1>1, <1>2

\* A result over the words A in which a state and a time are words of A.
IsOver(r, A) ==
    /\ r \in ResultOver(A)
    /\ r.State = 3 \/ \E w \in A : NagiosState(<<w>>) = r.State
    /\ r.LastCheck = 0 \/ \E w \in A : Timet(<<w>>) = r.LastCheck

\* A result put together from texts over A is one.
LEMMA ResultIsOver ==
    ASSUME NEW A, NEW host \in Seq(A), NEW service, service \in Seq(A) \/ service = HostCheck,
           NEW state \in Seq(A), NEW output \in Seq(A), NEW perf \in Seq(A),
           NEW time \in Seq(A), NEW command \in Seq(A)
    PROVE  IsOver(Result(host, service, state, output, perf, time, command), A)
<1> DEFINE r == Result(host, service, state, output, perf, time, command)
           T == Seq(A)
           s == NagiosState(state)
           l == Timet(time)
<1>1. /\ s \in 0..3 /\ (s = 3 \/ \E w \in A : NagiosState(<<w>>) = s)
      /\ l \in Nat /\ (l = 0 \/ \E w \in A : Timet(<<w>>) = l)
  BY StateOfText, TimeOfText
<1>2. r = [HostName |-> host, ServiceDescription |-> service, State |-> s,
           PluginOutput |-> output, PerfData |-> perf, LastCheck |-> l,
           CheckCommand |-> command]
  BY DEF Result
<1>3. host \in T /\ output \in T /\ perf \in T /\ command \in T /\ service \in T \cup {HostCheck}
  OBVIOUS
<1> HIDE DEF r, T, s, l
<1>4. r \in [HostName : T, ServiceDescription : T \cup {HostCheck}, State : 0..3,
            PluginOutput : T, PerfData : T, LastCheck : Nat, CheckCommand : T]
  BY <1>1, <1>2, <1>3
<1>5. r.State = s /\ r.LastCheck = l
  BY <1>2
<1>6. r \in ResultOver(A)
  BY <1>4 DEF ResultOver, T
<1>7. IsOver(r, A)
  BY <1>1, <1>5, <1>6 DEF IsOver
<1> QED
  BY <1>7 DEF r

\* What the fields of a PNP4Nagios line hold, keys that occur twice included.
LEMMA FieldsOfText ==
    ASSUME NEW A, NEW line \in Seq(A), NEW x \in DOMAIN Pnp4nagiosFields(line)
    PROVE  Pnp4nagiosFields(line)[x] \in Seq(A)
<1> DEFINE parts == Split(line, "\t")
           pairs == {k \in DOMAIN parts : Contains(parts[k], "::")}
           key(k) == Before(parts[k], "::")
           last(k) == \A j \in pairs : key(j) = key(k) => j <= k
           is(k) == key(k) = x /\ last(k)
           F == [y \in {key(k) : k \in pairs} |->
                    Value(parts[CHOOSE k \in pairs : key(k) = y /\ last(k)])]
           S == {k \in pairs : key(k) = x}
<1>1. Pnp4nagiosFields(line) = F
  BY DEF Pnp4nagiosFields
<1>2. x \in {key(k) : k \in pairs}
  BY <1>1
<1>3. F[x] = Value(parts[CHOOSE k \in pairs : is(k)])
  BY <1>2
<1>4. parts \in Seq(Seq(A))
  BY SplitType
<1> HIDE DEF parts, F
<1>5. Len(parts) \in Nat /\ pairs \subseteq 1..Len(parts)
  BY <1>4
<1> HIDE DEF key
<1>6. S # {} /\ S \subseteq 0..Len(parts) /\ S \subseteq pairs
  <2>1. \E k \in pairs : key(k) = x
    BY <1>2
  <2> QED
    BY <1>5, <2>1
<1>7. \E k \in pairs : is(k)
  <2> DEFINE m == Max(S)
  <2> HIDE DEF S
  <2>1. m \in S /\ \A k \in S : m >= k
    BY <1>5, <1>6, MaxIsGreatest
  <2> HIDE DEF m
  <2>2. m \in pairs /\ key(m) = x
    BY <2>1 DEF S
  <2>3. ASSUME NEW j \in pairs, key(j) = key(m)
        PROVE  j <= m
    <3>1. j \in S
      BY <2>2, <2>3 DEF S
    <3> QED
      BY <1>5, <1>6, <2>1, <3>1
  <2> QED
    BY <2>2, <2>3
<1> DEFINE p == CHOOSE k \in pairs : is(k)
<1>8. p \in pairs
  <2> HIDE DEF is, pairs
  <2> QED
    BY <1>7
<1> HIDE DEF p, is
<1>9. parts[p] \in Seq(A)
  BY <1>4, <1>5, <1>8
<1>10. Value(parts[p]) \in Seq(A)
  BY <1>9, PiecesOfText DEF Value
<1> QED
  BY <1>1, <1>3, <1>10 DEF p

\* What parseLine makes of any text over A: nothing, or one result over A.
LEMMA ParsedIsOver ==
    ASSUME NEW A, NEW text \in Seq(A), NEW isHost \in BOOLEAN, NEW f
    PROVE  \/ ParseLine(text, f, isHost) = <<>>
           \/ \E r : ParseLine(text, f, isHost) = <<r>> /\ IsOver(r, A)
<1> DEFINE line == TrimSpace(text)
<1>1. line \in Seq(A) /\ <<>> \in Seq(A)
  BY TrimType DEF TrimSpace
<1> HIDE DEF line
<1>2. \/ ParseDefault(line, isHost) = <<>>
      \/ \E r : ParseDefault(line, isHost) = <<r>> /\ IsOver(r, A)
  <2> DEFINE parts == Split(line, "\t")
             first == IF isHost THEN 4 ELSE 5
             r == Result(parts[3], IF isHost THEN HostCheck ELSE parts[4],
                         parts[first], parts[first + 1], parts[first + 2], parts[2], <<>>)
  <2>1. parts \in Seq(Seq(A))
    BY <1>1, SplitType
  <2> HIDE DEF parts
  <2>2. ASSUME ~(Len(parts) < first + 2)
        PROVE  IsOver(r, A)
    <3>1. Len(parts) \in Nat /\ \A k \in 1..Len(parts) : parts[k] \in Seq(A)
      BY <2>1
    <3>2. first \in 4..5 /\ first + 2 <= Len(parts)
      BY <2>2, <3>1
    <3>3. /\ parts[2] \in Seq(A) /\ parts[3] \in Seq(A) /\ parts[4] \in Seq(A)
          /\ parts[first] \in Seq(A) /\ parts[first + 1] \in Seq(A)
          /\ parts[first + 2] \in Seq(A)
      BY <3>1, <3>2
    <3> HIDE DEF first
    <3> QED
      BY <1>1, <3>3, ResultIsOver
  <2> HIDE DEF r
  <2>3. \/ ParseDefault(line, isHost) = <<>>
        \/ ~(Len(parts) < first + 2) /\ ParseDefault(line, isHost) = <<r>>
    BY DEF ParseDefault, r, parts
  <2> QED
    BY <2>2, <2>3
<1>3. \/ ParsePnp4nagios(line, isHost) = <<>>
      \/ \E r : ParsePnp4nagios(line, isHost) = <<r>> /\ IsOver(r, A)
  <2> DEFINE fields == Pnp4nagiosFields(line)
             keys == IF isHost THEN HostKeys ELSE ServiceKeys
             field(key) == IF <<key>> \in DOMAIN fields THEN fields[<<key>>] ELSE <<>>
             command == Before(field(keys.command), "!")
             r == Result(field("HOSTNAME"),
                         IF isHost THEN HostCheck ELSE field("SERVICEDESC"),
                         field(keys.state), field(keys.output), field(keys.perf),
                         field("TIMET"), command)
  <2>1. \A x \in DOMAIN fields : fields[x] \in Seq(A)
    BY <1>1, FieldsOfText
  <2> HIDE DEF fields
  <2>2. \A key : field(key) \in Seq(A)
    BY <1>1, <2>1
  <2> HIDE DEF field
  <2>3. command \in Seq(A)
    BY <2>2, PiecesOfText
  <2> HIDE DEF keys, command
  <2>4. IsOver(r, A)
    BY <2>2, <2>3, ResultIsOver
  <2> HIDE DEF r
  <2>5. ParsePnp4nagios(line, isHost) = <<>> \/ ParsePnp4nagios(line, isHost) = <<r>>
    BY DEF ParsePnp4nagios, r, command, field, keys, fields
  <2> QED
    BY <2>4, <2>5
<1>4. \/ ParseLine(text, f, isHost) = <<>>
      \/ ParseLine(text, f, isHost) = ParsePnp4nagios(line, isHost)
      \/ ParseLine(text, f, isHost) = ParseDefault(line, isHost)
  BY DEF ParseLine, line
<1> QED
  BY <1>2, <1>3, <1>4

\* What collect makes of the line that Nagios writes for a check: the result the check
\* meant, each field in its place, whatever blanks, "::" and keys its texts hold; or, in
\* the default layout, nothing if the check has no perfdata.  It holds of hosts and of
\* services and in either format (parseLine and the parsers it calls).
THEOREM CheckLinesParse ==
    ASSUME NEW c \in Checks, NEW isHost \in BOOLEAN, NEW f \in Formats
    PROVE  ParseLine(NagiosLine(f, c, isHost), f, isHost) =
              IF f # "pnp4nagios" /\ c.perf = <<>> THEN <<>> ELSE <<Meaning(f, c, isHost)>>
BY DefaultLineParses, DefaultLineLost, Pnp4nagiosLineParses

-----------------------------------------------------------------------------
(***************************************************************************)
(* What collect makes of the lines of one file.                            *)
(***************************************************************************)
\* A line is some check's, or one that no check wrote.
GoodLine(line) ==
    IF line.check = NoCheck THEN line.text \in Others
    ELSE line.check \in Checks /\ line.text = <<>>

\* What parseLine makes of a line; the lines that give a result, and the result.
ParsedLine(t, line) ==
    ParseLine(IF line.check = NoCheck THEN line.text
              ELSE NagiosLine(format, line.check, t = "host"), format, t = "host")
HasResult(t, line) == ParsedLine(t, line) # <<>>
TheResult(t, line) == [tracker |-> t, n |-> line.n, result |-> ParsedLine(t, line)[1]]

EarlierLine == {p \in Line \X Line : p[1].n < p[2].n}
EarlierResult ==
    {p \in CheckResult \X CheckResult : p[1].tracker = p[2].tracker => p[1].n < p[2].n}

\* What a check means is a result over the words of the checks.
LEMMA MeaningType ==
    ASSUME NEW c \in Checks, NEW f, NEW isHost \in BOOLEAN
    PROVE  Meaning(f, c, isHost) \in ResultOver(Words)
<1> DEFINE T == Seq(Words)
           m == Meaning(f, c, isHost)
<1>1. /\ c.host \in T /\ c.service \in T /\ c.output \in T /\ c.perf \in T /\ c.command \in T
      /\ c.state \in 0..3 /\ c.time \in 0..9
  BY CheckIsPlain
<1>2. <<>> \in T /\ 0 \in 0..3 /\ c.time \in Nat
  BY <1>1
<1> HIDE DEF T
<1>3. m \in [HostName : T, ServiceDescription : T \cup {HostCheck}, State : 0..3,
            PluginOutput : T, PerfData : T, LastCheck : Nat, CheckCommand : T]
  BY <1>1, <1>2 DEF Meaning
<1> QED
  BY <1>3 DEF ResultOver, T

\* A good line gives nothing or one result: a check's line what the check meant, if it
\* keeps its last field, and any other line a result over its words.
LEMMA LineParses ==
    ASSUME NEW t \in Trackers, format \in Formats, NEW line \in Line, GoodLine(line)
    PROVE  /\ HasResult(t, line) =>
                 /\ ParsedLine(t, line) = <<TheResult(t, line).result>>
                 /\ TheResult(t, line) \in CheckResult
           /\ line.check # NoCheck =>
                 /\ HasResult(t, line) <=> ~LosesItsLastField(line)
                 /\ HasResult(t, line) =>
                       TheResult(t, line).result = Meaning(format, line.check, t = "host")
           /\ line.check = NoCheck /\ HasResult(t, line) =>
                 StandsIn(TheResult(t, line).result, line.text)
<1> DEFINE isHost == t = "host"
           c == line.check
           p == ParsedLine(t, line)
           r == p[1]
<1>1. isHost \in BOOLEAN /\ line.n \in Nat
  BY DEF Line
<1>2. TheResult(t, line) = [tracker |-> t, n |-> line.n, result |-> r]
  BY DEF TheResult
<1>3. ASSUME r \in ResultOver(Words)
      PROVE  TheResult(t, line) \in CheckResult
  <2> HIDE DEF r
  <2> QED
    BY <1>1, <1>2, <1>3 DEF CheckResult
<1>4. CASE c # NoCheck
  <2>1. c \in Checks
    BY <1>4 DEF GoodLine
  <2>2. p = ParseLine(NagiosLine(format, c, isHost), format, isHost)
    BY <1>4 DEF ParsedLine
  <2>3. p = IF LosesItsLastField(line) THEN <<>> ELSE <<Meaning(format, c, isHost)>>
    BY <1>1, <2>1, <2>2, CheckLinesParse DEF LosesItsLastField
  <2>4. CASE LosesItsLastField(line)
    BY <1>4, <2>3, <2>4 DEF HasResult
  <2>5. CASE ~LosesItsLastField(line)
    <3> DEFINE m == Meaning(format, c, isHost)
    <3>1. m \in ResultOver(Words)
      BY <1>1, <2>1, MeaningType
    <3> HIDE DEF m
    <3>2. p = <<m>>
      BY <2>3, <2>5 DEF m
    <3> HIDE DEF p, c
    <3>3. p # <<>> /\ p[1] = m
      BY <3>2
    <3>4. TheResult(t, line) \in CheckResult /\ TheResult(t, line).result = m
      BY <1>2, <1>3, <3>1, <3>3
    <3> QED
      BY <1>4, <2>5, <3>2, <3>3, <3>4 DEF HasResult, m, p, c
  <2> QED
    BY <2>4, <2>5
<1>5. CASE c = NoCheck /\ HasResult(t, line)
  <2> DEFINE text == line.text
             A == ToSet(text)
  <2>1. text \in Others /\ p = ParseLine(text, format, isHost) /\ p # <<>>
    BY <1>5 DEF GoodLine, ParsedLine, HasResult
  <2>2. text \in Seq(Words)
    BY <2>1, OthersAssumption
  <2> HIDE DEF text, p, isHost
  <2>3. text \in Seq(A)
    BY <2>2 DEF ToSet
  <2> HIDE DEF A
  <2>4. PICK q : p = <<q>> /\ IsOver(q, Words)
    BY <1>1, <2>1, <2>2, ParsedIsOver
  <2>5. PICK q2 : p = <<q2>> /\ IsOver(q2, A)
    BY <1>1, <2>1, <2>3, ParsedIsOver
  <2>6. p[1] = q /\ q2 = q
    BY <2>4, <2>5
  <2>7. TheResult(t, line) \in CheckResult /\ TheResult(t, line).result = q
    BY <1>2, <1>3, <2>4, <2>6 DEF IsOver
  <2>8. StandsIn(q, text)
    BY <2>5, <2>6 DEF StandsIn, IsOver, A
  <2> QED
    BY <1>5, <2>4, <2>7, <2>8 DEF p, text, c, isHost
<1> QED
  BY <1>4, <1>5

\* What Outcome tabulates.
LEMMA OutcomeIs ==
    ASSUME NEW f \in Formats, NEW t \in Trackers, NEW check \in Checks \cup {NoCheck},
           NEW text \in Others \cup {<<>>}
    PROVE  Outcome[f][t][check][text] =
              ParseLine(IF check = NoCheck THEN text ELSE NagiosLine(f, check, t = "host"),
                        f, t = "host")
<1> DEFINE Given(g, h, c, s) ==
             ParseLine(IF c = NoCheck THEN s ELSE NagiosLine(g, c, h = "host"), g, h = "host")
<1>1. Outcome = [g \in Formats |-> [h \in Trackers |-> [c \in Checks \cup {NoCheck} |->
                    [s \in Others \cup {<<>>} |-> Given(g, h, c, s)]]]]
  BY DEF Outcome
<1> HIDE DEF Given
<1>2. Outcome[f][t][check][text] = Given(f, t, check, text)
  BY <1>1
<1> QED
  BY <1>2 DEF Given

\* What collect appends for a good line.
LEMMA ResultsOfLine ==
    ASSUME NEW t \in Trackers, format \in Formats, NEW line \in Line, GoodLine(line)
    PROVE  ResultsOf(t, line) = IF HasResult(t, line) THEN <<TheResult(t, line)>> ELSE <<>>
<1> DEFINE parsed == Outcome[format][t][line.check][line.text]
<1>1. line.check \in Checks \cup {NoCheck} /\ line.text \in Others \cup {<<>>}
  BY DEF Line
<1>2. parsed = ParsedLine(t, line)
  BY <1>1, OutcomeIs DEF ParsedLine
<1> HIDE DEF parsed
<1>3. ResultsOf(t, line) =
         [k \in DOMAIN parsed |-> [tracker |-> t, n |-> line.n, result |-> parsed[k]]]
  BY DEF ResultsOf, parsed
<1>4. CASE ~HasResult(t, line)
  BY <1>2, <1>3, <1>4 DEF HasResult
<1>5. CASE HasResult(t, line)
  <2> DEFINE r == TheResult(t, line).result
  <2>1. parsed = <<r>>
    BY <1>2, <1>5, LineParses
  <2> HIDE DEF r
  <2>2. DOMAIN parsed = 1..1 /\ parsed[1] = r
    BY <2>1
  <2>3. TheResult(t, line) = [tracker |-> t, n |-> line.n, result |-> parsed[1]]
    BY <1>2 DEF TheResult
  <2>4. ResultsOf(t, line) = [k \in 1..1 |-> TheResult(t, line)]
    BY <1>3, <2>2, <2>3
  <2>5. ResultsOf(t, line) = <<TheResult(t, line)>>
    BY <2>4
  <2> QED
    BY <1>5, <2>5
<1> QED
  BY <1>4, <1>5

\* What Parsed makes of lines: their results, each of them, in their order.
ParsedAsRead(t, ls) ==
    /\ Parsed(t, ls) \in Seq(CheckResult)
    /\ \A r \in ToSet(Parsed(t, ls)) :
          \E line \in ToSet(ls) : HasResult(t, line) /\ r = TheResult(t, line)
    /\ \A line \in ToSet(ls) : HasResult(t, line) => TheResult(t, line) \in ToSet(Parsed(t, ls))
    /\ IsOrdered(ls, EarlierLine) => IsOrdered(Parsed(t, ls), EarlierResult)

\* What a line gives are check results.
LEMMA ResultsOfType ==
    ASSUME NEW t \in Trackers, format \in Formats, NEW line \in Line, GoodLine(line)
    PROVE  ResultsOf(t, line) \in Seq(CheckResult)
<1>1. CASE HasResult(t, line)
  <2>1. TheResult(t, line) \in CheckResult
    BY <1>1, LineParses
  <2>2. ResultsOf(t, line) = <<TheResult(t, line)>>
    BY <1>1, ResultsOfLine
  <2>3. \A a : a \in CheckResult => <<a>> \in Seq(CheckResult)
    OBVIOUS
  <2> QED
    BY <2>1, <2>2, <2>3
<1>2. CASE ~HasResult(t, line)
  <2>1. ResultsOf(t, line) = <<>>
    BY <1>2, ResultsOfLine
  <2> QED
    BY <2>1
<1> QED
  BY <1>1, <1>2

\* One more line gives its own results behind the others.
LEMMA ParsedMore ==
    ASSUME NEW t \in Trackers, format \in Formats, NEW ls \in Seq(Line), NEW line \in Line,
           \A l \in ToSet(ls) : GoodLine(l), GoodLine(line)
    PROVE  Parsed(t, Append(ls, line)) = Parsed(t, ls) \o ResultsOf(t, line)
<1> DEFINE T == Seq(CheckResult)
           all == Append(ls, line)
           of == [k \in DOMAIN ls |-> ResultsOf(t, ls[k])]
           ofAll == [k \in DOMAIN all |-> ResultsOf(t, all[k])]
<1>1. ASSUME NEW k \in DOMAIN ls
      PROVE  ResultsOf(t, ls[k]) \in T
  <2>1. ls[k] \in Line /\ ls[k] \in ToSet(ls)
    BY DEF ToSet
  <2> QED
    BY <2>1, ResultsOfType
<1>2. ResultsOf(t, line) \in T
  BY ResultsOfType
<1>3. /\ Len(ls) \in Nat /\ DOMAIN ls = 1..Len(ls) /\ DOMAIN all = 1..(Len(ls) + 1)
      /\ \A k \in DOMAIN ls : all[k] = ls[k]
      /\ all[Len(ls) + 1] = line
  BY Appended
<1> HIDE DEF all, T
<1>4. of \in Seq(T) /\ Len(of) = Len(ls)
  <2>1. of \in [1..Len(ls) -> T]
    BY <1>1, <1>3
  <2> HIDE DEF of
  <2> QED
    BY <1>3, <2>1, FunctionIsSequence
<1>5. \A k \in DOMAIN all : ofAll[k] = ResultsOf(t, all[k])
  OBVIOUS
<1>6. \A k \in DOMAIN ls : of[k] = ResultsOf(t, ls[k])
  OBVIOUS
<1>7. ofAll \in [1..(Len(ls) + 1) -> T]
  <2>1. ASSUME NEW k \in 1..(Len(ls) + 1)
        PROVE  ResultsOf(t, all[k]) \in T
    <3>1. CASE k \in DOMAIN ls
      BY <1>1, <1>3, <3>1
    <3>2. CASE k \notin DOMAIN ls
      <4>1. k = Len(ls) + 1
        BY <1>3, <3>2
      <4> QED
        BY <1>2, <1>3, <4>1
    <3> QED
      BY <3>1, <3>2
  <2> QED
    BY <1>3, <2>1
<1> HIDE DEF of, ofAll
<1>8. ofAll \in Seq(T) /\ Len(ofAll) = Len(ls) + 1
  BY <1>3, <1>7, FunctionIsSequence
<1>9. ofAll = Append(of, ResultsOf(t, line))
  <2> DEFINE more == Append(of, ResultsOf(t, line))
  <2>1. /\ more \in Seq(T) /\ Len(more) = Len(ls) + 1
        /\ \A k \in DOMAIN ls : more[k] = ResultsOf(t, ls[k])
        /\ more[Len(ls) + 1] = ResultsOf(t, line)
    <3>1. DOMAIN of = DOMAIN ls
      BY <1>3, <1>4
    <3> QED
      BY <1>2, <1>4, <1>6, <3>1, Appended
  <2> HIDE DEF more
  <2>2. ASSUME NEW k \in 1..(Len(ls) + 1)
        PROVE  ofAll[k] = more[k]
    <3>1. CASE k \in DOMAIN ls
      BY <1>3, <1>5, <2>1, <3>1
    <3>2. CASE k \notin DOMAIN ls
      <4>1. k = Len(ls) + 1
        BY <1>3, <3>2
      <4> QED
        BY <1>3, <1>5, <2>1, <4>1
    <3> QED
      BY <3>1, <3>2
  <2>3. ofAll = more
    BY <1>8, <2>1, <2>2
  <2> QED
    BY <2>3 DEF more
<1>10. FlattenSeq(ofAll) = FlattenSeq(of) \o ResultsOf(t, line)
  BY <1>2, <1>4, <1>9, FlattenAppended DEF T
<1> QED
  BY <1>10 DEF Parsed, of, ofAll, all

\* So lines that are parsed as they were read stay so with one more.
LEMMA ParsedStep ==
    ASSUME NEW t \in Trackers, format \in Formats, NEW ls \in Seq(Line), NEW line \in Line,
           \A l \in ToSet(ls) : GoodLine(l), GoodLine(line), ParsedAsRead(t, ls)
    PROVE  ParsedAsRead(t, Append(ls, line))
<1> DEFINE all == ls \o <<line>>
           rs == Parsed(t, ls)
           more == ResultsOf(t, line)
<1>1. <<line>> \in Seq(Line) /\ ToSet(<<line>>) = {line} /\ Append(ls, line) = all
  BY One, OneMore
<1>2. all \in Seq(Line) /\ ToSet(all) = ToSet(ls) \cup {line} /\ ToSet(ls) \subseteq Line
  <2> DEFINE one == <<line>>
  <2>1. one \in Seq(Line) /\ ToSet(one) = {line}
    BY <1>1
  <2> HIDE DEF one
  <2>2. ls \o one \in Seq(Line) /\ ToSet(ls \o one) = ToSet(ls) \cup ToSet(one)
        /\ ToSet(ls) \subseteq Line
    BY <2>1, SetJoined
  <2> QED
    BY <2>1, <2>2 DEF one
<1>3. Parsed(t, all) = rs \o more
  BY <1>1, ParsedMore
<1>4. /\ rs \in Seq(CheckResult)
      /\ \A r \in ToSet(rs) : \E l \in ToSet(ls) : HasResult(t, l) /\ r = TheResult(t, l)
      /\ \A l \in ToSet(ls) : HasResult(t, l) => TheResult(t, l) \in ToSet(rs)
      /\ IsOrdered(ls, EarlierLine) => IsOrdered(rs, EarlierResult)
  BY DEF ParsedAsRead
<1>5. more = IF HasResult(t, line) THEN <<TheResult(t, line)>> ELSE <<>>
  BY ResultsOfLine
<1>6. /\ more \in Seq(CheckResult) /\ IsOrdered(more, EarlierResult)
      /\ ToSet(more) = IF HasResult(t, line) THEN {TheResult(t, line)} ELSE {}
  <2>1. CASE HasResult(t, line)
    <3>1. TheResult(t, line) \in CheckResult
      BY <2>1, LineParses
    <3> QED
      BY <1>5, <2>1, <3>1, One
  <2>2. CASE ~HasResult(t, line)
    BY <1>5, <2>2, NoneIsOrdered
  <2> QED
    BY <2>1, <2>2
<1> HIDE DEF all, rs, more
<1>7. rs \o more \in Seq(CheckResult) /\ ToSet(rs \o more) = ToSet(rs) \cup ToSet(more)
  BY <1>4, <1>6, SetJoined
<1>8. ASSUME NEW r \in ToSet(rs \o more)
      PROVE  \E l \in ToSet(all) : HasResult(t, l) /\ r = TheResult(t, l)
  BY <1>2, <1>4, <1>6, <1>7
<1>9. ASSUME NEW l \in ToSet(all), HasResult(t, l)
      PROVE  TheResult(t, l) \in ToSet(rs \o more)
  BY <1>2, <1>4, <1>6, <1>7, <1>9
<1>10. ASSUME IsOrdered(all, EarlierLine)
       PROVE  IsOrdered(rs \o more, EarlierResult)
  <2>1. /\ IsOrdered(ls, EarlierLine)
        /\ \A x \in ToSet(ls), y \in {line} : <<x, y>> \in EarlierLine
    BY <1>1, <1>10, OrderedJoined DEF all
  <2>2. ASSUME NEW x \in ToSet(rs), NEW y \in ToSet(more)
        PROVE  <<x, y>> \in EarlierResult
    <3>1. PICK l \in ToSet(ls) : HasResult(t, l) /\ x = TheResult(t, l)
      BY <1>4
    <3>2. y = TheResult(t, line)
      BY <1>6
    <3>3. l.n < line.n
      BY <2>1 DEF EarlierLine
    <3>4. x.n = l.n /\ y.n = line.n
      BY <3>1, <3>2 DEF TheResult
    <3>5. x \in CheckResult /\ y \in CheckResult
      BY <1>4, <1>6 DEF ToSet
    <3> QED
      BY <3>3, <3>4, <3>5 DEF EarlierResult
  <2> QED
    BY <1>4, <1>6, <2>1, <2>2, OrderedJoined
<1> QED
  BY <1>1, <1>3, <1>7, <1>8, <1>9, <1>10 DEF ParsedAsRead

\* For any number of lines.
LEMMA ParsedLines ==
    ASSUME NEW t \in Trackers, format \in Formats, NEW ls \in Seq(Line),
           \A l \in ToSet(ls) : GoodLine(l)
    PROVE  ParsedAsRead(t, ls)
<1> DEFINE first(n) == SubSeq(ls, 1, n)
           S == {n \in 0..Len(ls) : ParsedAsRead(t, first(n))}
<1>1. Len(ls) \in Nat
  OBVIOUS
<1>2. 0 \in S
  <2>1. first(0) = <<>> /\ <<>> \in Seq(Line)
    OBVIOUS
  <2>2. Parsed(t, <<>>) = <<>>
    <3>1. [k \in DOMAIN <<>> |-> ResultsOf(t, <<>>[k])] = <<>>
      OBVIOUS
    <3> QED
      BY <3>1, FlattenNone DEF Parsed
  <2>3. ParsedAsRead(t, <<>>)
    BY <2>2, NoneIsOrdered DEF ParsedAsRead
  <2>4. 0 \in 0..Len(ls)
    BY <1>1
  <2> HIDE DEF first
  <2>5. ParsedAsRead(t, first(0))
    BY <2>1, <2>3
  <2> QED
    BY <2>4, <2>5
<1>3. ASSUME NEW n \in 0..(Len(ls) - 1), n \in S
      PROVE  n + 1 \in S
  <2>1. /\ first(n) \in Seq(Line) /\ ls[n + 1] \in Line /\ n + 1 \in 0..Len(ls)
        /\ first(n + 1) = Append(first(n), ls[n + 1])
    <3>1. 1 \in 1..(Len(ls) + 1) /\ n \in (1 - 1)..(Len(ls) - 1)
      BY <1>1
    <3>2. first(n) \in Seq(Line) /\ ls[n + 1] \in Line /\ n + 1 \in 0..Len(ls)
      BY <1>1
    <3> QED
      BY <3>1, <3>2, StretchExtended
  <2>2. GoodLine(ls[n + 1])
    <3>1. n + 1 \in DOMAIN ls
      BY <1>1
    <3> QED
      BY <3>1 DEF ToSet
  <2>3. \A l \in ToSet(first(n)) : GoodLine(l)
    <3>1. \A k \in DOMAIN first(n) : k \in DOMAIN ls /\ first(n)[k] = ls[k]
      BY <1>1
    <3> QED
      BY <3>1 DEF ToSet
  <2>4. ParsedAsRead(t, first(n))
    BY <1>3
  <2> HIDE DEF first
  <2>5. ParsedAsRead(t, first(n + 1))
    BY <2>1, <2>2, <2>3, <2>4, ParsedStep
  <2> QED
    BY <2>1, <2>5
<1>4. Len(ls) \in S
  <2> HIDE DEF S
  <2>1. 0..Len(ls) \subseteq S
    BY <1>1, <1>2, <1>3, Induction
  <2> QED
    BY <1>1, <2>1
<1>5. first(Len(ls)) = ls
  BY WholeStretch
<1> QED
  BY <1>4, <1>5

-----------------------------------------------------------------------------
(***************************************************************************)
(* The inductive invariant.  A line that has been read comes before every  *)
(* line of the same file that has not; what the tailer keeps comes from    *)
(* lines that have been read, in their order; and what a line gives is     *)
(* kept, unless the service file's reader returned it with an error.       *)
(***************************************************************************)
\* The lines of t that are still to be read.
Unseen(t) == old[t] \o new[t]

LinesOf(t) ==
    /\ place[t] # "new" => new[t] = <<>>
    /\ IsOrdered(Unseen(t), EarlierLine)
    /\ \A line \in ToSet(Unseen(t)) : line.n <= written[t] /\ GoodLine(line)
    /\ \A line \in read[t] : line.n <= written[t] /\ GoodLine(line)
    /\ \A line \in read[t] : \A next \in ToSet(Unseen(t)) : line.n < next.n

LinesInv == \A t \in Trackers : LinesOf(t)

KeptOnlyRead ==
    \A r \in Kept : \E line \in read[r.tracker] :
        HasResult(r.tracker, line) /\ r = TheResult(r.tracker, line)

ReadIsKept ==
    \A t \in Trackers : \A line \in read[t] :
        HasResult(t, line) =>
            TheResult(t, line) \in Kept \/ (t = "service" /\ line \in withError)

ResultsInv ==
    /\ KeptOnlyRead
    /\ ReadIsKept
    /\ IsOrdered(returned \o results, EarlierResult)

TailerInv == TypeOK /\ LinesInv /\ ResultsInv

\* The results kept are those collected so far and those returned.
LEMMA KeptIs ==
    ASSUME TypeOK
    PROVE  Kept = ToSet(results) \cup ToSet(returned) /\ Kept \subseteq CheckResult
<1>1. results \in Seq(CheckResult) /\ returned \in Seq(CheckResult)
  BY DEF TypeOK
<1> QED
  BY <1>1, SetJoined DEF Kept

\* What any read leaves unread follows what it has read.
LEMMA ReadSplits ==
    ASSUME TypeOK, LinesInv, NEW t \in Trackers, NEW ls \in {old[t], Unseen(t)},
           ReadsOk(t, ls) \/ MissesRotation(t, ls) \/ ReadsAndFails(t, ls)
    PROVE  /\ ls \in Seq(Line)
           /\ place' \in [Trackers -> {"same", "new", "gone"}]
           /\ fds' \in [Trackers -> {"nil", "open", "closed"}]
           /\ old' \in [Trackers -> Seq(Line)] /\ new' \in [Trackers -> Seq(Line)]
           /\ written' = written
           /\ read' = [read EXCEPT ![t] = @ \cup ToSet(ls)]
           /\ place'[t] # "new" => new'[t] = <<>>
           /\ \A u \in Trackers \ {t} :
                 old'[u] = old[u] /\ new'[u] = new[u] /\ place'[u] = place[u]
           /\ \E rest \in Seq(Line) : Unseen(t) = ls \o rest /\ Unseen(t)' = rest
<1>1. /\ place \in [Trackers -> {"same", "new", "gone"}]
      /\ fds \in [Trackers -> {"nil", "open", "closed"}]
      /\ old \in [Trackers -> Seq(Line)] /\ new \in [Trackers -> Seq(Line)]
  BY DEF TypeOK
<1>2. /\ old[t] \in Seq(Line) /\ new[t] \in Seq(Line) /\ Unseen(t) \in Seq(Line)
      /\ <<>> \in Seq(Line) /\ ls \in Seq(Line)
  <2>1. old[t] \in Seq(Line) /\ new[t] \in Seq(Line) /\ <<>> \in Seq(Line)
    BY <1>1
  <2>2. Unseen(t) \in Seq(Line)
    BY <2>1 DEF Unseen
  <2> QED
    BY <2>1, <2>2
<1>3. place[t] # "new" => new[t] = <<>>
  BY DEF LinesInv, LinesOf
<1>4. \A s \in Seq(Line) : s \o <<>> = s /\ <<>> \o s = s
  OBVIOUS
<1>5. /\ old' = [old EXCEPT ![t] = <<>>]
      /\ written' = written /\ read' = [read EXCEPT ![t] = @ \cup ToSet(ls)]
  BY DEF ReadsOk, MissesRotation, ReadsAndFails, Unread
<1>6. old'[t] = <<>> /\ old' \in [Trackers -> Seq(Line)]
      /\ \A u \in Trackers \ {t} : old'[u] = old[u]
  BY <1>1, <1>2, <1>5
<1>7. CASE ReadsOk(t, ls)
  <2>1. CASE place[t] = "same"
    <3>1. ls = old[t] /\ place' = place /\ fds' = fds /\ new' = new
      BY <1>7, <2>1 DEF ReadsOk
    <3>2. new[t] = <<>>
      BY <1>3, <2>1
    <3>3. Unseen(t) = ls \o <<>> /\ Unseen(t)' = <<>>
      BY <1>2, <1>4, <1>6, <3>1, <3>2 DEF Unseen
    <3> QED
      BY <1>1, <1>2, <1>5, <1>6, <3>1, <3>2, <3>3
  <2>2. CASE place[t] = "gone"
    <3>1. ls = old[t] /\ place' = place /\ fds' = [fds EXCEPT ![t] = "nil"] /\ new' = new
      BY <1>7, <2>2 DEF ReadsOk
    <3>2. new[t] = <<>>
      BY <1>3, <2>2
    <3>3. Unseen(t) = ls \o <<>> /\ Unseen(t)' = <<>>
      BY <1>2, <1>4, <1>6, <3>1, <3>2 DEF Unseen
    <3>4. fds' \in [Trackers -> {"nil", "open", "closed"}]
      BY <1>1, <3>1
    <3> QED
      BY <1>1, <1>2, <1>5, <1>6, <3>1, <3>2, <3>3, <3>4
  <2>3. CASE place[t] = "new"
    <3>1. /\ ls = old[t] \o new[t] /\ fds' = [fds EXCEPT ![t] = "open"]
          /\ place' = [place EXCEPT ![t] = "same"] /\ new' = [new EXCEPT ![t] = <<>>]
      BY <1>7, <2>3 DEF ReadsOk
    <3>2. /\ new'[t] = <<>> /\ new' \in [Trackers -> Seq(Line)]
          /\ \A u \in Trackers \ {t} : new'[u] = new[u] /\ place'[u] = place[u]
          /\ fds' \in [Trackers -> {"nil", "open", "closed"}]
          /\ place' \in [Trackers -> {"same", "new", "gone"}]
      BY <1>1, <1>2, <3>1
    <3>3. Unseen(t) = ls \o <<>> /\ Unseen(t)' = <<>>
      BY <1>2, <1>4, <1>6, <3>1, <3>2 DEF Unseen
    <3> QED
      BY <1>2, <1>5, <1>6, <3>2, <3>3
  <2> QED
    BY <1>1, <2>1, <2>2, <2>3
<1>8. CASE MissesRotation(t, ls) \/ ReadsAndFails(t, ls)
  <2>1. /\ ls = old[t] /\ place' = place /\ new' = new
        /\ fds' = fds \/ fds' = [fds EXCEPT ![t] = "nil"]
    BY <1>8 DEF MissesRotation, ReadsAndFails
  <2>2. fds' \in [Trackers -> {"nil", "open", "closed"}]
    BY <1>1, <2>1
  <2>3. Unseen(t) = ls \o new[t] /\ Unseen(t)' = new[t]
    BY <1>2, <1>4, <1>6, <2>1 DEF Unseen
  <2> QED
    BY <1>1, <1>2, <1>3, <1>5, <1>6, <2>1, <2>2, <2>3
<1> QED
  BY <1>7, <1>8

\* What a tracker reads are lines it has not read, in their order.
LEMMA ReadStep ==
    ASSUME TypeOK, LinesInv, NEW t \in Trackers, NEW ls \in {old[t], Unseen(t)},
           ReadsOk(t, ls) \/ MissesRotation(t, ls) \/ ReadsAndFails(t, ls)
    PROVE  /\ ls \in Seq(Line) /\ ToSet(ls) \subseteq Line /\ IsOrdered(ls, EarlierLine)
           /\ \A line \in ToSet(ls) : GoodLine(line)
           /\ \A line \in read[t], next \in ToSet(ls) : line.n < next.n
           /\ read' \in [Trackers -> SUBSET Line]
           /\ LinesInv'
<1>1. /\ ls \in Seq(Line) /\ written' = written
      /\ read' = [read EXCEPT ![t] = @ \cup ToSet(ls)]
      /\ place'[t] # "new" => new'[t] = <<>>
      /\ \A u \in Trackers \ {t} :
            old'[u] = old[u] /\ new'[u] = new[u] /\ place'[u] = place[u]
  BY ReadSplits
<1>2. PICK rest \in Seq(Line) : Unseen(t) = ls \o rest /\ Unseen(t)' = rest
  BY ReadSplits
<1>3. LinesOf(t)
  BY DEF LinesInv
<1>4. read \in [Trackers -> SUBSET Line]
  BY DEF TypeOK
<1>5. /\ ToSet(Unseen(t)) = ToSet(ls) \cup ToSet(rest)
      /\ ToSet(ls) \subseteq Line /\ ToSet(rest) \subseteq Line
  BY <1>1, <1>2, SetJoined
<1>6. /\ IsOrdered(ls, EarlierLine) /\ IsOrdered(rest, EarlierLine)
      /\ \A x \in ToSet(ls), y \in ToSet(rest) : <<x, y>> \in EarlierLine
  BY <1>1, <1>2, <1>3, OrderedJoined DEF LinesOf
<1>7. /\ \A line \in ToSet(ls) : line.n <= written[t] /\ GoodLine(line)
      /\ \A line \in ToSet(rest) : line.n <= written[t] /\ GoodLine(line)
      /\ \A line \in read[t] : line.n <= written[t] /\ GoodLine(line)
      /\ \A line \in read[t], next \in ToSet(ls) : line.n < next.n
      /\ \A line \in read[t], next \in ToSet(rest) : line.n < next.n
  BY <1>3, <1>5 DEF LinesOf
<1>8. /\ read' \in [Trackers -> SUBSET Line] /\ read'[t] = read[t] \cup ToSet(ls)
      /\ \A u \in Trackers \ {t} : read'[u] = read[u]
  BY <1>1, <1>4, <1>5
<1>9. LinesOf(t)'
  <2>1. \A line \in ToSet(ls), next \in ToSet(rest) : line.n < next.n
    BY <1>6 DEF EarlierLine
  <2>2. /\ IsOrdered(rest, EarlierLine)
        /\ \A line \in ToSet(rest) : line.n <= written'[t] /\ GoodLine(line)
        /\ \A line \in read'[t] : line.n <= written'[t] /\ GoodLine(line)
        /\ \A line \in read'[t] : \A next \in ToSet(rest) : line.n < next.n
    BY <1>1, <1>6, <1>7, <1>8, <2>1
  <2> QED
    BY <1>1, <1>2, <2>2 DEF LinesOf, GoodLine, EarlierLine, Line
<1>10. ASSUME NEW u \in Trackers, u # t
       PROVE  LinesOf(u)'
  <2>1. LinesOf(u)
    BY DEF LinesInv
  <2>2. /\ old'[u] = old[u] /\ new'[u] = new[u] /\ place'[u] = place[u]
        /\ read'[u] = read[u] /\ written'[u] = written[u]
    BY <1>1, <1>8, <1>10
  <2> QED
    BY <2>1, <2>2 DEF LinesOf, Unseen, GoodLine, EarlierLine, Line
<1> QED
  BY <1>1, <1>5, <1>6, <1>7, <1>8, <1>9, <1>10 DEF LinesInv

\* A collect keeps what the lines it has read give.
LEMMA CollectStep ==
    ASSUME TailerInv, NEW t \in Trackers, NEW ls \in {old[t], Unseen(t)},
           ReadsOk(t, ls) \/ MissesRotation(t, ls) \/ ReadsAndFails(t, ls),
           results' = results \o Parsed(t, ls), UNCHANGED <<format, returned, withError>>
    PROVE  results' \in Seq(CheckResult) /\ ResultsInv'
<1> DEFINE rs == Parsed(t, ls)
           all == returned \o results
<1>1. /\ ls \in Seq(Line) /\ IsOrdered(ls, EarlierLine)
      /\ \A line \in ToSet(ls) : GoodLine(line)
      /\ \A line \in read[t], next \in ToSet(ls) : line.n < next.n
  BY ReadStep DEF TailerInv
<1>2. /\ results \in Seq(CheckResult) /\ returned \in Seq(CheckResult) /\ format \in Formats
      /\ read \in [Trackers -> SUBSET Line]
  BY DEF TailerInv, TypeOK
<1>3. ParsedAsRead(t, ls)
  BY <1>1, <1>2, ParsedLines
<1>4. rs \in Seq(CheckResult) /\ IsOrdered(rs, EarlierResult)
  BY <1>1, <1>3 DEF ParsedAsRead
<1>5. /\ read'[t] = read[t] \cup ToSet(ls)
      /\ \A u \in Trackers \ {t} : read'[u] = read[u]
  BY <1>2, ReadSplits DEF TailerInv
<1> HIDE DEF rs
<1>6. results' = results \o rs /\ results' \in Seq(CheckResult)
      /\ ToSet(results') = ToSet(results) \cup ToSet(rs)
  BY <1>2, <1>4, SetJoined DEF rs
<1>7. Kept = ToSet(results) \cup ToSet(returned)
  BY KeptIs DEF TailerInv
<1>8. Kept' = Kept \cup ToSet(rs)
  <2>1. Kept' = ToSet(results') \cup ToSet(returned)
    <3> DEFINE now == results'
    <3>1. now \in Seq(CheckResult) /\ returned \in Seq(CheckResult)
      BY <1>2, <1>6
    <3>2. Kept' = ToSet(now \o returned)
      BY DEF Kept
    <3> HIDE DEF now
    <3>3. ToSet(now \o returned) = ToSet(now) \cup ToSet(returned)
      BY <3>1, SetJoined
    <3> QED
      BY <3>2, <3>3 DEF now
  <2> QED
    BY <1>6, <1>7, <2>1
<1>9. \A u, line : HasResult(u, line)' <=> HasResult(u, line)
  BY DEF HasResult, ParsedLine
<1>10. \A u, line : TheResult(u, line)' = TheResult(u, line)
  BY DEF TheResult, ParsedLine
<1>11. KeptOnlyRead'
  <2>1. ASSUME NEW r \in Kept
        PROVE  \E line \in read'[r.tracker] :
                  HasResult(r.tracker, line) /\ r = TheResult(r.tracker, line)
    <3>1. PICK line \in read[r.tracker] : HasResult(r.tracker, line) /\ r = TheResult(r.tracker, line)
      BY DEF TailerInv, ResultsInv, KeptOnlyRead
    <3>2. r.tracker \in Trackers
      BY KeptIs DEF TailerInv, CheckResult
    <3>3. line \in read'[r.tracker]
      BY <1>5, <3>1, <3>2
    <3> QED
      BY <3>1, <3>3
  <2>2. ASSUME NEW r \in ToSet(rs)
        PROVE  \E line \in read'[r.tracker] :
                  HasResult(r.tracker, line) /\ r = TheResult(r.tracker, line)
    <3>1. PICK line \in ToSet(ls) : HasResult(t, line) /\ r = TheResult(t, line)
      BY <1>3 DEF ParsedAsRead, rs
    <3>2. r.tracker = t
      BY <3>1 DEF TheResult
    <3> QED
      BY <1>5, <3>1, <3>2
  <2>3. \A r \in Kept' : \E line \in read'[r.tracker] :
            HasResult(r.tracker, line) /\ r = TheResult(r.tracker, line)
    BY <1>8, <2>1, <2>2
  <2> QED
    BY <1>9, <1>10, <2>3 DEF KeptOnlyRead
<1>12. ReadIsKept'
  <2>1. ASSUME NEW u \in Trackers, NEW line \in read'[u], HasResult(u, line)
        PROVE  TheResult(u, line) \in Kept' \/ (u = "service" /\ line \in withError)
    <3>1. CASE line \in read[u]
      BY <1>8, <2>1, <3>1 DEF TailerInv, ResultsInv, ReadIsKept
    <3>2. CASE line \notin read[u]
      <4>1. u = t /\ line \in ToSet(ls)
        BY <1>5, <3>2
      <4>2. TheResult(t, line) \in ToSet(rs)
        BY <1>3, <2>1, <4>1 DEF ParsedAsRead, rs
      <4> QED
        BY <1>8, <4>1, <4>2
    <3> QED
      BY <3>1, <3>2
  <2> QED
    BY <1>9, <1>10, <2>1 DEF ReadIsKept
<1>13. IsOrdered((returned \o results)', EarlierResult)
  <2>1. all \in Seq(CheckResult) /\ ToSet(all) = Kept /\ IsOrdered(all, EarlierResult)
    BY <1>2, <1>7, SetJoined DEF TailerInv, ResultsInv
  <2> HIDE DEF all
  <2>2. ASSUME NEW x \in ToSet(all), NEW y \in ToSet(rs)
        PROVE  <<x, y>> \in EarlierResult
    <3>1. x \in CheckResult /\ y \in CheckResult
      BY <1>4, <2>1 DEF ToSet
    <3>2. SUFFICES ASSUME x.tracker = y.tracker
                   PROVE  x.n < y.n
      BY <3>1 DEF EarlierResult
    <3>3. PICK next \in ToSet(ls) : y = TheResult(t, next)
      BY <1>3 DEF ParsedAsRead, rs
    <3>4. PICK line \in read[x.tracker] : x = TheResult(x.tracker, line)
      BY <2>1 DEF TailerInv, ResultsInv, KeptOnlyRead
    <3>5. x.tracker = t /\ x.n = line.n /\ y.n = next.n
      BY <3>2, <3>3, <3>4 DEF TheResult
    <3> QED
      BY <1>1, <3>4, <3>5
  <2>3. IsOrdered(all \o rs, EarlierResult)
    BY <1>4, <2>1, <2>2, OrderedJoined
  <2>4. returned' \o results' = all \o rs
    BY <1>2, <1>4, <1>6 DEF all
  <2> QED
    BY <2>3, <2>4 DEF EarlierResult, CheckResult
<1>14. ResultsInv'
  <2>1. EarlierResult' = EarlierResult
    BY DEF EarlierResult, CheckResult
  <2> QED
    BY <1>11, <1>12, <1>13, <2>1 DEF ResultsInv
<1> QED
  BY <1>6, <1>14

-----------------------------------------------------------------------------
(***************************************************************************)
(* The steps.                                                              *)
(***************************************************************************)
\* What the results depend on.
LEMMA ResultsUnchanged ==
    ASSUME ResultsInv, UNCHANGED <<format, results, returned, read, withError>>
    PROVE  ResultsInv'
BY DEF ResultsInv, KeptOnlyRead, ReadIsKept, Kept, HasResult, ParsedLine, TheResult,
       EarlierResult, CheckResult

\* Steps that leave the files and what was read of them alone.
LEMMA LinesUnchanged ==
    ASSUME LinesInv, UNCHANGED <<place, old, new, written, read>>
    PROVE  LinesInv'
BY DEF LinesInv, LinesOf, Unseen, GoodLine, EarlierLine, Line

\* A line that is written comes behind all that are there.
LEMMA LogLineStep ==
    ASSUME TailerInv, NEW t \in Used, LogLine(t)
    PROVE  TailerInv'
<1>1. /\ t \in Trackers /\ written[t] < MaxLine[t]
      /\ written' = [written EXCEPT ![t] = @ + 1]
      /\ UNCHANGED <<format, place, life, pc, fds, results, returned, read, withError, waived>>
  BY DEF LogLine, Used, Trackers
<1>2. PICK check \in Checks \cup {NoCheck}, text \in Others \cup {<<>>} :
        LET line == [n |-> written[t] + 1, check |-> check, text |-> text]
        IN  /\ (check = NoCheck) = (text # <<>>)
            /\ IF place[t] = "same"
                 THEN old' = [old EXCEPT ![t] = Append(@, line)] /\ UNCHANGED new
                 ELSE new' = [new EXCEPT ![t] = Append(@, line)] /\ UNCHANGED old
  BY DEF LogLine
<1> DEFINE line == [n |-> written[t] + 1, check |-> check, text |-> text]
<1>3. /\ old \in [Trackers -> Seq(Line)] /\ new \in [Trackers -> Seq(Line)]
      /\ written \in [Trackers -> Nat] /\ read \in [Trackers -> SUBSET Line]
      /\ \A u \in Trackers : written[u] <= MaxLine[u]
      /\ MaxLine \in [Trackers -> Nat]
  BY FileTailerAssumption DEF TailerInv, TypeOK
<1>4. line \in Line /\ line.n = written[t] + 1
  BY <1>1, <1>3 DEF Line
<1>5. GoodLine(line)
  BY <1>2, OthersAssumption DEF GoodLine
<1>6. /\ \/ old' = [old EXCEPT ![t] = Append(@, line)] /\ new' = new /\ place[t] = "same"
         \/ new' = [new EXCEPT ![t] = Append(@, line)] /\ old' = old /\ place[t] # "same"
  BY <1>2
<1> HIDE DEF line
<1>7. LinesOf(t)
  BY <1>1 DEF TailerInv, LinesInv
<1>8. place[t] # "gone" /\ place[t] \in {"same", "new", "gone"}
  BY <1>1 DEF LogLine, TailerInv, TypeOK
<1>9. /\ old' \in [Trackers -> Seq(Line)] /\ new' \in [Trackers -> Seq(Line)]
      /\ \A u \in Trackers \ {t} : old'[u] = old[u] /\ new'[u] = new[u]
      /\ place[t] # "new" => new'[t] = <<>>
      /\ Unseen(t)' = Unseen(t) \o <<line>>
  <2>1. old[t] \in Seq(Line) /\ new[t] \in Seq(Line)
    BY <1>1, <1>3
  <2>2. Append(old[t], line) \in Seq(Line) /\ Append(new[t], line) \in Seq(Line)
    BY <1>4, <2>1
  <2>3. CASE place[t] = "same"
    <3>1. old' = [old EXCEPT ![t] = Append(old[t], line)] /\ new' = new /\ new[t] = <<>>
      BY <1>6, <1>7, <2>3 DEF LinesOf
    <3>2. old'[t] = Append(old[t], line)
      BY <1>1, <1>3, <3>1
    <3>3. Append(old[t], line) \o <<>> = (old[t] \o <<>>) \o <<line>>
      BY <1>4, <2>1
    <3>4. Unseen(t)' = Unseen(t) \o <<line>>
      BY <3>1, <3>2, <3>3 DEF Unseen
    <3> QED
      BY <1>3, <2>2, <3>1, <3>4
  <2>4. CASE place[t] # "same"
    <3>1. new' = [new EXCEPT ![t] = Append(new[t], line)] /\ old' = old
      BY <1>6, <2>4
    <3>2. new'[t] = Append(new[t], line)
      BY <1>1, <1>3, <3>1
    <3>3. old[t] \o Append(new[t], line) = (old[t] \o new[t]) \o <<line>>
      <4> DEFINE a == old[t]
                 b == new[t]
      <4>1. a \in Seq(Line) /\ b \in Seq(Line) /\ line \in Line
        BY <1>4, <2>1
      <4> HIDE DEF a, b
      <4>2. a \o Append(b, line) = (a \o b) \o <<line>>
        BY <4>1, JoinedMore
      <4> QED
        BY <4>2 DEF a, b
    <3>4. Unseen(t)' = Unseen(t) \o <<line>>
      BY <3>1, <3>2, <3>3 DEF Unseen
    <3> QED
      BY <1>3, <1>8, <2>2, <2>4, <3>1, <3>4
  <2> QED
    BY <2>3, <2>4
<1>10. /\ written' \in [Trackers -> Nat] /\ written'[t] = written[t] + 1
       /\ \A u \in Trackers \ {t} : written'[u] = written[u]
       /\ \A u \in Trackers : written'[u] <= MaxLine[u]
  BY <1>1, <1>3
<1>11. LinesOf(t)'
  <2> DEFINE one == <<line>>
             ls == Unseen(t)
  <2>1. one \in Seq(Line) /\ ToSet(one) = {line} /\ IsOrdered(one, EarlierLine)
    BY <1>4, One
  <2>2. ls \in Seq(Line)
    BY <1>1, <1>3 DEF Unseen
  <2> HIDE DEF one, ls
  <2>3. /\ IsOrdered(ls, EarlierLine) /\ \A l \in ToSet(ls) : l.n <= written[t] /\ GoodLine(l)
        /\ \A l \in read[t] : l.n <= written[t] /\ GoodLine(l)
        /\ \A l \in read[t] : \A next \in ToSet(ls) : l.n < next.n
    BY <1>7 DEF LinesOf, ls
  <2>4. ToSet(ls \o one) = ToSet(ls) \cup {line} /\ ToSet(ls) \subseteq Line
    BY <2>1, <2>2, SetJoined
  <2>5. \A l \in Line : l.n <= written[t] => l.n < line.n /\ l.n <= written'[t]
    BY <1>1, <1>3, <1>4, <1>10 DEF Line
  <2>6. \A x \in ToSet(ls), y \in ToSet(one) : <<x, y>> \in EarlierLine
    BY <1>4, <2>1, <2>3, <2>4, <2>5 DEF EarlierLine
  <2>7. IsOrdered(ls \o one, EarlierLine)
    BY <2>1, <2>2, <2>3, <2>6, OrderedJoined
  <2>8. line.n <= written'[t]
    BY <1>1, <1>3, <1>4, <1>10
  <2>9. read[t] \subseteq Line /\ read' = read /\ place' = place
    BY <1>1, <1>3
  <2>10. Unseen(t)' = ls \o one
    BY <1>9 DEF ls, one
  <2>11. \A l \in ToSet(ls \o one) : l.n <= written'[t] /\ GoodLine(l)
    BY <1>5, <2>3, <2>4, <2>5, <2>8
  <2>12. \A l \in read'[t] : l.n <= written'[t] /\ GoodLine(l)
    BY <2>3, <2>5, <2>9
  <2>13. \A l \in read'[t] : \A next \in ToSet(ls \o one) : l.n < next.n
    BY <2>3, <2>4, <2>5, <2>9
  <2> QED
    BY <1>9, <2>7, <2>9, <2>10, <2>11, <2>12, <2>13 DEF LinesOf, GoodLine, EarlierLine, Line
<1>12. ASSUME NEW u \in Trackers, u # t
       PROVE  LinesOf(u)'
  <2>1. LinesOf(u)
    BY DEF TailerInv, LinesInv
  <2>2. /\ old'[u] = old[u] /\ new'[u] = new[u] /\ place'[u] = place[u]
        /\ read'[u] = read[u] /\ written'[u] = written[u]
    BY <1>1, <1>9, <1>10, <1>12
  <2> QED
    BY <2>1, <2>2 DEF LinesOf, Unseen, GoodLine, EarlierLine, Line
<1>13. LinesInv'
  BY <1>11, <1>12 DEF LinesInv
<1>14. TypeOK'
  BY <1>1, <1>9, <1>10 DEF TailerInv, TypeOK, CheckResult, Line
<1>15. ResultsInv'
  BY <1>1, ResultsUnchanged DEF TailerInv
<1> QED
  BY <1>13, <1>14, <1>15 DEF TailerInv

\* A rotation and a creation keep the invariant: what was unread becomes old.
LEMMA RotateStep ==
    ASSUME TailerInv, NEW t \in Used, Rotate(t) \/ Create(t)
    PROVE  TailerInv'
<1>1. /\ t \in Trackers /\ place \in [Trackers -> {"same", "new", "gone"}]
      /\ UNCHANGED <<format, old, new, written, life, pc, fds, results, returned, read,
                     withError, waived>>
      /\ \/ place[t] = "same" /\ place' = [place EXCEPT ![t] = "gone"]
         \/ place[t] = "gone" /\ place' = [place EXCEPT ![t] = "new"]
  BY DEF Rotate, Create, Used, Trackers, TailerInv, TypeOK
<1>2. /\ place' \in [Trackers -> {"same", "new", "gone"}]
      /\ place[t] # "new" /\ \A u \in Trackers \ {t} : place'[u] = place[u]
  BY <1>1
<1>3. TypeOK'
  BY <1>1, <1>2 DEF TailerInv, TypeOK, CheckResult, Line
<1>4. LinesInv'
  <2>1. ASSUME NEW u \in Trackers
        PROVE  LinesOf(u)'
    <3>1. LinesOf(u)
      BY DEF TailerInv, LinesInv
    <3>2. place'[u] # "new" => new[u] = <<>>
      BY <1>2, <3>1 DEF LinesOf
    <3> QED
      BY <1>1, <3>1, <3>2 DEF LinesOf, Unseen, GoodLine, EarlierLine, Line
  <2> QED
    BY <2>1 DEF LinesInv
<1>5. ResultsInv'
  BY <1>1, ResultsUnchanged DEF TailerInv
<1> QED
  BY <1>3, <1>4, <1>5 DEF TailerInv

\* start skips what is in the file it opens.
LEMMA InitTrackerStep ==
    ASSUME TailerInv, NEW t \in Trackers, InitTracker(t)
    PROVE  /\ place' \in [Trackers -> {"same", "new", "gone"}]
           /\ fds' \in [Trackers -> {"nil", "open", "closed"}]
           /\ new' \in [Trackers -> Seq(Line)] /\ old' = old /\ written' = written
           /\ waived' \in [Trackers -> SUBSET Nat]
           /\ read' = read => LinesInv'
<1>1. /\ fds' = [fds EXCEPT ![t] = IF place[t] = "gone" THEN "nil" ELSE "open"]
      /\ place' = [place EXCEPT ![t] = IF @ = "gone" THEN "gone" ELSE "same"]
      /\ waived' = [waived EXCEPT ![t] = @ \cup Numbers(new[t])]
      /\ new' = [new EXCEPT ![t] = <<>>]
      /\ old' = old /\ written' = written
  BY DEF InitTracker
<1>2. /\ place \in [Trackers -> {"same", "new", "gone"}]
      /\ fds \in [Trackers -> {"nil", "open", "closed"}]
      /\ old \in [Trackers -> Seq(Line)] /\ new \in [Trackers -> Seq(Line)]
      /\ waived \in [Trackers -> SUBSET Nat] /\ <<>> \in Seq(Line)
  BY DEF TailerInv, TypeOK
<1>3. Numbers(new[t]) \subseteq Nat
  <2>1. new[t] \in Seq(Line)
    BY <1>2
  <2>2. ToSet(new[t]) \subseteq Line
    BY <2>1 DEF ToSet
  <2>3. \A line \in Line : line.n \in Nat
    BY DEF Line
  <2> QED
    BY <2>2, <2>3 DEF Numbers
<1>4. /\ place' \in [Trackers -> {"same", "new", "gone"}]
      /\ fds' \in [Trackers -> {"nil", "open", "closed"}]
      /\ waived' \in [Trackers -> SUBSET Nat]
  BY <1>1, <1>2, <1>3
<1>5. /\ new' \in [Trackers -> Seq(Line)] /\ new'[t] = <<>>
      /\ \A u \in Trackers \ {t} : new'[u] = new[u] /\ place'[u] = place[u]
  BY <1>1, <1>2
<1>6. ASSUME read' = read
      PROVE  LinesInv'
  <2>1. LinesOf(t)'
    <3> DEFINE ls == old[t]
               skipped == new[t]
    <3>1. ls \in Seq(Line) /\ skipped \in Seq(Line)
      BY <1>2
    <3>2. Unseen(t) = ls \o skipped
      BY DEF Unseen
    <3>3. Unseen(t)' = ls \o <<>>
      BY <1>1, <1>5 DEF Unseen
    <3> HIDE DEF ls, skipped
    <3>4. Unseen(t)' = ls
      BY <3>1, <3>3
    <3>5. LinesOf(t)
      BY DEF TailerInv, LinesInv
    <3>6. IsOrdered(ls, EarlierLine)
      BY <3>1, <3>2, <3>5, OrderedJoined DEF LinesOf
    <3>7. ToSet(ls) \subseteq ToSet(Unseen(t))
      BY <3>1, <3>2, SetJoined
    <3>8. /\ \A line \in ToSet(ls) : line.n <= written[t] /\ GoodLine(line)
          /\ \A line \in read[t] : line.n <= written[t] /\ GoodLine(line)
          /\ \A line \in read[t] : \A next \in ToSet(ls) : line.n < next.n
      BY <3>5, <3>7 DEF LinesOf
    <3> QED
      BY <1>1, <1>5, <1>6, <3>4, <3>6, <3>8 DEF LinesOf, GoodLine, EarlierLine, Line
  <2>2. ASSUME NEW u \in Trackers, u # t
        PROVE  LinesOf(u)'
    <3>1. LinesOf(u)
      BY DEF TailerInv, LinesInv
    <3>2. /\ old'[u] = old[u] /\ new'[u] = new[u] /\ place'[u] = place[u]
          /\ read'[u] = read[u] /\ written'[u] = written[u]
      BY <1>1, <1>5, <1>6, <2>2
    <3> QED
      BY <3>1, <3>2 DEF LinesOf, Unseen, GoodLine, EarlierLine, Line
  <2> QED
    BY <2>1, <2>2 DEF LinesInv
<1> QED
  BY <1>1, <1>4, <1>5, <1>6

\* Starting keeps it.
LEMMA StartStep ==
    ASSUME TailerInv, StartService \/ StartHost \/ StartFails
    PROVE  TailerInv'
<1>1. CASE StartService \/ StartHost
  <2>1. PICK t \in Trackers : InitTracker(t)
    BY <1>1 DEF StartService, StartHost, Trackers
  <2>2. /\ UNCHANGED <<format, pc, results, returned, read, withError>>
        /\ life' \in {"starting", "started"} /\ pc = "idle"
    BY <1>1 DEF StartService, StartHost, TailerInv, TypeOK
  <2>3. /\ place' \in [Trackers -> {"same", "new", "gone"}]
        /\ fds' \in [Trackers -> {"nil", "open", "closed"}]
        /\ new' \in [Trackers -> Seq(Line)] /\ old' = old /\ written' = written
        /\ waived' \in [Trackers -> SUBSET Nat]
        /\ LinesInv'
    BY <2>1, <2>2, InitTrackerStep
  <2>4. TypeOK'
    BY <2>2, <2>3 DEF TailerInv, TypeOK, CheckResult, Line
  <2>5. ResultsInv'
    BY <2>2, ResultsUnchanged DEF TailerInv
  <2> QED
    BY <2>3, <2>4, <2>5 DEF TailerInv
<1>2. CASE StartFails
  <2>1. /\ UNCHANGED <<format, place, old, new, written, pc, fds, results, returned, read,
                       withError, waived>>
        /\ life' = "failed" /\ pc = "idle"
    BY <1>2 DEF StartFails, fileVars, TailerInv, TypeOK
  <2>2. TypeOK'
    BY <2>1 DEF TailerInv, TypeOK, CheckResult, Line
  <2> QED
    BY <2>1, <2>2, ResultsUnchanged, LinesUnchanged DEF TailerInv
<1> QED
  BY <1>1, <1>2

\* A read of either file whose lines are parsed, or of the service file that fails.
LEMMA ReadsStep ==
    ASSUME TailerInv, CollectService \/ CollectHost \/ CollectHostFails \/ CollectServiceFails
    PROVE  TailerInv'
<1>1. ASSUME NEW t \in Trackers, NEW ls \in {old[t], Unseen(t)},
             ReadsOk(t, ls) \/ MissesRotation(t, ls) \/ ReadsAndFails(t, ls),
             UNCHANGED <<format, life, returned, waived>>,
             life = "started", pc' \in {"idle", "host", "return"},
             pc' = "idle" => results' = <<>>,
             results' \in Seq(CheckResult), withError' \in SUBSET Line
      PROVE  TypeOK' /\ LinesInv'
  <2>1. /\ place' \in [Trackers -> {"same", "new", "gone"}]
        /\ fds' \in [Trackers -> {"nil", "open", "closed"}]
        /\ old' \in [Trackers -> Seq(Line)] /\ new' \in [Trackers -> Seq(Line)]
        /\ written' = written
    BY <1>1, ReadSplits DEF TailerInv
  <2>2. read' \in [Trackers -> SUBSET Line] /\ LinesInv'
    BY <1>1, ReadStep DEF TailerInv
  <2>3. TypeOK'
    BY <1>1, <2>1, <2>2 DEF TailerInv, TypeOK, CheckResult, Line
  <2> QED
    BY <2>2, <2>3
<1>2. withError \in SUBSET Line /\ "service" \in Trackers /\ "host" \in Trackers
  BY DEF TailerInv, TypeOK, Trackers
<1>3. CASE CollectService
  <2>1. PICK ls \in {old["service"], old["service"] \o new["service"]} :
               /\ ReadsOk("service", ls) \/ MissesRotation("service", ls)
               /\ results' = Parsed("service", ls)
    BY <1>3 DEF CollectService
  <2>2. /\ life = "started" /\ pc = "idle" /\ pc' \in {"host", "return"}
        /\ UNCHANGED <<format, life, returned, withError, waived>>
    BY <1>3 DEF CollectService
  <2>3. ls \in {old["service"], Unseen("service")}
    BY <2>1 DEF Unseen
  <2>4. results' = results \o Parsed("service", ls)
    <3>1. results = <<>>
      BY <2>2 DEF TailerInv, TypeOK
    <3>2. Parsed("service", ls) \in Seq(CheckResult)
      <4>1. ls \in Seq(Line) /\ \A line \in ToSet(ls) : GoodLine(line)
        BY <1>2, <2>1, <2>3, ReadStep DEF TailerInv
      <4>2. format \in Formats
        BY DEF TailerInv, TypeOK
      <4> QED
        BY <1>2, <4>1, <4>2, ParsedLines DEF ParsedAsRead
    <3> DEFINE rs == Parsed("service", ls)
    <3>3. rs = <<>> \o rs
      <4> HIDE DEF rs
      <4>1. rs \in Seq(CheckResult)
        BY <3>2 DEF rs
      <4> QED
        BY <4>1
    <3> QED
      BY <2>1, <3>1, <3>3
  <2>5. results' \in Seq(CheckResult) /\ ResultsInv'
    BY <1>2, <2>1, <2>2, <2>3, <2>4, CollectStep
  <2>6. TypeOK' /\ LinesInv'
    BY <1>1, <1>2, <2>1, <2>2, <2>3, <2>5
  <2> QED
    BY <2>5, <2>6 DEF TailerInv
<1>4. CASE CollectHost \/ CollectHostFails
  <2>1. PICK ls \in {old["host"], Unseen("host")} :
               /\ ReadsOk("host", ls) \/ MissesRotation("host", ls) \/ ReadsAndFails("host", ls)
               /\ results' = results \o Parsed("host", ls)
    BY <1>4 DEF CollectHost, CollectHostFails, AfterHostError, Unseen
  <2>2. /\ life = "started" /\ pc' = "return"
        /\ UNCHANGED <<format, life, returned, withError, waived>>
    BY <1>4 DEF CollectHost, CollectHostFails, AfterHostError, TailerInv, TypeOK
  <2>3. results' \in Seq(CheckResult) /\ ResultsInv'
    BY <1>2, <2>1, <2>2, CollectStep
  <2>4. TypeOK' /\ LinesInv'
    BY <1>1, <1>2, <2>1, <2>2, <2>3
  <2> QED
    BY <2>3, <2>4 DEF TailerInv
<1>5. CASE CollectServiceFails
  <2> DEFINE ls == old["service"]
  <2>1. /\ ReadsAndFails("service", ls) /\ withError' = withError \cup ToSet(ls)
        /\ life = "started" /\ pc = "idle" /\ pc' = pc
        /\ UNCHANGED <<format, life, results, returned, waived>>
    BY <1>5 DEF CollectServiceFails
  <2>2. ToSet(ls) \subseteq Line
    BY <1>2, <2>1, ReadStep DEF TailerInv
  <2>3. results = <<>> /\ results \in Seq(CheckResult)
        /\ read \in [Trackers -> SUBSET Line]
    BY <2>1 DEF TailerInv, TypeOK
  <2>4. withError' \in SUBSET Line
    BY <1>2, <2>1, <2>2
  <2>5. results' \in Seq(CheckResult) /\ results' = <<>>
    BY <2>1, <2>3
  <2>6. TypeOK' /\ LinesInv'
    BY <1>1, <1>2, <2>1, <2>4, <2>5
  <2>7. /\ read'["service"] = read["service"] \cup ToSet(ls)
        /\ \A u \in Trackers \ {"service"} : read'[u] = read[u]
    BY <1>2, <2>1, <2>3 DEF ReadsAndFails
  <2>8. ResultsInv'
    <3> HIDE DEF ls
    <3>1. /\ \A u, line : HasResult(u, line)' <=> HasResult(u, line)
          /\ \A u, line : TheResult(u, line)' = TheResult(u, line)
          /\ Kept' = Kept /\ EarlierResult' = EarlierResult
      BY <2>1 DEF HasResult, ParsedLine, TheResult, Kept, EarlierResult, CheckResult
    <3>2. ASSUME NEW r \in Kept
          PROVE  \E line \in read'[r.tracker] :
                    HasResult(r.tracker, line) /\ r = TheResult(r.tracker, line)
      <4>1. PICK line \in read[r.tracker] : HasResult(r.tracker, line) /\ r = TheResult(r.tracker, line)
        BY DEF TailerInv, ResultsInv, KeptOnlyRead
      <4>2. r.tracker \in Trackers
        BY KeptIs DEF TailerInv, CheckResult
      <4>3. line \in read'[r.tracker]
        BY <2>7, <4>1, <4>2
      <4> QED
        BY <4>1, <4>3
    <3>3. ASSUME NEW u \in Trackers, NEW line \in read'[u], HasResult(u, line)
          PROVE  TheResult(u, line) \in Kept \/ (u = "service" /\ line \in withError')
      <4>1. CASE line \in read[u]
        BY <2>1, <3>3, <4>1 DEF TailerInv, ResultsInv, ReadIsKept
      <4>2. CASE line \notin read[u]
        BY <2>1, <2>7, <4>2
      <4> QED
        BY <4>1, <4>2
    <3>4. IsOrdered((returned \o results)', EarlierResult)
      BY <2>1 DEF TailerInv, ResultsInv
    <3>5. KeptOnlyRead'
      BY <3>1, <3>2 DEF KeptOnlyRead
    <3>6. ReadIsKept'
      BY <3>1, <3>3 DEF ReadIsKept
    <3> QED
      BY <3>1, <3>4, <3>5, <3>6 DEF ResultsInv
  <2> QED
    BY <2>6, <2>8 DEF TailerInv
<1> QED
  BY <1>3, <1>4, <1>5

\* What collect returns is what it has kept.
LEMMA ReturnStep ==
    ASSUME TailerInv, Return
    PROVE  TailerInv'
<1>1. /\ UNCHANGED <<format, place, old, new, written, life, fds, read, withError, waived>>
      /\ returned' = returned \o results /\ results' = <<>> /\ pc' = "idle"
  BY DEF Return, fileVars
<1>2. results \in Seq(CheckResult) /\ returned \in Seq(CheckResult)
  BY DEF TailerInv, TypeOK
<1> DEFINE all == returned \o results
<1>3. all \in Seq(CheckResult) /\ ToSet(all) = ToSet(returned) \cup ToSet(results)
  BY <1>2, SetJoined
<1>4. IsOrdered(all, EarlierResult)
  BY DEF TailerInv, ResultsInv
<1>5. returned' = all /\ results' = <<>>
  BY <1>1
<1> HIDE DEF all
<1>6. returned' \o results' = all /\ results' \o returned' = all
  BY <1>3, <1>5
<1>7. Kept' = Kept
  <2>1. Kept' = ToSet(all)
    BY <1>6 DEF Kept
  <2> QED
    BY <1>3, <2>1, KeptIs DEF TailerInv
<1>8. ResultsInv'
  <2>1. /\ \A u, line : HasResult(u, line)' <=> HasResult(u, line)
        /\ \A u, line : TheResult(u, line)' = TheResult(u, line)
        /\ EarlierResult' = EarlierResult
    BY <1>1 DEF HasResult, ParsedLine, TheResult, EarlierResult, CheckResult
  <2>2. KeptOnlyRead'
    BY <1>1, <1>7, <2>1 DEF TailerInv, ResultsInv, KeptOnlyRead
  <2>3. ReadIsKept'
    BY <1>1, <1>7, <2>1 DEF TailerInv, ResultsInv, ReadIsKept
  <2>4. IsOrdered((returned \o results)', EarlierResult)
    BY <1>4, <1>6
  <2> QED
    BY <2>1, <2>2, <2>3, <2>4 DEF ResultsInv
<1>9. TypeOK'
  <2>1. results' \in Seq(CheckResult) /\ returned' \in Seq(CheckResult)
    BY <1>3, <1>5, NoneIsOrdered
  <2> QED
    BY <1>1, <2>1 DEF TailerInv, TypeOK, CheckResult, Line
<1> QED
  BY <1>1, <1>8, <1>9, LinesUnchanged DEF TailerInv

\* Shutting down keeps it.
LEMMA ShutdownStep ==
    ASSUME TailerInv, Shutdown
    PROVE  TailerInv'
<1>1. /\ UNCHANGED <<format, place, old, new, written, pc, results, returned, read,
                     withError, waived>>
      /\ life' = "stopped" /\ pc = "idle"
      /\ fds' = [t \in Trackers |->
                   IF t \in ToClose /\ fds[t] = "open" THEN "closed" ELSE fds[t]]
  BY DEF Shutdown, fileVars
<1>2. fds' \in [Trackers -> {"nil", "open", "closed"}]
  BY <1>1 DEF TailerInv, TypeOK
<1>3. TypeOK'
  BY <1>1, <1>2 DEF TailerInv, TypeOK, CheckResult, Line
<1> QED
  BY <1>1, <1>3, ResultsUnchanged, LinesUnchanged DEF TailerInv

\* It holds initially.
LEMMA TailerInit == Init => TailerInv
<1>1. SUFFICES ASSUME Init
               PROVE  TailerInv
  OBVIOUS
<1>2. /\ <<>> \in Seq(Line) /\ <<>> \in Seq(CheckResult) /\ ToSet(<<>>) = {}
      /\ \A L : IsOrdered(<<>>, L)
  BY NoneIsOrdered
<1>3. <<>> \o <<>> = <<>>
  OBVIOUS
<1>4. TypeOK
  <2>1. \A t \in Trackers : 0 <= MaxLine[t]
    <3>1. MaxLine \in [Trackers -> Nat]
      BY FileTailerAssumption
    <3> QED
      BY <3>1
  <2> QED
    BY <1>1, <1>2, <2>1 DEF Init, TypeOK
<1>5. LinesInv
  <2>1. ASSUME NEW t \in Trackers
        PROVE  /\ Unseen(t) = <<>> /\ new[t] = <<>> /\ read[t] = {}
    BY <1>1, <1>3 DEF Init, Unseen
  <2> QED
    BY <1>2, <2>1 DEF LinesInv, LinesOf
<1>6. ResultsInv
  <2>1. Kept = {} /\ returned \o results = <<>> /\ \A t \in Trackers : read[t] = {}
    BY <1>1, <1>2, <1>3 DEF Init, Kept
  <2> QED
    BY <1>2, <2>1 DEF ResultsInv, KeptOnlyRead, ReadIsKept
<1> QED
  BY <1>4, <1>5, <1>6 DEF TailerInv

\* Every step keeps it.
LEMMA TailerNext ==
    ASSUME TailerInv, [Next]_vars
    PROVE  TailerInv'
<1>1. ASSUME NEW t \in Used, LogLine(t) \/ Rotate(t) \/ Create(t)
      PROVE  TailerInv'
  BY <1>1, LogLineStep, RotateStep
<1>2. CASE StartService \/ StartHost \/ StartFails
  BY <1>2, StartStep
<1>3. CASE Collect
  BY <1>3, ReadsStep, ReturnStep DEF Collect
<1>4. CASE Shutdown
  BY <1>4, ShutdownStep
<1>5. CASE UNCHANGED vars
  <2>1. TypeOK'
    BY <1>5 DEF vars, TailerInv, TypeOK, CheckResult, Line
  <2> QED
    BY <1>5, <2>1, ResultsUnchanged, LinesUnchanged DEF vars, TailerInv
<1> QED
  BY <1>1, <1>2, <1>3, <1>4, <1>5 DEF Next

\* Lines that have been read are good ones.
LEMMA ReadIsGood ==
    ASSUME TailerInv, NEW t \in Trackers, NEW line \in read[t]
    PROVE  line \in Line /\ GoodLine(line) /\ format \in Formats
BY DEF TailerInv, TypeOK, LinesInv, LinesOf

\* It says what the results are.
LEMMA InvOfTheirLines == TailerInv => ResultsAreOfTheirLines
<1>1. SUFFICES ASSUME TailerInv, NEW r \in Kept
               PROVE  \E line \in read[r.tracker] :
                         /\ line.n = r.n
                         /\ IF line.check = NoCheck
                              THEN StandsIn(r.result, line.text)
                              ELSE r.result = Meaning(format, line.check, r.tracker = "host")
  BY DEF ResultsAreOfTheirLines
<1> DEFINE t == r.tracker
<1>2. PICK line \in read[t] : HasResult(t, line) /\ r = TheResult(t, line)
  BY <1>1 DEF TailerInv, ResultsInv, KeptOnlyRead
<1>3. t \in Trackers
  BY <1>1, KeptIs DEF TailerInv, CheckResult
<1> HIDE DEF t
<1>4. line \in Line /\ GoodLine(line) /\ format \in Formats
  BY <1>1, <1>3, ReadIsGood
<1>5. line.n = r.n
  BY <1>2 DEF TheResult
<1>6. IF line.check = NoCheck THEN StandsIn(r.result, line.text)
      ELSE r.result = Meaning(format, line.check, t = "host")
  BY <1>2, <1>3, <1>4, LineParses
<1> QED
  BY <1>5, <1>6 DEF t

\* It says that nothing is dropped.
LEMMA InvDropped == TailerInv => NothingDropped
<1>1. SUFFICES ASSUME TailerInv, NEW t \in Trackers, NEW line \in read[t],
                      line.check # NoCheck, ~LosesItsLastField(line),
                      ~(t = "service" /\ line \in withError)
               PROVE  ResultOf(t, line)
  BY DEF NothingDropped
<1>2. HasResult(t, line)
  BY <1>1, ReadIsGood, LineParses
<1>3. TheResult(t, line) \in Kept
  BY <1>1, <1>2 DEF TailerInv, ResultsInv, ReadIsKept
<1> QED
  BY <1>3 DEF ResultOf, TheResult

\* It says that the results are in the order of their lines.
LEMMA InvOrdered == TailerInv => ReturnedInOrder
<1>1. SUFFICES ASSUME TailerInv, NEW i \in DOMAIN returned, NEW j \in DOMAIN returned, i < j,
                      returned[i].tracker = returned[j].tracker
               PROVE  returned[i].n < returned[j].n
  BY DEF ReturnedInOrder
<1>2. IsOrdered(returned, EarlierResult)
  <2>1. returned \in Seq(CheckResult) /\ results \in Seq(CheckResult)
    BY <1>1 DEF TailerInv, TypeOK
  <2>2. IsOrdered(returned \o results, EarlierResult)
    BY <1>1 DEF TailerInv, ResultsInv
  <2> QED
    BY <2>1, <2>2, OrderedJoined
<1>3. <<returned[i], returned[j]>> \in EarlierResult
  BY <1>1, <1>2 DEF IsOrdered
<1> QED
  BY <1>1, <1>3 DEF EarlierResult

\* Every line that has been read is earlier in its file than every line that has not; what
\* the tailer keeps comes from lines it has read, in their order; and what a line gives
\* is kept, unless it was drained by a read of the service file that failed.
THEOREM TailerInvariant == Spec => []TailerInv
BY TailerInit, TailerNext, PTL DEF Spec

\* Every variable of the tailer keeps its type, the results of a collect among them:
\* whatever the parsers make of a line is a NagiosCheckResult.
THEOREM TypesKept == Spec => []TypeOK
<1>1. TailerInv => TypeOK
  BY DEF TailerInv
<1> QED
  BY <1>1, TailerInvariant, PTL

\* A check result that has been read off its file reaches the scraper, unless the service
\* file's reader returned it with an error or its line has lost its last field: across
\* rotations, missed rotations and files that do not open.
THEOREM NothingIsDropped == Spec => []NothingDropped
BY InvDropped, TailerInvariant, PTL

\* Every result comes from one line of its file: if a check wrote that line, it is what
\* the check gave, each field in its place, whatever fragments are read before and after
\* it; if none did, it is a result that no check gave, with nothing in it from outside of
\* its line (a state other than UNKNOWN and a time other than 0 included).
THEOREM EachOfItsLine == Spec => []ResultsAreOfTheirLines
BY InvOfTheirLines, TailerInvariant, PTL

\* No line is returned twice, and the lines of one file keep their order.
THEOREM ResultsInOrder == Spec => []ReturnedInOrder
BY InvOrdered, TailerInvariant, PTL

-----------------------------------------------------------------------------
(***************************************************************************)
(* Descriptors.                                                            *)
(***************************************************************************)
\* Only collect opens a descriptor once start is over, and collect runs only while
\* the tailer is started.
RunsWhileStarted == pc # "idle" => life = "started"

LeakInv == RunsWhileStarted /\ NoDescriptorLeak

\* A step that opens a descriptor ends in a state in which the tailer is not stopped.
LEMMA LeakNext ==
    ASSUME LeakInv, [Next]_vars
    PROVE  LeakInv'
<1>1. ASSUME NEW t \in Used, LogLine(t) \/ Rotate(t) \/ Create(t)
      PROVE  LeakInv'
  BY <1>1 DEF LogLine, Rotate, Create, LeakInv, RunsWhileStarted, NoDescriptorLeak
<1>2. CASE StartService
  <2>1. life' \in {"starting", "started"} /\ pc' = pc /\ life = "new"
    BY <1>2 DEF StartService
  <2> QED
    BY <2>1 DEF LeakInv, RunsWhileStarted, NoDescriptorLeak
<1>3. CASE StartHost
  <2>1. life' = "started" /\ pc' = pc /\ life = "starting"
    BY <1>3 DEF StartHost
  <2> QED
    BY <2>1 DEF LeakInv, RunsWhileStarted, NoDescriptorLeak
<1>4. CASE StartFails
  <2>1. life' = "failed" /\ pc' = pc /\ life \in {"new", "starting"}
    BY <1>4 DEF StartFails
  <2> QED
    BY <2>1 DEF LeakInv, RunsWhileStarted, NoDescriptorLeak
<1>5. CASE Collect
  <2>1. life = "started" /\ life' = life
    BY <1>5 DEF Collect, CollectService, CollectServiceFails, CollectHost, CollectHostFails,
                Return, LeakInv, RunsWhileStarted
  <2> QED
    BY <2>1 DEF LeakInv, RunsWhileStarted, NoDescriptorLeak
<1>6. CASE Shutdown
  <2>1. /\ pc = "idle" /\ pc' = pc
        /\ \A t \in Trackers :
              fds'[t] = IF t \in ToClose /\ fds[t] = "open" THEN "closed" ELSE fds[t]
    BY <1>6 DEF Shutdown
  <2>2. \A t \in Trackers : fds'[t] # "open"
    BY <2>1 DEF ToClose
  <2> QED
    BY <2>1, <2>2 DEF LeakInv, RunsWhileStarted, NoDescriptorLeak
<1>7. CASE UNCHANGED vars
  BY <1>7 DEF vars, LeakInv, RunsWhileStarted, NoDescriptorLeak
<1> QED
  BY <1>1, <1>2, <1>3, <1>4, <1>5, <1>6, <1>7 DEF Next

\* After shutdown neither perfdata file is open: also when start opened the service
\* file and failed on the host file, and after collects that closed, reopened and
\* failed to reopen either of them.
THEOREM NothingLeaks == Spec => []NoDescriptorLeak
<1>1. Init => LeakInv
  BY DEF Init, LeakInv, RunsWhileStarted, NoDescriptorLeak
<1>2. LeakInv => NoDescriptorLeak
  BY DEF LeakInv
<1> QED
  BY <1>1, <1>2, LeakNext, PTL DEF Spec
=============================================================================
