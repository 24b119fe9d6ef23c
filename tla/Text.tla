-------------------------------- MODULE Text --------------------------------
(***************************************************************************)
(* The functions of Go's package strings that the parsers use.  A text is  *)
(* a sequence of characters, or of words where no parser looks into them.  *)
(***************************************************************************)
EXTENDS SequencesExt

Where(s, C) == {k \in DOMAIN s : s[k] \in C}

\* strings.Trim; strings.TrimSpace where C is the set of blanks.
Trim(s, C) ==
    LET kept == DOMAIN s \ Where(s, C)
    IN  IF kept = {} THEN <<>> ELSE SubSeq(s, Min(kept), Max(kept))

\* strings.TrimPrefix
WithoutPrefix(s, c) == IF s # <<>> /\ Head(s) = c THEN Tail(s) ELSE s

\* The parts of the first k characters of s, for every k.
PartsUpTo(s, c) ==
    LET split[k \in 0..Len(s)] ==
          IF k = 0 THEN << <<>> >>
          ELSE LET parts == split[k - 1]
               IN  IF s[k] = c THEN Append(parts, <<>>)
                   ELSE ReplaceAt(parts, Len(parts), Append(Last(parts), s[k]))
    IN  split

\* strings.Split
Split(s, c) == PartsUpTo(s, c)[Len(s)]

\* strings.Join, of one part at least.
Join(parts, c) == Tail(FlattenSeq([k \in DOMAIN parts |-> <<c>> \o parts[k]]))

\* s up to the first c, and what follows it (strings.Index).
Index(s, c) == Min(Where(s, {c}) \cup {Len(s) + 1})
Before(s, c) == SubSeq(s, 1, Index(s, c) - 1)
After(s, c) == SubSeq(s, Index(s, c) + 1, Len(s))
=============================================================================
