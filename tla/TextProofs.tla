----------------------------- MODULE TextProofs -----------------------------
(***************************************************************************)
(* Lemmas about the functions of Text, for texts of any length.  The       *)
(* recursive ones are reasoned about by induction, which is derived from   *)
(* the fact that the natural numbers are well founded.                     *)
(***************************************************************************)
EXTENDS Text, WellFoundedInduction, TLAPS

-----------------------------------------------------------------------------
(***************************************************************************)
(* Numbers.                                                                *)
(***************************************************************************)
\* A non-empty set of numbers has a least element.
LEMMA LeastNumber ==
    ASSUME NEW T, T \subseteq Nat, T # {}
    PROVE  \E m \in T : \A k \in T : m <= k
<1> DEFINE R == OpToRel(<, Nat)
<1>1. IsWellFoundedOn(R, Nat)
  BY NatLessThanWellFounded
<1>2. \A m, k \in Nat : k < m => <<k, m>> \in R
  BY DEF OpToRel
<1> HIDE DEF R
<1>3. PICK m \in T : \A k \in T : <<k, m>> \notin R
  BY <1>1, WFMin
<1>4. ASSUME NEW k \in T
      PROVE  m <= k
  <2>1. <<k, m>> \notin R /\ k \in Nat /\ m \in Nat
    BY <1>3
  <2> QED
    BY <1>2, <2>1
<1> QED
  BY <1>4

\* Induction up to N, over the set of the numbers that have the property.
LEMMA Induction ==
    ASSUME NEW N \in Nat, NEW S, 0 \in S, \A n \in 0..(N - 1) : n \in S => n + 1 \in S
    PROVE  0..N \subseteq S
<1> DEFINE T == (0..N) \ S
<1>1. SUFFICES ASSUME T # {}
               PROVE  FALSE
  OBVIOUS
<1>2. PICK m \in T : \A k \in T : m <= k
  <2>1. T \subseteq Nat
    OBVIOUS
  <2> HIDE DEF T
  <2> QED
    BY <1>1, <2>1, LeastNumber
<1>3. m \in Nat /\ m # 0
  OBVIOUS
<1>4. m - 1 \in 0..(N - 1) /\ m - 1 \notin T
  BY <1>2, <1>3
<1> QED
  BY <1>3, <1>4

\* The least element of a set of numbers is its minimum.
LEMMA MinIsLeast ==
    ASSUME NEW T, T \subseteq Nat, T # {}
    PROVE  Min(T) \in T /\ \A k \in T : Min(T) <= k
BY LeastNumber DEF Min

\* A bounded set of numbers has a maximum.
LEMMA MaxIsGreatest ==
    ASSUME NEW N \in Nat, NEW T, T \subseteq 0..N, T # {}
    PROVE  Max(T) \in T /\ \A k \in T : Max(T) >= k
<1> DEFINE D == {N - k : k \in T}
<1>1. D \subseteq Nat /\ D # {}
  <2>1. \A k \in T : k \in Nat /\ N - k \in Nat
    OBVIOUS
  <2> QED
    BY <2>1
<1>2. \E d \in D : \A e \in D : d <= e
  <2> HIDE DEF D
  <2> QED
    BY <1>1, LeastNumber
<1>3. PICK m \in T : \A k \in T : N - m <= N - k
  BY <1>2
<1>4. \A k \in T : m >= k
  <2>1. SUFFICES ASSUME NEW k \in T
                 PROVE  m >= k
    OBVIOUS
  <2>2. m \in Nat /\ k \in Nat /\ N - m <= N - k
    BY <1>3
  <2> QED
    BY <2>2
<1> QED
  BY <1>4 DEF Max

-----------------------------------------------------------------------------
(***************************************************************************)
(* Sequences.                                                              *)
(***************************************************************************)
LEMMA FunctionIsSequence ==
    ASSUME NEW n \in Nat, NEW B, NEW f \in [1..n -> B]
    PROVE  f \in Seq(B) /\ Len(f) = n
OBVIOUS

\* A stretch of a sequence, one element longer.
LEMMA StretchExtended ==
    ASSUME NEW A, NEW s \in Seq(A), NEW a \in 1..(Len(s) + 1), NEW b \in (a - 1)..(Len(s) - 1)
    PROVE  SubSeq(s, a, b + 1) = Append(SubSeq(s, a, b), s[b + 1])
<1>1. SubSeq(s, a, b) \in Seq(A) /\ Len(SubSeq(s, a, b)) = b - a + 1
  OBVIOUS
<1>2. SubSeq(s, a, b + 1) \in Seq(A) /\ Len(SubSeq(s, a, b + 1)) = b - a + 2
  OBVIOUS
<1>3. \A k \in 1..(b - a + 2) :
         SubSeq(s, a, b + 1)[k] = Append(SubSeq(s, a, b), s[b + 1])[k]
  OBVIOUS
<1> QED
  BY <1>1, <1>2, <1>3

\* Only the last element of a sequence changes when it is replaced.
LEMMA LastReplaced ==
    ASSUME NEW A, NEW ps \in Seq(A), NEW x \in A, NEW y \in A
    PROVE  ReplaceAt(Append(ps, x), Len(Append(ps, x)), y) = Append(ps, y)
<1> DEFINE q == Append(ps, x)
           r == Append(ps, y)
<1>1. /\ q \in Seq(A) /\ Len(q) = Len(ps) + 1 /\ \A k \in 1..Len(ps) : q[k] = ps[k]
      /\ r \in Seq(A) /\ Len(r) = Len(ps) + 1 /\ \A k \in 1..Len(ps) : r[k] = ps[k]
      /\ r[Len(ps) + 1] = y /\ Len(ps) \in Nat
  OBVIOUS
<1> HIDE DEF q, r
<1> DEFINE e == [q EXCEPT ![Len(q)] = y]
<1>2. e \in Seq(A) /\ Len(e) = Len(q)
  BY <1>1
<1>3. \A k \in 1..Len(q) : e[k] = r[k]
  BY <1>1
<1> HIDE DEF e
<1>4. e = r
  BY <1>1, <1>2, <1>3
<1> QED
  BY <1>4 DEF e, q, r, ReplaceAt

\* What appending gives.
LEMMA Appended ==
    ASSUME NEW A, NEW s \in Seq(A), NEW x \in A
    PROVE  /\ Append(s, x) \in Seq(A) /\ Append(s, x) # <<>>
           /\ Len(Append(s, x)) = Len(s) + 1 /\ Len(s) \in Nat
           /\ DOMAIN s = 1..Len(s) /\ DOMAIN Append(s, x) = 1..(Len(s) + 1)
           /\ \A i \in DOMAIN s : Append(s, x)[i] = s[i]
           /\ Append(s, x)[Len(s) + 1] = x
OBVIOUS

\* What is made of every element of a sequence.
LEMMA Mapped ==
    ASSUME NEW A, NEW B, NEW F \in [A -> B], NEW s \in Seq(A)
    PROVE  /\ [k \in DOMAIN s |-> F[s[k]]] \in Seq(B)
           /\ Len([k \in DOMAIN s |-> F[s[k]]]) = Len(s)
           /\ DOMAIN s = 1..Len(s) /\ Len(s) \in Nat
<1> DEFINE m == [k \in DOMAIN s |-> F[s[k]]]
<1>1. DOMAIN s = 1..Len(s) /\ Len(s) \in Nat /\ \A k \in DOMAIN s : F[s[k]] \in B
  OBVIOUS
<1>2. m \in [1..Len(s) -> B]
  BY <1>1
<1> HIDE DEF m
<1>3. m \in Seq(B) /\ Len(m) = Len(s)
  BY <1>1, <1>2, FunctionIsSequence
<1> QED
  BY <1>1, <1>3 DEF m

\* One more element gives one more image.
LEMMA MappedAppended ==
    ASSUME NEW A, NEW B, NEW F \in [A -> B], NEW s \in Seq(A), NEW x \in A
    PROVE  [k \in DOMAIN Append(s, x) |-> F[Append(s, x)[k]]]
              = Append([k \in DOMAIN s |-> F[s[k]]], F[x])
<1> DEFINE t == Append(s, x)
           old == [k \in DOMAIN s |-> F[s[k]]]
           new == [k \in DOMAIN t |-> F[t[k]]]
           y == F[x]
           more == Append(old, y)
<1>1. /\ t \in Seq(A) /\ Len(t) = Len(s) + 1 /\ Len(s) \in Nat
      /\ DOMAIN s = 1..Len(s) /\ DOMAIN t = 1..(Len(s) + 1)
      /\ \A i \in DOMAIN s : t[i] = s[i]
      /\ t[Len(s) + 1] = x
  BY Appended
<1> HIDE DEF t
<1>2. old \in Seq(B) /\ Len(old) = Len(s) /\ \A i \in 1..Len(s) : old[i] = F[s[i]]
  BY <1>1, Mapped
<1>3. new \in Seq(B) /\ Len(new) = Len(s) + 1 /\ \A i \in 1..(Len(s) + 1) : new[i] = F[t[i]]
  BY <1>1, Mapped
<1>4. y \in B
  OBVIOUS
<1> HIDE DEF old, new, y
<1>5. /\ more \in Seq(B) /\ Len(more) = Len(s) + 1 /\ \A i \in 1..Len(s) : more[i] = old[i]
      /\ more[Len(s) + 1] = y
  BY <1>2, <1>4, Appended
<1> HIDE DEF more
<1>6. \A i \in 1..Len(s) : more[i] = new[i]
  BY <1>1, <1>2, <1>3, <1>5
<1>7. more[Len(s) + 1] = new[Len(s) + 1]
  BY <1>1, <1>3, <1>5 DEF y
<1>8. \A i \in 1..(Len(s) + 1) : more[i] = new[i]
  BY <1>1, <1>6, <1>7
<1>9. new = more
  BY <1>1, <1>3, <1>5, <1>8
<1> QED
  BY <1>9 DEF new, more, old, y, t

\* Two texts that are put together, and taken apart again.
AreJoined(s, t, u) ==
    /\ Len(u) = Len(s) + Len(t) /\ DOMAIN u = 1..(Len(s) + Len(t))
    /\ Len(s) \in Nat /\ Len(t) \in Nat /\ DOMAIN s = 1..Len(s) /\ DOMAIN t = 1..Len(t)
    /\ \A i \in 1..Len(s) : u[i] = s[i]
    /\ \A i \in 1..Len(t) : u[Len(s) + i] = t[i]

\* Two texts make one.
LEMMA TwoTexts ==
    ASSUME NEW A, NEW s \in Seq(A), NEW t \in Seq(A)
    PROVE  s \o t \in Seq(A) /\ AreJoined(s, t, s \o t)
BY DEF AreJoined

\* A sequence is all of its stretches from first to last.
LEMMA WholeStretch ==
    ASSUME NEW A, NEW s \in Seq(A)
    PROVE  SubSeq(s, 1, Len(s)) = s
OBVIOUS

-----------------------------------------------------------------------------
(***************************************************************************)
(* Split.                                                                  *)
(***************************************************************************)
\* What the k-th character makes of the parts before it.
NextParts(s, c, k, parts) ==
    IF s[k] = c THEN Append(parts, <<>>)
    ELSE ReplaceAt(parts, Len(parts), Append(Last(parts), s[k]))

\* The recursion that defines PartsUpTo has a solution.
LEMMA PartsUpToIs ==
    ASSUME NEW A, NEW s \in Seq(A), NEW c
    PROVE  PartsUpTo(s, c) =
              [k \in 0..Len(s) |->
                  IF k = 0 THEN << <<>> >> ELSE NextParts(s, c, k, PartsUpTo(s, c)[k - 1])]
<1> DEFINE Solves(g, n) ==
             g = [k \in 0..n |-> IF k = 0 THEN << <<>> >> ELSE NextParts(s, c, k, g[k - 1])]
           S == {n \in 0..Len(s) : \E g : Solves(g, n)}
<1>1. 0 \in S
  <2>1. Solves([k \in 0..0 |-> << <<>> >>], 0)
    OBVIOUS
  <2> HIDE DEF Solves
  <2> QED
    BY <2>1
<1>2. ASSUME NEW n \in 0..(Len(s) - 1), n \in S
      PROVE  n + 1 \in S
  <2>1. PICK g : Solves(g, n)
    BY <1>2
  <2> DEFINE h == [k \in 0..(n + 1) |-> IF k = n + 1 THEN NextParts(s, c, n + 1, g[n]) ELSE g[k]]
  <2>2. Solves(h, n + 1)
    <3>1. ASSUME NEW k \in 0..(n + 1)
          PROVE  h[k] = IF k = 0 THEN << <<>> >> ELSE NextParts(s, c, k, h[k - 1])
      BY <2>1
    <3>2. h = [k \in 0..(n + 1) |-> h[k]]
      OBVIOUS
    <3> HIDE DEF h
    <3> QED
      BY <3>1, <3>2
  <2> HIDE DEF Solves, h
  <2> QED
    BY <2>2
<1>3. \E g : Solves(g, Len(s))
  <2>1. Len(s) \in Nat /\ \A n \in 0..(Len(s) - 1) : n \in S => n + 1 \in S
    BY <1>2
  <2> HIDE DEF S
  <2>2. 0..Len(s) \subseteq S
    BY <1>1, <2>1, Induction
  <2>3. Len(s) \in S
    BY <2>1, <2>2
  <2> QED
    BY <2>3 DEF S
<1>4. PartsUpTo(s, c) = CHOOSE g : Solves(g, Len(s))
  BY DEF PartsUpTo, NextParts
<1>5. Solves(PartsUpTo(s, c), Len(s))
  <2> HIDE DEF Solves
  <2> QED
    BY <1>3, <1>4
<1> QED
  BY <1>5

\* The recursion, step by step.
IsSplitting(P, s, c) ==
    /\ P[0] = << <<>> >>
    /\ \A k \in 0..(Len(s) - 1) :
          /\ s[k + 1] = c => P[k + 1] = Append(P[k], <<>>)
          /\ s[k + 1] # c => P[k + 1] = ReplaceAt(P[k], Len(P[k]), Append(Last(P[k]), s[k + 1]))

\* So PartsUpTo follows its recursion.
LEMMA PartsUpToSteps ==
    ASSUME NEW A, NEW s \in Seq(A), NEW c
    PROVE  IsSplitting(PartsUpTo(s, c), s, c)
<1> DEFINE P == PartsUpTo(s, c)
<1>1. P = [k \in 0..Len(s) |->
              IF k = 0 THEN << <<>> >> ELSE NextParts(s, c, k, P[k - 1])]
  BY PartsUpToIs
<1>2. \A k \in 0..Len(s) : P[k] = IF k = 0 THEN << <<>> >> ELSE NextParts(s, c, k, P[k - 1])
  <2> HIDE DEF P
  <2> QED
    BY <1>1
<1>3. P[0] = << <<>> >>
  BY <1>2
<1>4. ASSUME NEW k \in 0..(Len(s) - 1)
      PROVE  P[k + 1] = NextParts(s, c, k + 1, P[k])
  <2>1. k + 1 \in 0..Len(s) /\ k + 1 # 0 /\ (k + 1) - 1 = k
    OBVIOUS
  <2> HIDE DEF P
  <2> QED
    BY <1>2, <2>1
<1> HIDE DEF P
<1>5. ASSUME NEW k \in 0..(Len(s) - 1)
      PROVE  /\ s[k + 1] = c => P[k + 1] = Append(P[k], <<>>)
             /\ s[k + 1] # c =>
                   P[k + 1] = ReplaceAt(P[k], Len(P[k]), Append(Last(P[k]), s[k + 1]))
  BY <1>4 DEF NextParts
<1> QED
  BY <1>3, <1>5 DEF P, IsSplitting

\* Splitting gives at least one part, and only characters of the text.
LEMMA PartsUpToType ==
    ASSUME NEW A, NEW s \in Seq(A), NEW c
    PROVE  \A k \in 0..Len(s) :
              PartsUpTo(s, c)[k] \in Seq(Seq(A)) /\ PartsUpTo(s, c)[k] # <<>>
<1> DEFINE P == PartsUpTo(s, c)
           S == {k \in 0..Len(s) : P[k] \in Seq(Seq(A)) /\ P[k] # <<>>}
<1>1. IsSplitting(P, s, c)
  BY PartsUpToSteps
<1>2. 0 \in S
  <2>1. <<>> \in Seq(A)
    OBVIOUS
  <2>2. P[0] = << <<>> >>
    BY <1>1 DEF IsSplitting
  <2> HIDE DEF P
  <2>3. P[0] \in Seq(Seq(A)) /\ P[0] # <<>>
    BY <2>1, <2>2
  <2> QED
    BY <2>3
<1>3. ASSUME NEW k \in 0..(Len(s) - 1), k \in S
      PROVE  k + 1 \in S
  <2>1. k + 1 \in 1..Len(s) /\ (k + 1) - 1 = k /\ s[k + 1] \in A
    OBVIOUS
  <2> HIDE DEF P
  <2>2. P[k] \in Seq(Seq(A)) /\ P[k] # <<>> /\ Len(P[k]) \in 1..Len(P[k])
    BY <1>3
  <2>3. CASE s[k + 1] = c
    <3>1. P[k + 1] = Append(P[k], <<>>)
      BY <2>3, <1>1 DEF IsSplitting
    <3>2. <<>> \in Seq(A)
      OBVIOUS
    <3>3. P[k + 1] \in Seq(Seq(A)) /\ P[k + 1] # <<>>
      BY SMTT(30), <2>2, <3>1, <3>2
    <3> QED
      BY <2>1, <3>3
  <2>4. CASE s[k + 1] # c
    <3>1. P[k + 1] = ReplaceAt(P[k], Len(P[k]), Append(Last(P[k]), s[k + 1]))
      BY <2>4, <1>1 DEF IsSplitting
    <3>2. Last(P[k]) \in Seq(A)
      BY <2>2 DEF Last
    <3>3. Append(Last(P[k]), s[k + 1]) \in Seq(A)
      BY <2>1, <3>2
    <3>4. P[k + 1] \in Seq(Seq(A)) /\ Len(P[k + 1]) = Len(P[k])
      BY <2>2, <3>1, <3>3 DEF ReplaceAt
    <3> QED
      BY <2>1, <2>2, <3>4
  <2> QED
    BY <2>3, <2>4
<1>4. Len(s) \in Nat /\ \A k \in 0..(Len(s) - 1) : k \in S => k + 1 \in S
  BY <1>3
<1> HIDE DEF S
<1>5. 0..Len(s) \subseteq S
  BY <1>2, <1>4, Induction
<1> QED
  BY <1>5 DEF S

\* Split gives texts, and at least one.
LEMMA SplitType ==
    ASSUME NEW A, NEW s \in Seq(A), NEW c
    PROVE  Split(s, c) \in Seq(Seq(A)) /\ Split(s, c) # <<>>
BY PartsUpToType DEF Split

\* The parts of a beginning of a text depend on nothing that follows it.
LEMMA PartsOfPrefix ==
    ASSUME NEW A, NEW s \in Seq(A), NEW t \in Seq(A), NEW c,
           NEW n \in Nat, n <= Len(s), n <= Len(t), \A k \in 1..n : s[k] = t[k]
    PROVE  PartsUpTo(s, c)[n] = PartsUpTo(t, c)[n]
<1> DEFINE P == PartsUpTo(s, c)
           Q == PartsUpTo(t, c)
           S == {k \in 0..n : P[k] = Q[k]}
<1>1. IsSplitting(P, s, c) /\ IsSplitting(Q, t, c)
  BY PartsUpToSteps
<1> HIDE DEF P, Q
<1>2. 0 \in S
  <2>1. P[0] = << <<>> >>
    BY <1>1 DEF IsSplitting
  <2>2. Q[0] = << <<>> >>
    BY <1>1 DEF IsSplitting
  <2>3. 0 \in 0..n
    OBVIOUS
  <2> QED
    BY <2>1, <2>2, <2>3
<1>3. ASSUME NEW k \in 0..(n - 1), k \in S
      PROVE  k + 1 \in S
  <2>1. k \in 0..(Len(s) - 1) /\ k \in 0..(Len(t) - 1) /\ s[k + 1] = t[k + 1] /\ P[k] = Q[k]
    BY <1>3
  <2>2. P[k + 1] = Q[k + 1]
    BY <1>1, <2>1 DEF IsSplitting
  <2> QED
    BY <2>2
<1>4. \A k \in 0..(n - 1) : k \in S => k + 1 \in S
  BY <1>3
<1> HIDE DEF S
<1>5. 0..n \subseteq S
  BY <1>2, <1>4, Induction
<1> QED
  BY <1>5 DEF S, P, Q

\* Where a new part begins and c does not come again, the part is what is left.
LEMMA LastPart ==
    ASSUME NEW A, NEW s \in Seq(A), NEW c, NEW n \in 0..Len(s), NEW ps \in Seq(Seq(A)),
           PartsUpTo(s, c)[n] = Append(ps, <<>>), \A k \in (n + 1)..Len(s) : s[k] # c
    PROVE  Split(s, c) = Append(ps, SubSeq(s, n + 1, Len(s)))
<1> DEFINE P == PartsUpTo(s, c)
           S == {j \in 0..(Len(s) - n) : P[n + j] = Append(ps, SubSeq(s, n + 1, n + j))}
<1>1. IsSplitting(P, s, c)
  BY PartsUpToSteps
<1>2. P[n] = Append(ps, <<>>)
  OBVIOUS
<1> HIDE DEF P
<1>3. 0 \in S
  <2>1. SubSeq(s, n + 1, n + 0) = <<>> /\ n + 0 = n /\ 0 \in 0..(Len(s) - n)
    OBVIOUS
  <2>2. P[n + 0] = Append(ps, SubSeq(s, n + 1, n + 0))
    BY <1>2, <2>1
  <2> QED
    BY <2>1, <2>2
<1>4. ASSUME NEW j \in 0..(Len(s) - n - 1), j \in S
      PROVE  j + 1 \in S
  <2> DEFINE w == SubSeq(s, n + 1, n + j)
             x == s[n + j + 1]
  <2>1. /\ n + j \in 0..(Len(s) - 1) /\ x # c /\ (n + j) + 1 = n + (j + 1)
        /\ j + 1 \in 0..(Len(s) - n) /\ x \in A
    OBVIOUS
  <2>2. P[n + j] = Append(ps, w)
    BY <1>4
  <2>3. w \in Seq(A)
    OBVIOUS
  <2> HIDE DEF w
  <2>4. P[(n + j) + 1] = ReplaceAt(P[n + j], Len(P[n + j]), Append(Last(P[n + j]), x))
    BY <1>1, <2>1 DEF IsSplitting
  <2> HIDE DEF x
  <2>5. Last(P[n + j]) = w
    <3>1. Append(ps, w)[Len(Append(ps, w))] = w
      BY <2>3
    <3> QED
      BY <2>2, <3>1 DEF Last
  <2>6. P[(n + j) + 1] = ReplaceAt(P[n + j], Len(P[n + j]), Append(w, x))
    BY <2>4, <2>5
  <2>8. P[n + (j + 1)] = Append(ps, Append(w, x))
    <3> DEFINE B == Seq(A)
    <3>1. ps \in Seq(B) /\ w \in B /\ Append(w, x) \in B
      BY <2>1, <2>3
    <3> HIDE DEF B
    <3>2. ReplaceAt(Append(ps, w), Len(Append(ps, w)), Append(w, x)) = Append(ps, Append(w, x))
      BY <3>1, LastReplaced
    <3> QED
      BY <2>1, <2>2, <2>6, <3>2
  <2>7. Append(w, x) = SubSeq(s, n + 1, n + (j + 1))
    BY <2>1, StretchExtended DEF w, x
  <2> QED
    BY <2>1, <2>7, <2>8
<1> HIDE DEF S
<1>5. Len(s) - n \in Nat /\ \A j \in 0..((Len(s) - n) - 1) : j \in S => j + 1 \in S
  BY <1>4
<1>6. 0..(Len(s) - n) \subseteq S
  BY <1>3, <1>5, Induction
<1>7. Len(s) - n \in S
  BY <1>5, <1>6
<1>8. n + (Len(s) - n) = Len(s)
  OBVIOUS
<1> QED
  BY <1>7, <1>8 DEF S, P, Split

\* A text without c is its only part.
LEMMA SplitOfOne ==
    ASSUME NEW A, NEW s \in Seq(A), NEW c, \A k \in DOMAIN s : s[k] # c
    PROVE  Split(s, c) = <<s>>
<1>1. PartsUpTo(s, c)[0] = Append(<<>>, <<>>)
  <2>1. PartsUpTo(s, c)[0] = << <<>> >>
    BY PartsUpToSteps DEF IsSplitting
  <2> QED
    BY <2>1
<1>2. 0 \in 0..Len(s) /\ <<>> \in Seq(Seq(A)) /\ \A k \in (0 + 1)..Len(s) : s[k] # c
  OBVIOUS
<1>3. Split(s, c) = Append(<<>>, SubSeq(s, 0 + 1, Len(s)))
  BY <1>1, <1>2, LastPart
<1> QED
  BY <1>3, WholeStretch

\* A c and a text without c add that text to the parts.
LEMMA SplitAfterAnother ==
    ASSUME NEW A, NEW s \in Seq(A), NEW c \in A, NEW w \in Seq(A),
           \A k \in DOMAIN w : w[k] # c
    PROVE  Split(s \o <<c>> \o w, c) = Append(Split(s, c), w)
<1> DEFINE t == s \o <<c>> \o w
           n == Len(s)
<1>1. /\ t \in Seq(A) /\ Len(t) = n + 1 + Len(w) /\ n \in Nat
      /\ \A k \in 1..n : t[k] = s[k]
      /\ t[n + 1] = c
      /\ \A k \in 1..Len(w) : t[n + 1 + k] = w[k]
  <2> DEFINE one == <<c>>
             h == s \o one
             u == h \o w
  <2>1. one \in Seq(A) /\ Len(one) = 1 /\ one[1] = c
    OBVIOUS
  <2> HIDE DEF one
  <2>2. h \in Seq(A) /\ AreJoined(s, one, h)
    BY <2>1, TwoTexts
  <2> HIDE DEF h
  <2>3. u \in Seq(A) /\ AreJoined(h, w, u)
    BY <2>2, TwoTexts
  <2>4. t = u
    BY DEF h, one
  <2> HIDE DEF u, t
  <2>5. /\ Len(h) = n + 1 /\ n \in Nat /\ h[n + 1] = c /\ \A k \in 1..n : h[k] = s[k]
    BY <2>1, <2>2 DEF AreJoined
  <2>6. /\ Len(u) = Len(h) + Len(w)
        /\ \A k \in 1..Len(h) : u[k] = h[k]
        /\ \A k \in 1..Len(w) : u[Len(h) + k] = w[k]
    BY <2>3 DEF AreJoined
  <2>7. n + 1 \in 1..Len(h) /\ \A k \in 1..n : k \in 1..Len(h)
    BY <2>5
  <2> QED
    BY <2>3, <2>4, <2>5, <2>6, <2>7
<1> HIDE DEF t
<1>2. PartsUpTo(t, c)[n] = Split(s, c)
  <2>1. n <= Len(s) /\ n <= Len(t)
    BY <1>1
  <2>2. \A k \in 1..n : t[k] = s[k]
    BY <1>1
  <2>3. t \in Seq(A) /\ n \in Nat
    BY <1>1
  <2> HIDE DEF n
  <2>4. PartsUpTo(t, c)[n] = PartsUpTo(s, c)[n]
    BY <2>1, <2>2, <2>3, PartsOfPrefix
  <2> QED
    BY <2>4 DEF Split, n
<1>3. PartsUpTo(t, c)[n + 1] = Append(Split(s, c), <<>>)
  <2>1. n \in 0..(Len(t) - 1) /\ t[n + 1] = c
    BY <1>1
  <2>2. IsSplitting(PartsUpTo(t, c), t, c)
    BY <1>1, PartsUpToSteps
  <2> QED
    BY <1>2, <2>1, <2>2 DEF IsSplitting
<1>4. Split(s, c) \in Seq(Seq(A))
  BY SplitType
<1>5. \A k \in ((n + 1) + 1)..Len(t) : t[k] # c
  <2>1. ASSUME NEW k \in ((n + 1) + 1)..Len(t)
        PROVE  t[k] # c
    <3> DEFINE j == k - (n + 1)
    <3>1. j \in 1..Len(w) /\ k = n + 1 + j
      BY <1>1
    <3> HIDE DEF j
    <3>2. t[k] = w[j] /\ w[j] # c
      BY <1>1, <3>1
    <3> QED
      BY <3>2
  <2> QED
    BY <2>1
<1>6. n + 1 \in 0..Len(t)
  BY <1>1
<1>7. Split(t, c) = Append(Split(s, c), SubSeq(t, (n + 1) + 1, Len(t)))
  BY ZenonT(40), <1>1, <1>3, <1>4, <1>5, <1>6, LastPart
<1>8. SubSeq(t, (n + 1) + 1, Len(t)) = w
  BY <1>1
<1> QED
  BY <1>7, <1>8 DEF t
-----------------------------------------------------------------------------
(***************************************************************************)
(* FlattenSeq and Join.                                                    *)
(***************************************************************************)
\* The recursion of FlattenSeq, step by step.
IsFlattening(F, ss) ==
    /\ F[1] = ss[1]
    /\ \A i \in 1..(Len(ss) - 1) : F[i + 1] = F[i] \o ss[i + 1]

\* FlattenSeq follows its recursion.
LEMMA FlattenSteps ==
    ASSUME NEW A, NEW ss \in Seq(A), ss # <<>>
    PROVE  \E F : IsFlattening(F, ss) /\ FlattenSeq(ss) = F[Len(ss)]
<1> DEFINE Solves(g, n) == g = [i \in 1..n |-> IF i = 1 THEN ss[i] ELSE g[i - 1] \o ss[i]]
           S == {n \in 0..Len(ss) : \E g : Solves(g, n)}
<1>1. 0 \in S
  <2>1. Solves([i \in 1..0 |-> ss[i]], 0)
    OBVIOUS
  <2> HIDE DEF Solves
  <2> QED
    BY <2>1
<1>2. ASSUME NEW n \in 0..(Len(ss) - 1), n \in S
      PROVE  n + 1 \in S
  <2>1. PICK g : Solves(g, n)
    BY <1>2
  <2> DEFINE next == IF n = 0 THEN ss[1] ELSE g[n] \o ss[n + 1]
             h == [i \in 1..(n + 1) |-> IF i = n + 1 THEN next ELSE g[i]]
  <2>2. Solves(h, n + 1)
    <3>1. ASSUME NEW i \in 1..(n + 1)
          PROVE  h[i] = IF i = 1 THEN ss[i] ELSE h[i - 1] \o ss[i]
      <4>1. \A j \in 1..n : g[j] = IF j = 1 THEN ss[j] ELSE g[j - 1] \o ss[j]
        BY <2>1
      <4>2. CASE i = n + 1
        <5>1. h[i] = next
          BY <4>2
        <5>2. n # 0 => h[i - 1] = g[n]
          BY <4>2
        <5> QED
          BY <4>2, <5>1, <5>2
      <4>3. CASE i # n + 1
        <5>1. i \in 1..n /\ h[i] = g[i] /\ (i # 1 => h[i - 1] = g[i - 1])
          BY <4>3
        <5> QED
          BY <4>1, <5>1
      <4> QED
        BY <4>2, <4>3
    <3>2. h = [i \in 1..(n + 1) |-> h[i]]
      OBVIOUS
    <3> HIDE DEF h
    <3> QED
      BY <3>1, <3>2
  <2> HIDE DEF Solves, h
  <2> QED
    BY <2>2
<1>3. \E g : Solves(g, Len(ss))
  <2> HIDE DEF S
  <2>1. Len(ss) \in Nat /\ \A n \in 0..(Len(ss) - 1) : n \in S => n + 1 \in S
    BY <1>2
  <2>2. 0..Len(ss) \subseteq S
    BY <1>1, <2>1, Induction
  <2>3. Len(ss) \in S
    BY <2>1, <2>2
  <2> QED
    BY <2>3 DEF S
<1> DEFINE F == CHOOSE g : Solves(g, Len(ss))
<1>4. FlattenSeq(ss) = F[Len(ss)]
  <2>1. Len(ss) # 0
    OBVIOUS
  <2> QED
    BY <2>1 DEF FlattenSeq
<1>5. Solves(F, Len(ss))
  <2> HIDE DEF Solves
  <2> QED
    BY <1>3
<1> HIDE DEF F
<1>6. \A i \in 1..Len(ss) : F[i] = IF i = 1 THEN ss[i] ELSE F[i - 1] \o ss[i]
  BY <1>5
<1>7. F[1] = ss[1]
  BY <1>6
<1>8. ASSUME NEW i \in 1..(Len(ss) - 1)
      PROVE  F[i + 1] = F[i] \o ss[i + 1]
  <2>1. i + 1 \in 1..Len(ss) /\ i + 1 # 1 /\ (i + 1) - 1 = i
    OBVIOUS
  <2> QED
    BY <1>6, <2>1
<1> QED
  BY <1>4, <1>7, <1>8 DEF IsFlattening

\* One more text follows what the others give.
LEMMA FlattenMore ==
    ASSUME NEW A, NEW ss \in Seq(A), NEW s \in A, ss # <<>>
    PROVE  FlattenSeq(Append(ss, s)) = FlattenSeq(ss) \o s
<1> DEFINE tt == Append(ss, s)
<1>1. /\ tt \in Seq(A) /\ tt # <<>> /\ Len(tt) = Len(ss) + 1 /\ Len(ss) \in Nat /\ Len(ss) # 0
      /\ \A i \in 1..Len(ss) : tt[i] = ss[i]
      /\ tt[Len(ss) + 1] = s
  OBVIOUS
<1> HIDE DEF tt
<1>2. PICK F : IsFlattening(F, ss) /\ FlattenSeq(ss) = F[Len(ss)]
  BY FlattenSteps
<1>3. PICK G : IsFlattening(G, tt) /\ FlattenSeq(tt) = G[Len(tt)]
  BY <1>1, FlattenSteps
<1> DEFINE S == {i \in 0..Len(ss) : i = 0 \/ F[i] = G[i]}
<1>4. 0 \in S
  BY <1>1
<1>5. ASSUME NEW i \in 0..(Len(ss) - 1), i \in S
      PROVE  i + 1 \in S
  <2>1. CASE i = 0
    <3>1. F[1] = G[1]
      BY <1>1, <1>2, <1>3 DEF IsFlattening
    <3> QED
      BY <1>1, <2>1, <3>1
  <2>2. CASE i # 0
    <3>1. i \in 1..(Len(ss) - 1) /\ i \in 1..(Len(tt) - 1) /\ F[i] = G[i] /\ ss[i + 1] = tt[i + 1]
      BY <1>1, <1>5, <2>2
    <3>2. F[i + 1] = G[i + 1]
      BY <1>2, <1>3, <3>1 DEF IsFlattening
    <3> QED
      BY <3>1, <3>2
  <2> QED
    BY <2>1, <2>2
<1>6. \A i \in 0..(Len(ss) - 1) : i \in S => i + 1 \in S
  BY <1>5
<1> HIDE DEF S
<1>7. 0..Len(ss) \subseteq S
  BY <1>1, <1>4, <1>6, Induction
<1>8. F[Len(ss)] = G[Len(ss)]
  <2>1. Len(ss) \in S
    BY <1>1, <1>7
  <2> QED
    BY <1>1, <2>1 DEF S
<1>9. Len(ss) \in 1..(Len(tt) - 1)
  BY <1>1
<1>10. G[Len(ss) + 1] = G[Len(ss)] \o tt[Len(ss) + 1]
  BY <1>3, <1>9 DEF IsFlattening
<1> QED
  BY <1>1, <1>2, <1>3, <1>8, <1>10 DEF tt

\* One text stays as it is.
LEMMA FlattenOne ==
    ASSUME NEW s
    PROVE  FlattenSeq(<<s>>) = s
<1>1. PICK F : IsFlattening(F, <<s>>) /\ FlattenSeq(<<s>>) = F[Len(<<s>>)]
  <2>1. <<s>> \in Seq({s}) /\ <<s>> # <<>>
    OBVIOUS
  <2> QED
    BY <2>1, FlattenSteps
<1> QED
  BY <1>1 DEF IsFlattening

\* No texts give none.
LEMMA FlattenNone == FlattenSeq(<<>>) = <<>>
BY DEF FlattenSeq

\* The same for any texts before the last, none included.
LEMMA FlattenAppended ==
    ASSUME NEW A, NEW ss \in Seq(Seq(A)), NEW s \in Seq(A)
    PROVE  FlattenSeq(Append(ss, s)) = FlattenSeq(ss) \o s
<1>1. CASE ss = <<>>
  <2>1. Append(ss, s) = <<s>> /\ <<>> \o s = s
    BY <1>1
  <2> QED
    BY <1>1, <2>1, FlattenOne, FlattenNone
<1>2. CASE ss # <<>>
  <2> DEFINE B == Seq(A)
  <2>1. ss \in Seq(B) /\ s \in B
    OBVIOUS
  <2> HIDE DEF B
  <2> QED
    BY <1>2, <2>1, FlattenMore
<1> QED
  BY <1>1, <1>2

\* A sequence but for its last element.
LEMMA WithoutLast ==
    ASSUME NEW A, NEW s \in Seq(A), s # <<>>
    PROVE  /\ SubSeq(s, 1, Len(s) - 1) \in Seq(A) /\ Len(s) - 1 \in Nat
           /\ s = Append(SubSeq(s, 1, Len(s) - 1), s[Len(s)]) /\ s[Len(s)] \in A
<1>1. Len(s) \in Nat /\ Len(s) # 0
  OBVIOUS
<1>2. SubSeq(s, 1, (Len(s) - 1) + 1) = Append(SubSeq(s, 1, Len(s) - 1), s[(Len(s) - 1) + 1])
  <2> DEFINE b == Len(s) - 1
  <2>1. 1 \in 1..(Len(s) + 1) /\ b \in (1 - 1)..(Len(s) - 1)
    BY <1>1
  <2> HIDE DEF b
  <2>2. SubSeq(s, 1, b + 1) = Append(SubSeq(s, 1, b), s[b + 1])
    BY <2>1, StretchExtended
  <2> QED
    BY <2>2 DEF b
<1>3. (Len(s) - 1) + 1 = Len(s)
  BY <1>1
<1>4. SubSeq(s, 1, Len(s)) = s
  BY WholeStretch
<1>5. SubSeq(s, 1, Len(s) - 1) \in Seq(A) /\ s[Len(s)] \in A
  BY <1>1
<1> QED
  BY <1>1, <1>2, <1>3, <1>4, <1>5

\* Texts put together are a text.
LEMMA FlattenType ==
    ASSUME NEW A, NEW ss \in Seq(Seq(A))
    PROVE  FlattenSeq(ss) \in Seq(A)
<1> DEFINE S == {k \in 0..Len(ss) : FlattenSeq(SubSeq(ss, 1, k)) \in Seq(A)}
<1>1. 0 \in S
  <2>1. SubSeq(ss, 1, 0) = <<>> /\ <<>> \in Seq(A) /\ 0 \in 0..Len(ss)
    OBVIOUS
  <2>2. FlattenSeq(SubSeq(ss, 1, 0)) \in Seq(A)
    BY <2>1, FlattenNone
  <2> QED
    BY <2>1, <2>2
<1>2. ASSUME NEW k \in 0..(Len(ss) - 1), k \in S
      PROVE  k + 1 \in S
  <2> DEFINE front == SubSeq(ss, 1, k)
  <2>1. front \in Seq(Seq(A)) /\ ss[k + 1] \in Seq(A) /\ k + 1 \in 0..Len(ss)
    OBVIOUS
  <2>2. SubSeq(ss, 1, k + 1) = Append(front, ss[k + 1])
    <3> DEFINE B == Seq(A)
    <3>1. ss \in Seq(B) /\ 1 \in 1..(Len(ss) + 1) /\ k \in (1 - 1)..(Len(ss) - 1)
      OBVIOUS
    <3> HIDE DEF B
    <3> QED
      BY <3>1, StretchExtended
  <2>3. FlattenSeq(front) \in Seq(A)
    BY <1>2
  <2> HIDE DEF front
  <2>4. FlattenSeq(Append(front, ss[k + 1])) = FlattenSeq(front) \o ss[k + 1]
    BY <2>1, FlattenAppended
  <2>5. FlattenSeq(SubSeq(ss, 1, k + 1)) = FlattenSeq(front) \o ss[k + 1]
    BY <2>2, <2>4
  <2>6. FlattenSeq(front) \o ss[k + 1] \in Seq(A)
    BY <2>1, <2>3
  <2> QED
    BY <2>1, <2>5, <2>6
<1>3. Len(ss) \in Nat /\ \A k \in 0..(Len(ss) - 1) : k \in S => k + 1 \in S
  BY <1>2
<1> HIDE DEF S
<1>4. 0..Len(ss) \subseteq S
  BY <1>1, <1>3, Induction
<1>5. Len(ss) \in S
  BY <1>3, <1>4
<1>6. SubSeq(ss, 1, Len(ss)) = ss
  OBVIOUS
<1>7. FlattenSeq(SubSeq(ss, 1, Len(ss))) \in Seq(A)
  BY <1>5 DEF S
<1> QED
  BY <1>6, <1>7
\* Join, part by part.
LEMMA JoinOne ==
    ASSUME NEW A, NEW c \in A, NEW p \in Seq(A)
    PROVE  Join(<<p>>, c) = p
<1>1. [k \in DOMAIN <<p>> |-> <<c>> \o <<p>>[k]] = << <<c>> \o p >>
  <2>1. DOMAIN <<p>> = 1..1 /\ \A k \in 1..1 : <<p>>[k] = p
    OBVIOUS
  <2>2. [k \in DOMAIN <<p>> |-> <<c>> \o <<p>>[k]] = [k \in 1..1 |-> <<c>> \o p]
    BY <2>1
  <2> DEFINE q == <<c>> \o p
  <2> HIDE DEF q
  <2>3. [k \in 1..1 |-> q] = <<q>>
    OBVIOUS
  <2> QED
    BY <2>2, <2>3 DEF q
<1>2. FlattenSeq(<< <<c>> \o p >>) = <<c>> \o p
  BY FlattenOne
<1>3. Tail(<<c>> \o p) = p
  OBVIOUS
<1> QED
  BY <1>1, <1>2, <1>3 DEF Join

\* Every part with its separator, and one more.
Leaders(c, ps) == [k \in DOMAIN ps |-> <<c>> \o ps[k]]

LEMMA LeadersMore ==
    ASSUME NEW c, NEW B, \A g \in B : <<c>> \o g \in B, NEW ps \in Seq(B), NEW q \in B
    PROVE  /\ Leaders(c, ps) \in Seq(B) /\ <<c>> \o q \in B
           /\ Leaders(c, Append(ps, q)) = Append(Leaders(c, ps), <<c>> \o q)
<1> DEFINE F == [g \in B |-> <<c>> \o g]
<1>1. F \in [B -> B] /\ \A g \in B : <<c>> \o g \in B /\ F[g] = <<c>> \o g
  OBVIOUS
<1>2. ASSUME NEW r \in Seq(B)
      PROVE  Leaders(c, r) = [k \in DOMAIN r |-> F[r[k]]]
  <2>1. \A k \in DOMAIN r : r[k] \in B
    OBVIOUS
  <2>2. \A k \in DOMAIN r : F[r[k]] = <<c>> \o r[k]
    BY <1>1, <2>1
  <2> HIDE DEF F
  <2> QED
    BY <2>2 DEF Leaders
<1> HIDE DEF F
<1>3. Append(ps, q) \in Seq(B)
  BY Appended
<1> DEFINE old == [k \in DOMAIN ps |-> F[ps[k]]]
<1>4. old \in Seq(B)
  <2>1. F \in [B -> B]
    BY <1>1
  <2>2. \A f \in [B -> B] : [k \in DOMAIN ps |-> f[ps[k]]] \in Seq(B)
    BY Mapped
  <2> QED
    BY <2>1, <2>2
<1>5. Leaders(c, ps) = old
  BY <1>2
<1>6. [k \in DOMAIN Append(ps, q) |-> F[Append(ps, q)[k]]] = Append(old, F[q])
  BY <1>1, MappedAppended
<1>7. Leaders(c, Append(ps, q)) = [k \in DOMAIN Append(ps, q) |-> F[Append(ps, q)[k]]]
  BY <1>2, <1>3
<1> HIDE DEF old
<1>8. F[q] = <<c>> \o q /\ <<c>> \o q \in B
  BY <1>1
<1> QED
  BY <1>4, <1>5, <1>6, <1>7, <1>8, Zenon

\* One more part is joined behind a separator.
LEMMA JoinMore ==
    ASSUME NEW A, NEW c \in A, NEW parts \in Seq(Seq(A)), parts # <<>>, NEW p \in Seq(A)
    PROVE  /\ Join(parts, c) \in Seq(A)
           /\ Join(Append(parts, p), c) = Join(parts, c) \o <<c>> \o p
<1> DEFINE Led(ps) == Leaders(c, ps)
           front == SubSeq(parts, 1, Len(parts) - 1)
           last == parts[Len(parts)]
<1>1. /\ front \in Seq(Seq(A)) /\ last \in Seq(A) /\ parts = Append(front, last)
  <2> DEFINE B == Seq(A)
  <2>1. parts \in Seq(B)
    OBVIOUS
  <2> HIDE DEF B
  <2>2. SubSeq(parts, 1, Len(parts) - 1) \in Seq(B) /\ parts[Len(parts)] \in B
        /\ parts = Append(SubSeq(parts, 1, Len(parts) - 1), parts[Len(parts)])
    BY <2>1, WithoutLast
  <2> QED
    BY <2>2 DEF B
<1> HIDE DEF front, last
<1>2. ASSUME NEW ps \in Seq(Seq(A)), NEW q \in Seq(A)
      PROVE  /\ Led(ps) \in Seq(Seq(A)) /\ <<c>> \o q \in Seq(A)
             /\ Led(Append(ps, q)) = Append(Led(ps), <<c>> \o q)
  <2> DEFINE B == Seq(A)
             lead == <<c>>
  <2>1. ps \in Seq(B) /\ q \in B /\ lead \in Seq(A)
    OBVIOUS
  <2> HIDE DEF lead
  <2>2. \A g \in Seq(A) : lead \o g \in Seq(A)
    BY <2>1
  <2>3. \A g \in B : <<c>> \o g \in B
    BY <2>2 DEF lead
  <2> HIDE DEF B
  <2>4. /\ Leaders(c, ps) \in Seq(B) /\ <<c>> \o q \in B
        /\ Leaders(c, Append(ps, q)) = Append(Leaders(c, ps), <<c>> \o q)
    BY <2>1, <2>3, LeadersMore
  <2> QED
    BY <2>4 DEF B
<1> DEFINE X == FlattenSeq(Led(parts))
<1>3. X \in Seq(A) /\ X # <<>>
  <2>1. Led(front) \in Seq(Seq(A)) /\ <<c>> \o last \in Seq(A)
        /\ Led(parts) = Append(Led(front), <<c>> \o last)
    BY <1>1, <1>2
  <2>2. X = FlattenSeq(Led(front)) \o (<<c>> \o last)
    BY <2>1, FlattenAppended
  <2>3. FlattenSeq(Led(front)) \in Seq(A)
    BY <2>1, FlattenType
  <2> HIDE DEF X
  <2> QED
    BY <1>1, <2>2, <2>3
<1>4. FlattenSeq(Led(Append(parts, p))) = X \o (<<c>> \o p)
  BY <1>2, FlattenAppended
<1>5. Join(parts, c) = Tail(X) /\ Join(Append(parts, p), c) = Tail(X \o (<<c>> \o p))
  BY <1>4 DEF Join, Leaders
<1> HIDE DEF X
<1>6. Tail(X) \in Seq(A)
  BY <1>3
<1>7. Tail(X \o (<<c>> \o p)) = Tail(X) \o <<c>> \o p
  BY <1>3
<1> QED
  BY <1>5, <1>6, <1>7

\* Split takes apart what Join has put together.
LEMMA SplitOfJoin ==
    ASSUME NEW A, NEW c \in A, NEW parts \in Seq(Seq(A)), parts # <<>>,
           \A i \in DOMAIN parts : \A k \in DOMAIN parts[i] : parts[i][k] # c
    PROVE  Split(Join(parts, c), c) = parts
<1> DEFINE FirstParts(k) == SubSeq(parts, 1, k)
           S == {k \in 0..Len(parts) : k # 0 => Split(Join(FirstParts(k), c), c) = FirstParts(k)}
<1>1. 0 \in S
  OBVIOUS
<1>2. ASSUME NEW k \in 0..(Len(parts) - 1), k \in S
      PROVE  k + 1 \in S
  <2> DEFINE p == parts[k + 1]
  <2>1. p \in Seq(A) /\ (\A i \in DOMAIN p : p[i] # c) /\ k + 1 \in 0..Len(parts)
    OBVIOUS
  <2>2. FirstParts(k + 1) = Append(FirstParts(k), p) /\ FirstParts(k) \in Seq(Seq(A))
    <3> DEFINE B == Seq(A)
    <3>1. parts \in Seq(B) /\ 1 \in 1..(Len(parts) + 1) /\ k \in (1 - 1)..(Len(parts) - 1)
      OBVIOUS
    <3>2. FirstParts(k) \in Seq(Seq(A))
      OBVIOUS
    <3> HIDE DEF B
    <3> QED
      BY <3>1, <3>2, StretchExtended
  <2>3. k # 0 => FirstParts(k) # <<>> /\ Split(Join(FirstParts(k), c), c) = FirstParts(k)
    <3>1. Len(FirstParts(k)) = k
      OBVIOUS
    <3>2. k # 0 => Split(Join(FirstParts(k), c), c) = FirstParts(k)
      BY <1>2
    <3> HIDE DEF FirstParts
    <3> QED
      BY <3>1, <3>2
  <2>4. k = 0 => FirstParts(k) = <<>>
    OBVIOUS
  <2> HIDE DEF p, FirstParts
  <2>5. Split(Join(Append(FirstParts(k), p), c), c) = Append(FirstParts(k), p)
    <3>1. CASE k = 0
      <4>1. Append(FirstParts(k), p) = <<p>>
        <5>1. FirstParts(k) = <<>>
          BY <2>4, <3>1
        <5>2. Append(<<>>, p) = <<p>>
          OBVIOUS
        <5> QED
          BY <5>1, <5>2
      <4> QED
        BY <2>1, <4>1, JoinOne, SplitOfOne
    <3>2. CASE k # 0
      <4>1. /\ Join(FirstParts(k), c) \in Seq(A)
            /\ Join(Append(FirstParts(k), p), c) = Join(FirstParts(k), c) \o <<c>> \o p
        BY <2>1, <2>2, <2>3, <3>2, JoinMore
      <4>2. Split(Join(FirstParts(k), c) \o <<c>> \o p, c) = Append(Split(Join(FirstParts(k), c), c), p)
        BY <2>1, <4>1, SplitAfterAnother
      <4> QED
        BY <2>3, <3>2, <4>1, <4>2
    <3> QED
      BY <3>1, <3>2
  <2> QED
    BY <2>1, <2>2, <2>5
<1> HIDE DEF S
<1>3. Len(parts) \in Nat /\ \A k \in 0..(Len(parts) - 1) : k \in S => k + 1 \in S
  BY <1>2
<1>4. 0..Len(parts) \subseteq S
  BY <1>1, <1>3, Induction
<1>5. Len(parts) \in S /\ Len(parts) # 0
  BY <1>3, <1>4
<1>6. FirstParts(Len(parts)) = parts
  OBVIOUS
<1> QED
  BY <1>5, <1>6 DEF S
-----------------------------------------------------------------------------
(***************************************************************************)
(* The number of parts.                                                    *)
(***************************************************************************)
\* Each c adds a part.
IsCounting(P, s, c) ==
    /\ Len(P[0]) = 1
    /\ \A k \in 0..Len(s) : Len(P[k]) \in Nat
    /\ \A k \in 0..(Len(s) - 1) :
          /\ s[k + 1] = c => Len(P[k + 1]) = Len(P[k]) + 1
          /\ s[k + 1] # c => Len(P[k + 1]) = Len(P[k])

\* There is one more part than separators.
LEMMA PartsCount ==
    ASSUME NEW A, NEW s \in Seq(A), NEW c
    PROVE  IsCounting(PartsUpTo(s, c), s, c)
<1> DEFINE P == PartsUpTo(s, c)
<1>1. IsSplitting(P, s, c)
  BY PartsUpToSteps
<1>2. \A k \in 0..Len(s) : P[k] \in Seq(Seq(A)) /\ P[k] # <<>>
  BY PartsUpToType
<1> HIDE DEF P
<1>3. Len(P[0]) = 1 /\ \A k \in 0..Len(s) : Len(P[k]) \in Nat
  BY <1>1, <1>2 DEF IsSplitting
<1>4. ASSUME NEW k \in 0..(Len(s) - 1)
      PROVE  /\ s[k + 1] = c => Len(P[k + 1]) = Len(P[k]) + 1
             /\ s[k + 1] # c => Len(P[k + 1]) = Len(P[k])
  <2>1. P[k] \in Seq(Seq(A))
    BY <1>2
  <2>2. CASE s[k + 1] = c
    <3>1. P[k + 1] = Append(P[k], <<>>)
      BY <1>1, <2>2 DEF IsSplitting
    <3> QED
      BY <2>1, <2>2, <3>1
  <2>3. CASE s[k + 1] # c
    <3>1. P[k + 1] = ReplaceAt(P[k], Len(P[k]), Append(Last(P[k]), s[k + 1]))
      BY <1>1, <2>3 DEF IsSplitting
    <3>2. P[k + 1] \in Seq(Seq(A))
      <4>1. k + 1 \in 0..Len(s)
        OBVIOUS
      <4> QED
        BY <1>2, <4>1
    <3>4. DOMAIN P[k + 1] = DOMAIN P[k]
      BY <3>1 DEF ReplaceAt
    <3>3. Len(P[k + 1]) = Len(P[k])
      <4>1. /\ Len(P[k + 1]) \in Nat /\ DOMAIN P[k + 1] = 1..Len(P[k + 1])
            /\ Len(P[k]) \in Nat /\ DOMAIN P[k] = 1..Len(P[k])
        BY <2>1, <3>2
      <4> DEFINE m == Len(P[k + 1])
                 n == Len(P[k])
      <4>2. m \in Nat /\ n \in Nat /\ 1..m = 1..n
        BY <3>4, <4>1
      <4> HIDE DEF m, n
      <4>3. m = n
        BY <4>2
      <4> QED
        BY <4>3 DEF m, n
    <3> QED
      BY <2>1, <2>3, <3>3
  <2> QED
    BY <2>2, <2>3
<1> QED
  BY <1>3, <1>4 DEF P, IsCounting

\* A stretch of a text has no more parts than the text.
LEMMA SplitOfStretch ==
    ASSUME NEW A, NEW s \in Seq(A), NEW c,
           NEW a \in 1..(Len(s) + 1), NEW b \in (a - 1)..Len(s)
    PROVE  Len(Split(SubSeq(s, a, b), c)) <= Len(Split(s, c))
<1> DEFINE t == SubSeq(s, a, b)
           n == b - a + 1
           P == PartsUpTo(s, c)
           Q == PartsUpTo(t, c)
           p(k) == Len(P[k])
           q(k) == Len(Q[k])
<1>1. /\ t \in Seq(A) /\ Len(t) = n /\ n \in Nat /\ a - 1 + n = b /\ Len(s) \in Nat
      /\ \A k \in 0..(n - 1) : t[k + 1] = s[a - 1 + k + 1]
  OBVIOUS
<1>2. IsCounting(P, s, c)
  BY PartsCount
<1> HIDE DEF t
<1>3. IsCounting(Q, t, c)
  BY <1>1, PartsCount
<1> HIDE DEF P, Q
<1>4. /\ \A k \in 0..Len(s) : p(k) \in Nat
      /\ \A k \in 0..(Len(s) - 1) : p(k + 1) = p(k) + 1 \/ (s[k + 1] # c /\ p(k + 1) = p(k))
  BY <1>2 DEF IsCounting
<1>5. /\ q(0) = 1
      /\ \A k \in 0..n : q(k) \in Nat
      /\ \A k \in 0..(n - 1) : q(k + 1) = q(k) \/ (t[k + 1] = c /\ q(k + 1) = q(k) + 1)
  BY <1>1, <1>3 DEF IsCounting
<1>6. \A k \in 0..Len(s) : p(k) >= 1
  BY <1>2, PartsUpToType DEF IsCounting, P
<1> HIDE DEF p, q, n
<1>7. q(n) <= p(b)
  <2> DEFINE S == {k \in 0..n : q(k) <= p(a - 1 + k)}
  <2>1. 0 \in S
    <3>1. a - 1 + 0 \in 0..Len(s) /\ 0 \in 0..n
      BY <1>1
    <3>2. p(a - 1 + 0) >= 1
      BY <1>6, <3>1
    <3> QED
      BY <1>5, <3>1, <3>2
  <2>2. ASSUME NEW k \in 0..(n - 1), k \in S
        PROVE  k + 1 \in S
    <3> DEFINE i == a - 1 + k
    <3>1. i \in 0..(Len(s) - 1) /\ i \in 0..Len(s) /\ i + 1 = a - 1 + (k + 1) /\ t[k + 1] = s[i + 1]
          /\ k + 1 \in 0..n /\ k \in 0..n
      BY <1>1
    <3>2. q(k) <= p(i)
      BY <2>2
    <3> HIDE DEF i
    <3>3. p(i) \in Nat /\ q(k) \in Nat
      BY <1>4, <1>5, <3>1
    <3>4. p(i + 1) = p(i) + 1 \/ (s[i + 1] # c /\ p(i + 1) = p(i))
      BY <1>4, <3>1
    <3>5. q(k + 1) = q(k) \/ (t[k + 1] = c /\ q(k + 1) = q(k) + 1)
      BY <1>5
    <3>6. q(k + 1) <= p(i + 1)
      BY <3>1, <3>2, <3>3, <3>4, <3>5
    <3> QED
      BY <3>1, <3>6
  <2> HIDE DEF S
  <2>3. 0..n \subseteq S
    <3>1. \A k \in 0..(n - 1) : k \in S => k + 1 \in S
      BY <2>2
    <3> QED
      BY <1>1, <2>1, <3>1, Induction
  <2>4. n \in S
    BY <1>1, <2>3
  <2>5. q(n) <= p(a - 1 + n)
    BY <2>4 DEF S
  <2> QED
    BY <1>1, <2>5
<1>8. p(b) <= p(Len(s))
  <2> DEFINE m == Len(s) - b
             S == {k \in 0..m : p(b) <= p(b + k)}
  <2>1. m \in Nat /\ b + m = Len(s) /\ b \in Nat
    BY <1>1
  <2>2. 0 \in S
    <3>1. b + 0 = b /\ b \in 0..Len(s) /\ 0 \in 0..m
      BY <1>1, <2>1
    <3>2. p(b) \in Nat
      BY <1>4, <3>1
    <3> QED
      BY <3>1, <3>2
  <2>3. ASSUME NEW k \in 0..(m - 1), k \in S
        PROVE  k + 1 \in S
    <3> DEFINE i == b + k
    <3>1. i \in 0..(Len(s) - 1) /\ i \in 0..Len(s) /\ i + 1 = b + (k + 1) /\ b \in 0..Len(s)
          /\ k + 1 \in 0..m
      BY <1>1, <2>1
    <3>2. p(b) <= p(i)
      BY <2>3
    <3> HIDE DEF i
    <3>3. p(i) \in Nat /\ p(b) \in Nat
      BY <1>4, <3>1
    <3>4. p(b) <= p(i + 1)
      BY <1>4, <3>1, <3>2, <3>3
    <3> QED
      BY <3>1, <3>4
  <2> HIDE DEF S, m
  <2>4. 0..m \subseteq S
    <3>1. \A k \in 0..(m - 1) : k \in S => k + 1 \in S
      BY <2>3
    <3> QED
      BY <2>1, <2>2, <3>1, Induction
  <2>5. m \in S
    BY <2>1, <2>4
  <2>6. p(b) <= p(b + m)
    BY <2>5 DEF S
  <2> QED
    BY <2>1, <2>6
<1>9. b \in 0..Len(s) /\ Len(s) \in 0..Len(s) /\ n \in 0..n
  BY <1>1
<1>10. q(n) \in Nat /\ p(b) \in Nat /\ p(Len(s)) \in Nat
  BY <1>4, <1>5, <1>9
<1>11. q(n) <= p(Len(s))
  BY <1>7, <1>8, <1>10
<1> QED
  BY <1>1, <1>11 DEF p, q, P, Q, t, Split

-----------------------------------------------------------------------------
(***************************************************************************)
(* Index, Before and After.                                                *)
(***************************************************************************)
LEMMA IndexIsFirst ==
    ASSUME NEW A, NEW s \in Seq(A), NEW c
    PROVE  /\ Index(s, c) \in 1..(Len(s) + 1)
           /\ Index(s, c) <= Len(s) => s[Index(s, c)] = c
           /\ \A k \in 1..(Index(s, c) - 1) : s[k] # c
<1> DEFINE T == Where(s, {c}) \cup {Len(s) + 1}
<1>1. T = {k \in 1..Len(s) : s[k] = c} \cup {Len(s) + 1} /\ Len(s) \in Nat
  BY DEF Where
<1>2. T \subseteq Nat /\ T # {}
  <2>1. Len(s) + 1 \in Nat /\ Len(s) + 1 \in T
    BY <1>1
  <2> HIDE DEF T
  <2>2. \A k \in T : k \in Nat
    BY <1>1, <2>1
  <2> QED
    BY <2>1, <2>2
<1>3. Index(s, c) = Min(T)
  BY DEF Index
<1> HIDE DEF T
<1>4. Index(s, c) \in T /\ \A k \in T : Index(s, c) <= k
  BY <1>2, <1>3, MinIsLeast
<1>5. Index(s, c) \in 1..(Len(s) + 1)
  BY <1>1, <1>4
<1>6. \A k \in 1..(Index(s, c) - 1) : s[k] # c
  BY <1>1, <1>4, <1>5
<1>7. Index(s, c) <= Len(s) => s[Index(s, c)] = c
  BY <1>1, <1>4
<1> QED
  BY <1>5, <1>6, <1>7

\* What stands before the first c, and what behind it.
LEMMA BeforeAndAfter ==
    ASSUME NEW A, NEW s \in Seq(A), NEW c \in A, NEW t \in Seq(A), \A k \in DOMAIN s : s[k] # c
    PROVE  Before(s \o <<c>> \o t, c) = s /\ After(s \o <<c>> \o t, c) = t
<1> DEFINE u == s \o <<c>> \o t
           i == Index(u, c)
<1>1. /\ u \in Seq(A) /\ Len(u) = Len(s) + 1 + Len(t) /\ Len(s) \in Nat /\ Len(t) \in Nat
      /\ u[Len(s) + 1] = c /\ \A k \in 1..Len(s) : u[k] = s[k] /\ s[k] # c
      /\ SubSeq(u, 1, Len(s)) = s /\ SubSeq(u, Len(s) + 2, Len(u)) = t
  OBVIOUS
<1> HIDE DEF u
<1>2. /\ i \in 1..(Len(u) + 1) /\ (i <= Len(u) => u[i] = c)
      /\ \A k \in 1..(i - 1) : u[k] # c
  BY <1>1, IndexIsFirst
<1> HIDE DEF i
<1>3. i = Len(s) + 1
  <2>1. ~(i > Len(s) + 1)
    BY <1>1, <1>2
  <2>2. ~(i < Len(s) + 1)
    BY <1>1, <1>2
  <2> QED
    BY <1>1, <1>2, <2>1, <2>2
<1>4. i - 1 = Len(s) /\ i + 1 = Len(s) + 2
  BY <1>1, <1>3
<1>5. Before(u, c) = SubSeq(u, 1, i - 1) /\ After(u, c) = SubSeq(u, i + 1, Len(u))
  BY DEF Before, After, i
<1> QED
  BY <1>1, <1>4, <1>5 DEF u

\* Without c all of the text is before it.
LEMMA BeforeNone ==
    ASSUME NEW A, NEW s \in Seq(A), NEW c, \A k \in DOMAIN s : s[k] # c
    PROVE  Before(s, c) = s
<1> DEFINE i == Index(s, c)
<1>1. /\ i \in 1..(Len(s) + 1) /\ (i <= Len(s) => s[i] = c)
  BY IndexIsFirst
<1> HIDE DEF i
<1>2. i - 1 = Len(s)
  BY <1>1
<1>3. Before(s, c) = SubSeq(s, 1, i - 1)
  BY DEF Before, i
<1> QED
  BY <1>2, <1>3, WholeStretch

-----------------------------------------------------------------------------
(***************************************************************************)
(* Trim.                                                                   *)
(***************************************************************************)
\* Trim leaves a stretch that neither begins nor ends in C, and cuts nothing else.
LEMMA TrimIsStretch ==
    ASSUME NEW A, NEW s \in Seq(A), NEW C
    PROVE  \E a \in 1..(Len(s) + 1) : \E b \in (a - 1)..Len(s) :
              /\ Trim(s, C) = SubSeq(s, a, b)
              /\ \A k \in DOMAIN s : k < a \/ k > b => s[k] \in C
              /\ a <= b => s[a] \notin C /\ s[b] \notin C
<1> DEFINE kept == DOMAIN s \ Where(s, C)
<1>1. kept = {k \in 1..Len(s) : s[k] \notin C} /\ Len(s) \in Nat
  BY DEF Where
<1>2. Trim(s, C) = IF kept = {} THEN <<>> ELSE SubSeq(s, Min(kept), Max(kept))
  BY DEF Trim
<1> HIDE DEF kept
<1>3. CASE kept = {}
  <2>1. SubSeq(s, Len(s) + 1, Len(s)) = <<>> /\ Len(s) + 1 \in 1..(Len(s) + 1)
        /\ Len(s) \in ((Len(s) + 1) - 1)..Len(s)
    BY <1>1
  <2>2. \A k \in DOMAIN s : s[k] \in C
    BY <1>1, <1>3
  <2>3. ~(Len(s) + 1 <= Len(s))
    BY <1>1
  <2>4. Trim(s, C) = SubSeq(s, Len(s) + 1, Len(s))
    BY <1>2, <1>3, <2>1
  <2> QED
    BY <2>1, <2>2, <2>3, <2>4
<1>4. CASE kept # {}
  <2>1. kept \subseteq Nat /\ kept \subseteq 0..Len(s)
    BY <1>1
  <2> DEFINE a == Min(kept)
             b == Max(kept)
  <2>2. a \in kept /\ \A k \in kept : a <= k
    BY <1>4, <2>1, MinIsLeast
  <2>3. b \in kept /\ \A k \in kept : b >= k
    BY <1>1, <1>4, <2>1, MaxIsGreatest
  <2>4. Trim(s, C) = SubSeq(s, a, b)
    BY <1>2, <1>4
  <2> HIDE DEF a, b
  <2>5. a \in 1..(Len(s) + 1) /\ b \in (a - 1)..Len(s) /\ s[a] \notin C /\ s[b] \notin C
    BY <1>1, <2>2, <2>3
  <2>6. \A k \in DOMAIN s : k < a \/ k > b => s[k] \in C
    <3>1. SUFFICES ASSUME NEW k \in DOMAIN s, k < a \/ k > b, s[k] \notin C
                   PROVE  FALSE
      OBVIOUS
    <3>2. k \in kept /\ k \in Nat /\ a \in Nat /\ b \in Nat
      BY <1>1, <2>5, <3>1
    <3> QED
      BY <2>2, <2>3, <3>1, <3>2
  <2> QED
    BY <2>4, <2>5, <2>6
<1> QED
  BY <1>3, <1>4

\* What Trim leaves is a text.
LEMMA TrimType ==
    ASSUME NEW A, NEW s \in Seq(A), NEW C
    PROVE  Trim(s, C) \in Seq(A)
<1>1. PICK a \in 1..(Len(s) + 1) : \E b \in (a - 1)..Len(s) : Trim(s, C) = SubSeq(s, a, b)
  BY TrimIsStretch
<1> QED
  BY <1>1

\* A text that neither begins nor ends in C stays as it is.
LEMMA TrimUnchanged ==
    ASSUME NEW A, NEW s \in Seq(A), NEW C, s # <<>>, s[1] \notin C, s[Len(s)] \notin C
    PROVE  Trim(s, C) = s
<1>1. PICK a \in 1..(Len(s) + 1) : \E b \in (a - 1)..Len(s) :
              /\ Trim(s, C) = SubSeq(s, a, b)
              /\ \A k \in DOMAIN s : k < a \/ k > b => s[k] \in C
  BY TrimIsStretch
<1>2. PICK b \in (a - 1)..Len(s) :
              /\ Trim(s, C) = SubSeq(s, a, b)
              /\ \A k \in DOMAIN s : k < a \/ k > b => s[k] \in C
  BY <1>1
<1>3. 1 \in DOMAIN s /\ Len(s) \in DOMAIN s
  OBVIOUS
<1>4. a = 1 /\ b = Len(s)
  BY <1>2, <1>3
<1> QED
  BY <1>2, <1>4, WholeStretch

\* A text all of whose characters are in C vanishes.
LEMMA TrimToNothing ==
    ASSUME NEW A, NEW s \in Seq(A), NEW C, \A k \in DOMAIN s : s[k] \in C
    PROVE  Trim(s, C) = <<>>
<1>1. DOMAIN s \ Where(s, C) = {}
  BY DEF Where
<1> QED
  BY <1>1 DEF Trim
-----------------------------------------------------------------------------
(***************************************************************************)
(* Where a joined text begins and ends.                                    *)
(***************************************************************************)
LEMMA JoinType ==
    ASSUME NEW A, NEW c \in A, NEW parts \in Seq(Seq(A)), parts # <<>>
    PROVE  Join(parts, c) \in Seq(A)
<1>1. <<>> \in Seq(A)
  OBVIOUS
<1> QED
  BY <1>1, JoinMore

\* It begins like the first part and ends like the last one.
LEMMA JoinBegins ==
    ASSUME NEW A, NEW c \in A, NEW parts \in Seq(Seq(A)), parts # <<>>, parts[1] # <<>>
    PROVE  Join(parts, c) # <<>> /\ Join(parts, c)[1] = parts[1][1]
<1> DEFINE FirstParts(k) == SubSeq(parts, 1, k)
           Begins(t) == t # <<>> /\ t[1] = parts[1][1]
           S == {k \in 0..Len(parts) : k # 0 => Begins(Join(FirstParts(k), c))}
<1>1. 0 \in S
  OBVIOUS
<1>2. ASSUME NEW k \in 0..(Len(parts) - 1), k \in S
      PROVE  k + 1 \in S
  <2> DEFINE p == parts[k + 1]
  <2>1. p \in Seq(A) /\ k + 1 \in 0..Len(parts)
    OBVIOUS
  <2>2. FirstParts(k + 1) = Append(FirstParts(k), p) /\ FirstParts(k) \in Seq(Seq(A)) /\ Len(FirstParts(k)) = k
    <3> DEFINE B == Seq(A)
    <3>1. parts \in Seq(B) /\ 1 \in 1..(Len(parts) + 1) /\ k \in (1 - 1)..(Len(parts) - 1)
      OBVIOUS
    <3>2. FirstParts(k) \in Seq(Seq(A)) /\ Len(FirstParts(k)) = k
      OBVIOUS
    <3> HIDE DEF B
    <3> QED
      BY <3>1, <3>2, StretchExtended
  <2>3. k # 0 => Begins(Join(FirstParts(k), c))
    BY <1>2
  <2>4. k = 0 => p = parts[1]
    OBVIOUS
  <2> HIDE DEF p, FirstParts
  <2>5. Begins(Join(Append(FirstParts(k), p), c))
    <3>1. CASE k = 0
      <4>1. FirstParts(k) = <<>> /\ Append(<<>>, p) = <<p>>
        BY <2>2, <3>1
      <4>2. Join(<<p>>, c) = p
        BY <2>1, JoinOne
      <4> QED
        BY <2>4, <3>1, <4>1, <4>2
    <3>2. CASE k # 0
      <4>1. FirstParts(k) # <<>>
        BY <2>2, <3>2
      <4>2. /\ Join(FirstParts(k), c) \in Seq(A)
            /\ Join(Append(FirstParts(k), p), c) = Join(FirstParts(k), c) \o <<c>> \o p
        BY <2>1, <2>2, <4>1, JoinMore
      <4> DEFINE t == Join(FirstParts(k), c)
      <4>3. t \in Seq(A) /\ t # <<>> /\ t[1] = parts[1][1]
        BY <2>3, <3>2, <4>2
      <4> HIDE DEF t
      <4>4. t \o <<c>> \o p # <<>> /\ (t \o <<c>> \o p)[1] = t[1]
        BY <2>1, <4>3
      <4> QED
        BY <4>2, <4>3, <4>4 DEF t
    <3> QED
      BY <3>1, <3>2
  <2> QED
    BY <2>1, <2>2, <2>5
<1> HIDE DEF S
<1>3. Len(parts) \in Nat /\ \A k \in 0..(Len(parts) - 1) : k \in S => k + 1 \in S
  BY <1>2
<1>4. 0..Len(parts) \subseteq S
  BY <1>1, <1>3, Induction
<1>5. Len(parts) \in S /\ Len(parts) # 0
  BY <1>3, <1>4
<1>6. FirstParts(Len(parts)) = parts
  OBVIOUS
<1> QED
  BY <1>5, <1>6 DEF S

\* A joined text ends as its last part does.
LEMMA JoinEnds ==
    ASSUME NEW A, NEW c \in A, NEW parts \in Seq(Seq(A)), parts # <<>>, NEW p \in Seq(A), p # <<>>
    PROVE  LET t == Join(Append(parts, p), c)  IN  t # <<>> /\ t[Len(t)] = p[Len(p)]
<1> DEFINE t == Join(parts, c)
<1>1. t \in Seq(A) /\ Join(Append(parts, p), c) = t \o <<c>> \o p
  BY JoinMore
<1> HIDE DEF t
<1>2. LET u == t \o <<c>> \o p  IN  u # <<>> /\ u[Len(u)] = p[Len(p)]
  BY <1>1
<1> QED
  BY <1>1, <1>2
=============================================================================
