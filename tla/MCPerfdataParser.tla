-------------------------- MODULE MCPerfdataParser --------------------------
(***************************************************************************)
(* PerfdataParser for TLC: every text up to a length, every single         *)
(* measurement of a small kind, and every two of a smaller one.            *)
(***************************************************************************)
EXTENDS PerfdataParser

CONSTANT MaxText    \* bound: the length of the texts of any kind

AnyText == UNION {[1..n -> {"'", " ", "=", "1"}] : n \in 0..MaxText}

Bounds(inside, start, end) == [inside |-> inside, start |-> start, end |-> end]
NoRange == Bounds(FALSE, <<>>, <<>>)
Ranges ==
    {NoRange, Bounds(FALSE, <<>>, <<"1">>), Bounds(TRUE, <<"1">>, <<"2">>),
     Bounds(FALSE, <<"~">>, <<"2">>), Bounds(FALSE, <<"-", "1">>, <<>>)}

Labels == {[quoted |-> FALSE, label |-> <<"a">>],
           [quoted |-> TRUE, label |-> <<"a", " ", "1">>],
           [quoted |-> TRUE, label |-> <<" ", ";", "x">>]}

Measure(l, value, unit, warning, critical, min, max, short) ==
    [quoted |-> l.quoted, label |-> l.label, value |-> value, unit |-> unit,
     warning |-> warning, critical |-> critical, min |-> min, max |-> max,
     short |-> short]

Singles ==
    {Measure(l, v, u, w, c, min, max, short) :
        l \in Labels, v \in {<<"1">>, <<"-", ".", "2", "e", "-", "1">>, <<"U">>},
        u \in {<<>>, <<"s">>, <<"x", "e">>, <<"e", "B">>}, w \in Ranges, c \in {NoRange, Bounds(FALSE, <<>>, <<"2">>)},
        min \in {<<>>, <<"1">>}, max \in {<<>>, <<"2">>}, short \in BOOLEAN}

\* "U" has no unit.
Plausible(m) == Undetermined(m) => m.unit = <<>>

InPairs ==
    {Measure(l, v, u, NoRange, NoRange, <<>>, max, TRUE) :
        l \in Labels, v \in {<<"1">>, <<"U">>}, u \in {<<>>, <<"s">>, <<"e">>},
        max \in {<<>>, <<"2">>}}

AnyWritten ==
    {<<m>> : m \in {s \in Singles : Plausible(s)}}
    \cup {p \in [1..2 -> InPairs] : Plausible(p[1]) /\ Plausible(p[2])}

OneOrTwoSpaces == {<<" ">>, <<" ", " ">>}
=============================================================================
