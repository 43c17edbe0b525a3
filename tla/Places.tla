------------------------------- MODULE Places -------------------------------
(***************************************************************************)
(* Places of a text, as numbers, and the sequence of those that are of     *)
(* interest.                                                               *)
(***************************************************************************)
EXTENDS Integers, Sequences, FiniteSets

\* How many of the places are not after i.
Rank(places, i) == Cardinality({j \in places : j <= i})

\* The places in the order of the text.
InOrder(places) == [k \in 1..Cardinality(places) |-> CHOOSE i \in places : Rank(places, i) = k]

\* Those of the places that a search from place i on comes to first, if any.
FirstPlace(places) == CHOOSE i \in places : \A j \in places : i <= j
LastPlace(places) == CHOOSE i \in places : \A j \in places : j <= i

\* Where the part of a text under each of the places ends: before the next one,
\* and with the text, whose last place is length.
PartEnds(places, length) ==
  [c \in 1..Cardinality(places) |-> IF c < Cardinality(places) THEN InOrder(places)[c + 1] ELSE length + 1]

\* Where a loop along s stops that starts at the k-th of s and goes on before end.
Stop(s, k, end) == FirstPlace({l \in k..(Len(s) + 1) : l <= Len(s) => s[l] >= end})

\* The same after each turn of a loop around it, which goes from end to end.
Stops(s, ends) ==
  LET stop[c \in 0..Len(ends)] == IF c = 0 THEN 1 ELSE Stop(s, stop[c - 1], ends[c]) IN stop
=============================================================================
