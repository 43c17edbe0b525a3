--------------------------- MODULE MCRatingViews ---------------------------
(* Backends, reviews and classes are interchangeable.                       *)
EXTENDS RatingViews, TLC

CONSTANTS r1, r2

Symmetry == Permutations(Backends)

\* The first review is rated, deleted and voted on; the second, there from the
\* start, never has the rating that counts: its writes overtake, or are overtaken.
Studied == {q \in Change : /\ q.op = "review" => (q.review = r1 <=> q.to # "empty")
                           /\ q.op = "vote" => q.vote[1] = r1} \cup Query
=============================================================================
