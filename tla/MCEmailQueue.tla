----------------------------- MODULE MCEmailQueue -----------------------------
(* Small instances of EmailQueue for TLC.                                    *)
EXTENDS EmailQueue, TLC

CONSTANTS u1, s1, s2, c1, c2

In(c, total, capacity) == [total |-> total, capacity |-> capacity, course |-> c]

\* Every section full or open, in one course.
FullOrOpen == [Sections -> {In(c1, 1, 1), In(c1, 0, 1)}]

\* Two sections of a course, full and then open; and of two courses, where one
\* is open and the other has lost its seats.
Moving ==
  {(s1 :> In(c1, 1, 1)) @@ (s2 :> In(c1, 1, 1)),
   (s1 :> In(c1, 0, 1)) @@ (s2 :> In(c1, 0, 1)),
   (s1 :> In(c2, 0, 1)) @@ (s2 :> In(c1, 0, 0))}
=============================================================================
