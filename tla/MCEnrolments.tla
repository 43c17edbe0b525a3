---------------------------- MODULE MCEnrolments ----------------------------
(* Files for TLC.                                                          *)
EXTENDS Enrolments, TLC

CONSTANTS c1, c2, c3, s1, s2

T(c, t) == [course |-> c, term |-> t]
Transcript(t, items) == [kind |-> "transcript", term |-> t, items |-> items]
Schedule(t, items) == [kind |-> "schedule", term |-> t, items |-> items]

\* The user may have taken a course of the current term.
Current == {T(c1, 2)}

\* Transcripts up to a past and up to the current term, one of a course the
\* catalogue lacks, one that repeats itself, one without terms; schedules of
\* the same classes in either order, and of a past term.
Uploaded == {Transcript(1, <<T(c3, 1), T(c1, 1)>>), Transcript(2, <<T(c2, 2), T(c1, 2)>>),
             Transcript(2, <<T(c1, 2), T(c1, 2)>>), Transcript(0, <<>>),
             Schedule(2, <<s1, s2>>), Schedule(2, <<s2, s1>>), Schedule(1, <<s1>>)}
=============================================================================
