--------------------------- MODULE MCTermCalendar ---------------------------
(* The end of a Spring, a Fall, and a Winter with a leap day, for TLC. *)
EXTENDS TermCalendar

EndOfSpring == [year |-> 2023, month |-> 8, day |-> 28]

\* From Winter 2023 on, but for the dates of Winter 2024.
Published == {1231, 1235, 1239, 1245}
=============================================================================
