------------------------------- MODULE MCReaders -------------------------------
(* Inputs that are long enough for every turn of each reader, for TLC.      *)
EXTENDS Readers, TLC

CONSTANTS t1, t2

Bounds == [schedule |-> 6, transcript |-> 5, requirements |-> 7, codes |-> 9, events |-> 4, meeting |-> 1]

Starts == {0, 5, 7}
EndsOfMeetings == {6, 7, 9}
FourTimes == {[start |-> 10, end |-> 12], [start |-> 1, end |-> 2],
              [start |-> 0, end |-> 0], [start |-> 3, end |-> 1]}
BothChanges == {[before |-> 5, after |-> 4], [before |-> 4, after |-> 5]}

OneKnown == (t1 :> [start |-> 1, end |-> 1])
=============================================================================
