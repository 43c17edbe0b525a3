------------------------------- MODULE Readers -------------------------------
(***************************************************************************)
(* The functions that turn texts and lists from outside into what the      *)
(* other modules take as given, each fed with its input piece by piece.    *)
(* The readers keep nothing between calls: at each step the reader's       *)
(* result is that of the input so far.                                     *)
(***************************************************************************)
EXTENDS ScheduleText, TranscriptText, RequirementText, TermEvents, Webcal

CONSTANTS
  Longest,    \* bound: the longest input of each reader
  Table       \* table term before an import

VARIABLES reader, input

vars == <<reader, input>>

Pieces == [schedule |-> ScheduleLine, transcript |-> TranscriptLine, requirements |-> Piece,
           codes |-> Word, events |-> Detail, meeting |-> Listed]

ASSUME ReaderAssumption ==
  /\ Longest \in [DOMAIN Pieces -> Nat]
  /\ \E known \in SUBSET Term : Table \in [known -> [start: Day, end: Day]]

Init == reader \in DOMAIN Pieces /\ input = <<>>

Read ==
  /\ Len(input) < Longest[reader]
  /\ \E piece \in Pieces[reader] : input' = Append(input, piece)
  /\ UNCHANGED reader

Spec == Init /\ [][Read]_vars

-----------------------------------------------------------------------------

\* The classes of a schedule, each with its own rooms.
ScheduleRead == reader = "schedule" => ClassesHaveTheirRooms(input)

\* The terms of a transcript, each with its own courses and level.
TranscriptRead == reader = "transcript" => CoursesOfTheirTerm(input)

\* A course's requirements, each type with its own text.
RequirementsRead == reader = "requirements" => RequirementsDivided(input)

\* The course codes in a requirement.
CodesRead == reader = "codes" => CodesWrittenOut(input)

\* The terms of the important dates.
EventsRead == reader = "events" => TermsOfTheirEvents(Table, input)

\* The events of the meetings of a timetable.
MeetingsRead == reader = "meeting" => \A i \in 1..Len(input) : EventsWhenListed(input[i])
=============================================================================
