----------------------------- MODULE ScheduleText -----------------------------
(***************************************************************************)
(* How the API reads a pasted class schedule                               *)
(* (flow/api/parse/schedule/schedule.go).  A text is a sequence of lines,  *)
(* which stand for their contents: a class number alone on its line, with  *)
(* or without parentheses; a room; other digits, or capitals, alone on     *)
(* their line; white space; anything else.  (A text that names no term is  *)
(* refused before all this.)                                               *)
(***************************************************************************)
EXTENDS Integers, Sequences, FiniteSets, Functions, Places

CONSTANTS
  Numbers,      \* class numbers
  Rooms,        \* rooms with a number, and "ONLN - Online"
  TBA           \* a room that is not known: a line of capitals

ScheduleLine ==
  [is: {"number"}, number: Numbers, bare: BOOLEAN] \cup [is: {"room"}, room: Rooms \cup {TBA}]
  \cup [is: {"digits", "capitals", "blank", "other"}]

IsNumber(line) == line.is = "number"
IsCapitals(line) == line.is = "capitals" \/ (line.is = "room" /\ line.room = TBA)

\* classNumberRegexp takes the newlines before and after the number, and matches
\* do not overlap: a number right after one that was found is not found.
ClassNumbers(text) ==
  LET found[i \in 0..Len(text)] == i > 1 /\ i < Len(text) /\ IsNumber(text[i]) /\ ~found[i - 1] IN
  {i \in 1..Len(text) : found[i]}

\* Where the match of classroomRegexp that starts on line i ends, 0 if none does:
\* the white space before a room's number may be that between lines, and this
\* form is tried before "TBA".
RoomEnd(text, i) ==
  LET digits == {j \in (i + 1)..Len(text) :
                   /\ text[j].is = "digits" \/ (IsNumber(text[j]) /\ text[j].bare)
                   /\ \A k \in (i + 1)..(j - 1) : text[k].is = "blank"} IN
  IF IsCapitals(text[i]) /\ digits # {} THEN CHOOSE j \in digits : TRUE
  ELSE IF text[i].is = "room" THEN i
  ELSE 0

Classrooms(text) == {i \in 1..Len(text) : RoomEnd(text, i) # 0}

RoomOn(text, i) == SubSeq(text, i, RoomEnd(text, i))

\* Those of s that were not seen before.
Unique(s) ==
  LET got[k \in 0..Len(s)] ==
        IF k = 0 THEN <<>> ELSE IF s[k] \in Range(got[k - 1]) THEN got[k - 1] ELSE Append(got[k - 1], s[k]) IN
  got[Len(s)]

\* Faulty variant: rooms above the first class number are taken for its own.
LinesWithRoomsAbove(rooms, from, to, at) == {rooms[k] : k \in from..to}
\* The lines of the rooms that a turn of the loop takes for the class number on
\* line at, of those it comes to.
LinesOfRooms(rooms, from, to, at) == {rooms[k] : k \in {l \in from..to : rooms[l] >= at}}

Locations(text, lines) == Unique([k \in 1..Cardinality(lines) |-> RoomOn(text, InOrder(lines)[k])])

\* Parse, from the class numbers and rooms on.
Classes(text) ==
  LET numbers == InOrder(ClassNumbers(text))
      rooms == InOrder(Classrooms(text))
      roomIdx == Stops(rooms, PartEnds(ClassNumbers(text), Len(text))) IN
  [c \in 1..Len(numbers) |->
    [number |-> text[numbers[c]].number,
     location |-> Locations(text, LinesOfRooms(rooms, roomIdx[c - 1], roomIdx[c] - 1, numbers[c]))]]

-----------------------------------------------------------------------------
(* What a schedule's reader may rely on.                                   *)

\* The number on line i is the text's, not the first or last line, and not next
\* to another.
StandsApart(text, i) ==
  /\ i > 1 /\ i < Len(text) /\ IsNumber(text[i])
  /\ ~IsNumber(text[i - 1]) /\ ~IsNumber(text[i + 1])

\* Line i belongs to the class number on line at: no other was found between.
UnderNumber(text, at, i) ==
  at <= i /\ ~\E j \in ClassNumbers(text) : at < j /\ j <= i

(* Every number that stands apart from others is found, and in every run   *)
(* of numbers on adjacent lines every other one; each class has exactly    *)
(* the rooms between its number and the next that was found, each once and *)
(* in the order of the text.                                               *)
ClassesHaveTheirRooms(text) ==
  LET got == Classes(text)
      at == InOrder(ClassNumbers(text)) IN
  /\ \A i \in 1..Len(text) : StandsApart(text, i) => i \in ClassNumbers(text)
  /\ \A i \in 2..(Len(text) - 1) : IsNumber(text[i]) => {i - 1, i} \cap ClassNumbers(text) # {}
  /\ \A i \in ClassNumbers(text) : i + 1 \notin ClassNumbers(text)
  /\ Len(got) = Len(at)
  /\ \A c \in 1..Len(got) :
       LET rooms == {i \in Classrooms(text) : UnderNumber(text, at[c], i)} IN
       /\ got[c].number = text[at[c]].number
       /\ Range(got[c].location) = {RoomOn(text, i) : i \in rooms}
       /\ \A k, l \in 1..Len(got[c].location) :
            k < l => \E i \in rooms : /\ RoomOn(text, i) = got[c].location[k]
                                     /\ \A j \in rooms : RoomOn(text, j) = got[c].location[l] => i < j
=============================================================================
