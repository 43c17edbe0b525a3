-------------------------------- MODULE Webcal --------------------------------
(***************************************************************************)
(* What becomes of a meeting that the university lists: the importer's row *)
(* (convertMeeting in flow/importer/uw/parts/course/convert.go,            *)
(* flow/common/util/date.go) and the events of the calendar the API        *)
(* exports (flow/api/calendar/calendar.go).  Days are numbered from a      *)
(* Sunday; times are hours, of the day or, of an instant, UTC.             *)
(***************************************************************************)
EXTENDS Integers, Sequences, FiniteSets, Functions, Places

CONSTANTS
  FirstDays, LastDays,   \* of meetings
  Times,                 \* of meetings, [start, end], in any order
  NoTimes,               \* either time is empty
  BadTimes,              \* neither is empty, but one cannot be read
  SwitchDay,             \* a Sunday: at 2 in the morning the clocks change
  Clocks                 \* hours behind UTC [before, after] the change

ASSUME MeetingAssumption ==
  /\ FirstDays \cup LastDays \subseteq Nat
  /\ Times \subseteq [start: 0..23, end: 0..23]
  /\ NoTimes # BadTimes /\ {NoTimes, BadTimes} \cap Times = {}
  /\ SwitchDay \in Nat
  /\ Clocks \subseteq {c \in [before: Int, after: Int] : c.before - c.after \in -12..12}

\* numbered: the meeting's number is not 0; dated: it has both dates, and they
\* can be read; pattern: the places that have a Y, of seven from Monday on.
Listed == [numbered: BOOLEAN, dated: BOOLEAN, times: Times \cup {NoTimes, BadTimes},
           first: FirstDays, last: LastDays, pattern: SUBSET (1..7), clock: Clocks]

WeekdayCodes == <<"M", "T", "W", "Th", "F", "S", "Su">>
ParseWeekdayString(pattern) == {WeekdayCodes[i] : i \in pattern}

\* convertMeeting; the set is empty when the meeting is left out.
ConvertMeeting(m) ==
  IF ~m.numbered \/ m.times = BadTimes \/ ~m.dated THEN {}
  ELSE {[start |-> IF m.times = NoTimes THEN 0 ELSE m.times.start,
         end |-> IF m.times = NoTimes THEN 0 ELSE m.times.end,
         first |-> m.first, last |-> m.last, days |-> ParseWeekdayString(m.pattern)]}

\* Faulty variant: weeks start on Monday in this table as well.
DayFromMonday(day) ==
  [M |-> 0, T |-> 1, W |-> 2, Th |-> 3, F |-> 4, S |-> 5, Su |-> 6][day]
DayToIndex(day) ==
  [Su |-> 0, M |-> 1, T |-> 2, W |-> 3, Th |-> 4, F |-> 5, S |-> 6][day]

\* time.Weekday and time.Date in the university's location, of days near the change.
Weekday(day) == day % 7
Midnight(day, clock) == 24 * day + (IF day <= SwitchDay THEN clock.before ELSE clock.after)

\* postgresToWebcalEvent
EventOf(row, day, clock) ==
  [start |-> Midnight(day, clock) + row.start, end |-> Midnight(day, clock) + row.end]

\* postgresToWebcalEvents, of one row.
EventsOf(row, clock) ==
  LET hasDay == {DayToIndex(day) : day \in row.days}
      dates == {d \in row.first..row.last : Weekday(d) \in hasDay} IN
  [i \in 1..Cardinality(dates) |-> EventOf(row, InOrder(dates)[i], clock)]

-----------------------------------------------------------------------------
(* What a subscriber may rely on.                                          *)

\* What a clock at the university shows at an instant, in hours from day 0.
Wall(instant, clock) ==
  instant - (IF instant < 24 * SwitchDay + 2 + clock.before THEN clock.before ELSE clock.after)

\* Day d is one the meeting is listed on.
TakesPlace(m, d) ==
  /\ m.numbered /\ m.times # BadTimes /\ m.dated /\ m.first <= d /\ d <= m.last
  /\ (IF Weekday(d) = 0 THEN 7 ELSE Weekday(d)) \in m.pattern

(* A meeting has an event on each day it is listed on and on no other, at  *)
(* its hours by the clocks of the university, except on the Sunday of the  *)
(* change: there, what is after 2 in the morning is off by the hour that   *)
(* is lost or won.  An event ends after it starts, as calendar.go says it  *)
(* must, exactly if the listing has it so: a meeting without times, or     *)
(* with equal or reversed ones, is passed on as it is.                     *)
EventsWhenListed(m) ==
  LET rows == ConvertMeeting(m)
      off(d, hour) == IF d = SwitchDay /\ hour >= 2 THEN m.clock.before - m.clock.after ELSE 0
      times == IF m.times = NoTimes THEN [start |-> 0, end |-> 0] ELSE m.times
      days == {d \in m.first..m.last : TakesPlace(m, d)}
      got == UNION {Range(EventsOf(row, m.clock)) : row \in rows} IN
  /\ {[start |-> Wall(e.start, m.clock), end |-> Wall(e.end, m.clock)] : e \in got} =
       {[start |-> 24 * d + times.start + off(d, times.start), end |-> 24 * d + times.end + off(d, times.end)] : d \in days}
  /\ Cardinality(got) = Cardinality(days)
  /\ \A e \in got : e.end > e.start <=> times.end > times.start
=============================================================================
