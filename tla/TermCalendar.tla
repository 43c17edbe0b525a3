---------------------------- MODULE TermCalendar ----------------------------
(***************************************************************************)
(* The calendar of terms (flow/common/util/term.go) and the jobs that go   *)
(* by it: which terms the importer fetches, what the two vacuums delete,   *)
(* and which schedules the API takes.  Quest numbers a term by year and    *)
(* season: Fall 2019 is (2019 - 1900) * 10 + 9 = 1199.                     *)
(***************************************************************************)
EXTENDS Integers, FiniteSets

CONSTANTS
  FirstDay,   \* [year, month, day]
  LastTerm,   \* bound: the clock stops when this term is over
  Announced,  \* the terms that the ImportantDates endpoint has both dates of
  MaxFetching \* bound: how many runs of course.ImportAll are under way at a time

IsLeap(y) == (y % 4 = 0 /\ y % 100 # 0) \/ y % 400 = 0

DaysIn(y, m) ==
  IF m = 2 THEN IF IsLeap(y) THEN 29 ELSE 28
  ELSE IF m \in {4, 6, 9, 11} THEN 30 ELSE 31

Dates == {d \in [year: Nat, month: 1..12, day: 1..31] : d.day <= DaysIn(d.year, d.month)}

ASSUME CalendarAssumption ==
  FirstDay \in Dates /\ FirstDay.year > 1902 /\ LastTerm \in Nat /\ Announced \subseteq Nat
  /\ MaxFetching \in Nat

VARIABLES
  today,      \* time.Now()
  fetching,   \* the runs of course.ImportAll that have not written their sections
  term,       \* the ids of table term
  section,    \* the terms that course_section has rows of
  schedule,   \* the terms that user_schedule has rows of
  gone        \* the terms whose sections were vacuumed

vars == <<today, fetching, term, section, schedule, gone>>

Init == today = FirstDay /\ fetching = {} /\ term = {} /\ section = {} /\ schedule = {} /\ gone = {}

-----------------------------------------------------------------------------

\* Month m of year y, where m may lie outside 1..12.
MonthOf(y, m) == [year |-> y + ((m - 1) \div 12), month |-> ((m - 1) % 12) + 1]

\* time.Time.AddDate(0, n, 0): a day the month does not have runs over into the next.
AddMonths(d, n) ==
  LET to == MonthOf(d.year, d.month + n)
      extra == d.day - DaysIn(to.year, to.month)
      over == MonthOf(to.year, to.month + 1) IN
  IF extra <= 0 THEN [year |-> to.year, month |-> to.month, day |-> d.day]
                ELSE [year |-> over.year, month |-> over.month, day |-> extra]

NextDay(d) ==
  IF d.day < DaysIn(d.year, d.month) THEN [d EXCEPT !.day = @ + 1]
  ELSE LET over == MonthOf(d.year, d.month + 1) IN [year |-> over.year, month |-> over.month, day |-> 1]

Season(m) == IF m >= 9 THEN 9 ELSE IF m >= 5 THEN 5 ELSE 1

DateToTermId(d) == (d.year - 1900) * 10 + Season(d.month)

CurrentTermId(d) == DateToTermId(d)

PreviousTermId(d, n) == DateToTermId(AddMonths(d, -4 * n))

NextTermId(d) == DateToTermId(AddMonths(d, 4))

\* Faulty variants: the vacuums keep one term less, or the fetch goes one further back.
OneTermLess(d) == PreviousTermId(d, 1)
OneTermMore(d) == {PreviousTermId(d, n) : n \in 0..3} \cup {NextTermId(d)}

\* What the two vacuums keep: terms from this one on.
RetainTermsFrom(d) == PreviousTermId(d, 2)
RetainSectionsFrom(d) == PreviousTermId(d, 2)

\* course.ImportAll.
Fetched(d) == {PreviousTermId(d, 2), PreviousTermId(d, 1), CurrentTermId(d), NextTermId(d)}

\* saveSchedule.
Accepted(t) == t >= CurrentTermId(today)

-----------------------------------------------------------------------------

Tick ==
  /\ DateToTermId(NextDay(today)) <= LastTerm
  /\ today' = NextDay(today)
  /\ UNCHANGED <<fetching, term, section, schedule, gone>>

\* term.ImportAll.
ImportTerms == term' = term \cup Announced /\ UNCHANGED <<today, fetching, section, schedule, gone>>

\* course.ImportAll works out the terms and starts to fetch, also after
\* term.ImportAll has failed: a term without a row is replaced with a dummy, of
\* which only the id is used.  The run remembers what was gone by then.
FetchSections ==
  /\ Cardinality(fetching) < MaxFetching
  /\ fetching' = fetching \cup {[terms |-> Fetched(today), gone |-> gone]}
  /\ UNCHANGED <<today, term, section, schedule, gone>>

\* Hours later, on another day perhaps, it writes what the API had of these terms,
\* or it fails.
ImportSections ==
  /\ \E r \in fetching : \E found \in SUBSET r.terms :
       fetching' = fetching \ {r} /\ section' = section \cup found
  /\ UNCHANGED <<today, term, schedule, gone>>

\* term.Vacuum.
VacuumTerms ==
  /\ term' = {t \in term : t >= RetainTermsFrom(today)}
  /\ UNCHANGED <<today, fetching, section, schedule, gone>>

\* course.Vacuum.  Rows of user_schedule go with their sections.
VacuumSections ==
  LET kept == {t \in section : t >= RetainSectionsFrom(today)} IN
  /\ section' = kept /\ schedule' = schedule \cap kept
  /\ gone' = gone \cup (section \ kept)
  /\ UNCHANGED <<today, fetching, term>>

\* saveSchedule.
SaveSchedule ==
  /\ \E t \in section : Accepted(t) /\ schedule' = schedule \cup {t}
  /\ UNCHANGED <<today, fetching, term, section, gone>>

Next == Tick \/ ImportTerms \/ FetchSections \/ ImportSections \/ VacuumTerms \/ VacuumSections
        \/ SaveSchedule

Spec == Init /\ [][Next]_vars

-----------------------------------------------------------------------------
(* Properties.                                                             *)

\* The term before and the term after t, by the numbering alone.
Before(t) == IF t % 10 = 1 THEN t - 2 ELSE t - 4
After(t) == IF t % 10 = 9 THEN t + 2 ELSE t + 4

\* The date is one of the calendar, term ids end in a season, and what hangs on
\* sections is stored only with them.
TypeOK ==
  /\ today \in Dates
  /\ term \subseteq Nat /\ gone \subseteq Nat
  /\ section \subseteq {t \in Nat : t % 10 \in {1, 5, 9}}
  /\ schedule \subseteq section
  /\ \A r \in fetching :
       r = [terms |-> r.terms, gone |-> r.gone] /\ r.terms \subseteq {t \in Nat : t % 10 \in {1, 5, 9}}

\* The vacuums never delete the record, the sections or the schedules of the
\* previous, the current or a coming term, on any day of any year: not on
\* December 31 either, when AddDate runs over and PreviousTermId(2) is the
\* previous term itself.
PreviousKept ==
  [][\A t \in (section \ section') \cup (term \ term') : t < Before(CurrentTermId(today))]_vars

\* Sections that were vacuumed, which would get new ids, come back only by a run
\* that was already under way when the vacuum deleted them, because the terms of
\* the two changed in between; and the next vacuum deletes those again.  No import
\* fetches a term that was deleted before it began.
NeverReturns ==
  [][\A t \in (section' \ section) \cap gone :
       /\ t < RetainSectionsFrom(today)
       /\ \E r \in fetching : t \in r.terms \ r.gone]_vars

\* import.go says "Fetch for previous two, current, and next terms".
\* It does not on August 31 and December 31.
FetchesFourTerms ==
  LET t == CurrentTermId(today) IN Fetched(today) = {Before(Before(t)), Before(t), t, After(t)}
=============================================================================
