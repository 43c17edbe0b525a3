------------------------- MODULE TermCalendarProofs -------------------------
(***************************************************************************)
(* What holds of the calendar on every date, and of the jobs at any pace:  *)
(* arithmetic of terms first, then an inductive invariant that compares    *)
(* what is stored with what the vacuums keep today.                        *)
(***************************************************************************)
EXTENDS TermCalendar, TLAPS

\* A season is told by the month; the month after may begin the next season.
LEMMA SeasonOfMonth ==
  ASSUME NEW m \in 1..12
  PROVE  Season(m) = (IF m \in 1..4 THEN 1 ELSE IF m \in 5..8 THEN 5 ELSE 9)
  BY DEF Season

\* Months eight and four back, four on and one on, month by month.
LEMMA MonthsBack8 ==
  ASSUME NEW d \in Dates
  PROVE  /\ MonthOf(d.year, d.month - 8).year = IF d.month <= 8 THEN d.year - 1 ELSE d.year
         /\ MonthOf(d.year, d.month - 8).month = IF d.month <= 8 THEN d.month + 4 ELSE d.month - 8
<1>1. d.year \in Int /\ d.month \in 1..12
  BY DEF Dates
<1>2. QED
  BY <1>1 DEF MonthOf

\* Four months back.
LEMMA MonthsBack4 ==
  ASSUME NEW d \in Dates
  PROVE  /\ MonthOf(d.year, d.month - 4).year = IF d.month <= 4 THEN d.year - 1 ELSE d.year
         /\ MonthOf(d.year, d.month - 4).month = IF d.month <= 4 THEN d.month + 8 ELSE d.month - 4
<1>1. d.year \in Int /\ d.month \in 1..12
  BY DEF Dates
<1>2. QED
  BY <1>1 DEF MonthOf

\* Four months on.
LEMMA MonthsOn4 ==
  ASSUME NEW d \in Dates
  PROVE  /\ MonthOf(d.year, d.month + 4).year = IF d.month > 8 THEN d.year + 1 ELSE d.year
         /\ MonthOf(d.year, d.month + 4).month = IF d.month > 8 THEN d.month - 8 ELSE d.month + 4
<1>1. d.year \in Int /\ d.month \in 1..12
  BY DEF Dates
<1>2. QED
  BY <1>1 DEF MonthOf

\* One month on.
LEMMA MonthAfter ==
  ASSUME NEW y \in Int, NEW m \in 1..12
  PROVE  /\ MonthOf(y, m + 1).year = IF m = 12 THEN y + 1 ELSE y
         /\ MonthOf(y, m + 1).month = IF m = 12 THEN 1 ELSE m + 1
  BY DEF MonthOf

\* How many days there are in a month, as far as it is the same every year.
LEMMA DaysBounds ==
  ASSUME NEW y \in Int, NEW m \in 1..12
  PROVE  /\ DaysIn(y, m) \in {28, 29, 30, 31}
         /\ m # 2 => DaysIn(y, m) = IF m \in {4, 6, 9, 11} THEN 30 ELSE 31
  BY DEF DaysIn

\* The term of the date n months away, by the month y, m that it aims at: only
\* from the 31st of another month into April does AddDate run into a later term.
LEMMA TermOfMonth ==
  ASSUME NEW d \in Dates, NEW n \in Int, NEW y \in Int, NEW m \in 1..12,
         MonthOf(d.year, d.month + n).year = y, MonthOf(d.year, d.month + n).month = m
  PROVE  DateToTermId(AddMonths(d, n)) = (y - 1900) * 10 +
           (IF m <= 4 THEN IF m = 4 /\ d.day = 31 THEN 5 ELSE 1 ELSE IF m <= 8 THEN 5 ELSE 9)
<1>1. d.day \in 1..31 /\ DaysIn(y, m) \in {28, 29, 30, 31}
  BY DaysBounds DEF Dates
<1>2. m # 2 => DaysIn(y, m) = IF m \in {4, 6, 9, 11} THEN 30 ELSE 31
  BY DaysBounds
<1>3. Season(m) = (IF m \in 1..4 THEN 1 ELSE IF m \in 5..8 THEN 5 ELSE 9)
  BY SeasonOfMonth
<1>4. CASE d.day <= DaysIn(y, m)
  <2>1. DateToTermId(AddMonths(d, n)) = (y - 1900) * 10 + Season(m)
    BY <1>1, <1>4 DEF AddMonths, DateToTermId
  <2>2. ~(m = 4 /\ d.day = 31)
    BY <1>2, <1>4
  <2>3. QED
    BY <1>3, <2>1, <2>2
<1>5. CASE ~(d.day <= DaysIn(y, m))
  <2>1. m # 12 /\ m # 8 /\ (m = 4 => d.day = 31)
    BY <1>1, <1>2, <1>5
  <2>2. MonthOf(y, m + 1).year = y /\ MonthOf(y, m + 1).month = m + 1
    BY <2>1, MonthAfter
  <2>3. DateToTermId(AddMonths(d, n)) = (y - 1900) * 10 + Season(m + 1)
    BY <1>1, <1>5, <2>2 DEF AddMonths, DateToTermId
  <2>4. Season(m + 1) = (IF m + 1 \in 1..4 THEN 1 ELSE IF m + 1 \in 5..8 THEN 5 ELSE 9)
    BY <2>1, SeasonOfMonth
  <2>5. QED
    BY <2>1, <2>3, <2>4
<1>6. QED
  BY <1>4, <1>5

\* The term the vacuums keep from: two terms back, but one on December 31.
LEMMA TwoTermsBack ==
  ASSUME NEW d \in Dates
  PROVE  PreviousTermId(d, 2) = (d.year - 1900) * 10 +
           (IF d.month <= 4 THEN -5 ELSE IF d.month <= 8 THEN -1
            ELSE IF d.month = 12 /\ d.day = 31 THEN 5 ELSE 1)
<1>1. d.year \in Int /\ d.month \in 1..12 /\ d.day \in 1..31
  BY DEF Dates
<1> DEFINE n == -4 * 2
           y == IF d.month <= 8 THEN d.year - 1 ELSE d.year
           m == IF d.month <= 8 THEN d.month + 4 ELSE d.month - 8
<1>2. n \in Int /\ y \in Int /\ m \in 1..12 /\ d.month + n = d.month - 8
  BY <1>1
<1>3. MonthOf(d.year, d.month - 8).year = y /\ MonthOf(d.year, d.month - 8).month = m
  BY MonthsBack8
<1>4. PreviousTermId(d, 2) = DateToTermId(AddMonths(d, n))
  BY DEF PreviousTermId
<1>5. PreviousTermId(d, 2) = (y - 1900) * 10 +
        (IF m <= 4 THEN IF m = 4 /\ d.day = 31 THEN 5 ELSE 1 ELSE IF m <= 8 THEN 5 ELSE 9)
  <2> HIDE DEF n, y, m
  <2>1. QED
    BY <1>2, <1>3, <1>4, TermOfMonth
<1>6. QED
  BY <1>1, <1>5

\* The previous term, but the current one on August 31.
LEMMA OneTermBack ==
  ASSUME NEW d \in Dates
  PROVE  PreviousTermId(d, 1) = (d.year - 1900) * 10 +
           (IF d.month <= 4 THEN -1
            ELSE IF d.month <= 8 THEN IF d.month = 8 /\ d.day = 31 THEN 5 ELSE 1 ELSE 5)
<1>1. d.year \in Int /\ d.month \in 1..12 /\ d.day \in 1..31
  BY DEF Dates
<1> DEFINE n == -4 * 1
           y == IF d.month <= 4 THEN d.year - 1 ELSE d.year
           m == IF d.month <= 4 THEN d.month + 8 ELSE d.month - 4
<1>2. n \in Int /\ y \in Int /\ m \in 1..12 /\ d.month + n = d.month - 4
  BY <1>1
<1>3. MonthOf(d.year, d.month - 4).year = y /\ MonthOf(d.year, d.month - 4).month = m
  BY MonthsBack4
<1>4. PreviousTermId(d, 1) = DateToTermId(AddMonths(d, n))
  BY DEF PreviousTermId
<1>5. PreviousTermId(d, 1) = (y - 1900) * 10 +
        (IF m <= 4 THEN IF m = 4 /\ d.day = 31 THEN 5 ELSE 1 ELSE IF m <= 8 THEN 5 ELSE 9)
  <2> HIDE DEF n, y, m
  <2>1. QED
    BY <1>2, <1>3, <1>4, TermOfMonth
<1>6. QED
  BY <1>1, <1>5

\* The next term, but the one after it on December 31.
LEMMA OneTermOn ==
  ASSUME NEW d \in Dates
  PROVE  NextTermId(d) = (d.year - 1900) * 10 +
           (IF d.month <= 4 THEN 5 ELSE IF d.month <= 8 THEN 9
            ELSE IF d.month = 12 /\ d.day = 31 THEN 15 ELSE 11)
<1>1. d.year \in Int /\ d.month \in 1..12 /\ d.day \in 1..31
  BY DEF Dates
<1> DEFINE n == 4
           y == IF d.month > 8 THEN d.year + 1 ELSE d.year
           m == IF d.month > 8 THEN d.month - 8 ELSE d.month + 4
<1>2. n \in Int /\ y \in Int /\ m \in 1..12 /\ d.month + n = d.month + 4
  BY <1>1
<1>3. MonthOf(d.year, d.month + 4).year = y /\ MonthOf(d.year, d.month + 4).month = m
  BY MonthsOn4
<1>4. NextTermId(d) = DateToTermId(AddMonths(d, n))
  BY DEF NextTermId
<1>5. NextTermId(d) = (y - 1900) * 10 +
        (IF m <= 4 THEN IF m = 4 /\ d.day = 31 THEN 5 ELSE 1 ELSE IF m <= 8 THEN 5 ELSE 9)
  <2> HIDE DEF n, y, m
  <2>1. QED
    BY <1>2, <1>3, <1>4, TermOfMonth
<1>6. QED
  BY <1>1, <1>5

\* The current term in the same form.
LEMMA TermNow ==
  ASSUME NEW d \in Dates
  PROVE  CurrentTermId(d) = (d.year - 1900) * 10 + (IF d.month <= 4 THEN 1 ELSE IF d.month <= 8 THEN 5 ELSE 9)
<1>1. d.year \in Int /\ d.month \in 1..12
  BY DEF Dates
<1>2. Season(d.month) = (IF d.month \in 1..4 THEN 1 ELSE IF d.month \in 5..8 THEN 5 ELSE 9)
  BY <1>1, SeasonOfMonth
<1>3. QED
  BY <1>1, <1>2 DEF CurrentTermId, DateToTermId

\* On no date do the vacuums reach the previous term.
THEOREM VacuumsSparePrevious ==
  ASSUME NEW d \in Dates
  PROVE  RetainSectionsFrom(d) <= Before(CurrentTermId(d))
<1>1. d.year \in Int /\ d.month \in 1..12 /\ d.day \in 1..31
  BY DEF Dates
<1>2. RetainSectionsFrom(d) = (d.year - 1900) * 10 +
         (IF d.month <= 4 THEN -5 ELSE IF d.month <= 8 THEN -1
          ELSE IF d.month = 12 /\ d.day = 31 THEN 5 ELSE 1)
  BY TwoTermsBack DEF RetainSectionsFrom
<1>3. QED
  BY <1>1, <1>2, TermNow DEF Before

\* Whatever is fetched would be kept, and its terms end in a season.
LEMMA FetchedKept ==
  ASSUME NEW d \in Dates, NEW t \in Fetched(d), d.year > 1902
  PROVE  t \in Nat /\ t % 10 \in {1, 5, 9} /\ t >= RetainSectionsFrom(d)
<1>1. d.year \in Int /\ d.month \in 1..12 /\ d.day \in 1..31
  BY DEF Dates
<1> DEFINE b == (d.year - 1900) * 10
<1>2. RetainSectionsFrom(d) = b + (IF d.month <= 4 THEN -5 ELSE IF d.month <= 8 THEN -1
                                   ELSE IF d.month = 12 /\ d.day = 31 THEN 5 ELSE 1)
  BY TwoTermsBack DEF RetainSectionsFrom
<1>3. CASE t = PreviousTermId(d, 2)
  BY <1>1, <1>2, <1>3, TwoTermsBack
<1>4. CASE t = PreviousTermId(d, 1)
  BY <1>1, <1>2, <1>4, OneTermBack
<1>5. CASE t = CurrentTermId(d)
  BY <1>1, <1>2, <1>5, TermNow
<1>6. CASE t = NextTermId(d)
  BY <1>1, <1>2, <1>6, OneTermOn
<1>7. QED
  BY <1>3, <1>4, <1>5, <1>6 DEF Fetched

\* A day later it is still a date, and the vacuums keep no more than before.
LEMMA NextDayLater ==
  ASSUME NEW d \in Dates
  PROVE  /\ NextDay(d) \in Dates /\ NextDay(d).year >= d.year
         /\ RetainSectionsFrom(d) <= RetainSectionsFrom(NextDay(d))
<1>1. d.year \in Nat /\ d.month \in 1..12 /\ d.day \in 1..31 /\ d.day <= DaysIn(d.year, d.month)
  BY DEF Dates
<1>2. /\ DaysIn(d.year, d.month) \in {28, 29, 30, 31}
      /\ d.month # 2 => DaysIn(d.year, d.month) = IF d.month \in {4, 6, 9, 11} THEN 30 ELSE 31
  BY <1>1, DaysBounds
<1> DEFINE e == NextDay(d)
<1>3. /\ e \in Dates /\ e.year >= d.year /\ e.month \in 1..12 /\ e.day \in 1..31 /\ e.year \in Nat
      /\ \/ e.month = d.month /\ e.year = d.year /\ e.day >= d.day
         \/ e.month = d.month + 1 /\ e.year = d.year /\ e.day = 1
         \/ d.month = 12 /\ d.day = 31 /\ e.month = 1 /\ e.year = d.year + 1
  <2>1. CASE d.day < DaysIn(d.year, d.month)
    <3>1. e = [d EXCEPT !.day = d.day + 1]
      BY <2>1 DEF NextDay
    <3>2. e.year = d.year /\ e.month = d.month /\ e.day = d.day + 1
          /\ e \in [year: Nat, month: 1..12, day: 1..31]
      BY <1>1, <1>2, <2>1, <3>1 DEF Dates
    <3> HIDE DEF e
    <3>3. e \in Dates
      BY <1>1, <1>2, <2>1, <3>2 DEF Dates
    <3>4. QED
      BY <1>1, <1>2, <2>1, <3>2, <3>3
  <2>2. CASE ~(d.day < DaysIn(d.year, d.month))
    <3>1. e = [year |-> MonthOf(d.year, d.month + 1).year, month |-> MonthOf(d.year, d.month + 1).month, day |-> 1]
      BY <2>2 DEF NextDay
    <3>2. /\ MonthOf(d.year, d.month + 1).year = IF d.month = 12 THEN d.year + 1 ELSE d.year
          /\ MonthOf(d.year, d.month + 1).month = IF d.month = 12 THEN 1 ELSE d.month + 1
      <4> DEFINE y == d.year
                 m == d.month
      <4>1. y \in Int /\ m \in 1..12
        BY <1>1
      <4> HIDE DEF y, m
      <4>2. /\ MonthOf(y, m + 1).year = IF m = 12 THEN y + 1 ELSE y
            /\ MonthOf(y, m + 1).month = IF m = 12 THEN 1 ELSE m + 1
        BY <4>1, MonthAfter
      <4>3. QED
        BY <4>2 DEF y, m
    <3>3. e.year = (IF d.month = 12 THEN d.year + 1 ELSE d.year)
          /\ e.month = (IF d.month = 12 THEN 1 ELSE d.month + 1) /\ e.day = 1
          /\ e \in [year: Nat, month: 1..12, day: 1..31]
      BY <1>1, <3>1, <3>2
    <3> HIDE DEF e
    <3>4. DaysIn(e.year, e.month) \in {28, 29, 30, 31}
      BY <3>3, DaysBounds
    <3>5. QED
      BY <1>1, <1>2, <2>2, <3>3, <3>4 DEF Dates
  <2>3. QED
    BY <2>1, <2>2
<1>4. RetainSectionsFrom(d) = (d.year - 1900) * 10 + (IF d.month <= 4 THEN -5 ELSE IF d.month <= 8 THEN -1
                                   ELSE IF d.month = 12 /\ d.day = 31 THEN 5 ELSE 1)
  BY TwoTermsBack DEF RetainSectionsFrom
<1>5. RetainSectionsFrom(e) = (e.year - 1900) * 10 + (IF e.month <= 4 THEN -5 ELSE IF e.month <= 8 THEN -1
                                   ELSE IF e.month = 12 /\ e.day = 31 THEN 5 ELSE 1)
  BY <1>3, TwoTermsBack DEF RetainSectionsFrom
<1>6. QED
  <2> HIDE DEF e
  <2>1. RetainSectionsFrom(d) <= RetainSectionsFrom(e)
    BY <1>1, <1>2, <1>3, <1>4, <1>5
  <2>2. QED
    BY <1>3, <2>1 DEF e

-----------------------------------------------------------------------------

\* Late enough a year for term ids to be natural numbers, no vacuumed term is
\* one the vacuums would keep today, and no run is after one that was gone when
\* it began.
Inv ==
  /\ TypeOK
  /\ today.year > 1902
  /\ \A t \in gone : t < RetainSectionsFrom(today)
  /\ \A r \in fetching : r.terms \cap r.gone = {}

\* The invariant holds at first.
LEMMA InvInit == Init => Inv
  BY CalendarAssumption DEF Init, Inv, TypeOK

\* Both vacuums keep from the same term on, and its id is a number.
LEMMA Thresholds ==
  ASSUME NEW d \in Dates
  PROVE  RetainSectionsFrom(d) \in Int /\ RetainTermsFrom(d) = RetainSectionsFrom(d)
<1>1. d.year \in Int /\ d.month \in 1..12 /\ d.day \in 1..31
  BY DEF Dates
<1>2. QED
  BY <1>1, TwoTermsBack DEF RetainSectionsFrom, RetainTermsFrom

\* No step leaves the types.
LEMMA TypeStep == Inv /\ [Next]_vars => TypeOK' /\ today'.year > 1902
<1> SUFFICES ASSUME Inv, [Next]_vars
             PROVE  TypeOK' /\ today'.year > 1902
  OBVIOUS
<1>0. today \in Dates /\ today.year \in Int
  BY DEF Inv, TypeOK, Dates
<1> DEFINE S == {t \in Nat : t % 10 \in {1, 5, 9}}
<1>s. /\ term \subseteq Nat /\ gone \subseteq Nat /\ section \subseteq S /\ S \subseteq Nat
      /\ schedule \subseteq section
      /\ \A r \in fetching : r = [terms |-> r.terms, gone |-> r.gone] /\ r.terms \subseteq S
  BY DEF Inv, TypeOK
<1>f. Fetched(today) \subseteq S
  BY <1>0, FetchedKept DEF Inv
<1>d. today' \in Dates /\ today'.year > 1902
  <2>1. CASE Tick
    BY <1>0, <2>1, NextDayLater DEF Inv, Tick, Dates
  <2>2. CASE today' = today
    BY <1>0, <2>2 DEF Inv
  <2>3. QED
    BY <2>1, <2>2 DEF Next, ImportTerms, FetchSections, ImportSections, VacuumTerms, VacuumSections,
                        SaveSchedule, vars
<1> HIDE DEF S
<1>1. /\ term' \subseteq Nat /\ gone' \subseteq Nat /\ section' \subseteq S
      /\ schedule' \subseteq section'
      /\ \A r \in fetching' : r = [terms |-> r.terms, gone |-> r.gone] /\ r.terms \subseteq S
  <2>1. CASE ImportTerms
    BY <1>s, <2>1, CalendarAssumption DEF ImportTerms
  <2>2. CASE FetchSections
    <3>1. \A r \in fetching' : r \in fetching \/ r = [terms |-> Fetched(today), gone |-> gone]
      BY <2>2 DEF FetchSections
    <3>2. QED
      BY <1>s, <1>f, <2>2, <3>1 DEF FetchSections
  <2>3. CASE ImportSections
    BY <1>s, <2>3 DEF ImportSections
  <2>4. CASE VacuumTerms
    BY <1>s, <2>4 DEF VacuumTerms
  <2>5. CASE VacuumSections
    <3> DEFINE kept == {t \in section : t >= RetainSectionsFrom(today)}
    <3>1. /\ section' = kept /\ schedule' = schedule \cap kept
          /\ gone' = gone \cup (section \ kept) /\ term' = term
      BY <2>5 DEF VacuumSections
    <3>2. kept \subseteq section
      OBVIOUS
    <3> HIDE DEF kept
    <3>3. QED
      BY <1>s, <2>5, <3>1, <3>2 DEF VacuumSections
  <2>6. CASE SaveSchedule
    BY <1>s, <2>6 DEF SaveSchedule
  <2>7. CASE Tick \/ UNCHANGED vars
    BY <1>s, <2>7 DEF Tick, vars
  <2>8. QED
    BY <2>1, <2>2, <2>3, <2>4, <2>5, <2>6, <2>7 DEF Next
<1>2. QED
  BY <1>d, <1>1 DEF TypeOK, S

\* Every step keeps the invariant.
LEMMA InvStep == Inv /\ [Next]_vars => Inv'
<1> SUFFICES ASSUME Inv, [Next]_vars
             PROVE  Inv'
  OBVIOUS
<1>0. /\ today \in Dates /\ TypeOK' /\ today'.year > 1902
      /\ RetainSectionsFrom(today) \in Int /\ RetainTermsFrom(today) = RetainSectionsFrom(today)
  BY TypeStep, Thresholds DEF Inv, TypeOK
<1>t. section \subseteq Nat /\ gone \subseteq Nat
  BY DEF Inv, TypeOK
<1>1. CASE Tick
  <2>1. /\ RetainSectionsFrom(today') \in Int /\ RetainTermsFrom(today') = RetainSectionsFrom(today')
        /\ RetainSectionsFrom(today) <= RetainSectionsFrom(today')
    BY <1>0, <1>1, NextDayLater, Thresholds DEF Tick
  <2>2. gone' = gone /\ fetching' = fetching
    BY <1>1 DEF Tick
  <2>3. QED
    BY <1>0, <1>t, <2>1, <2>2 DEF Inv
<1>2. CASE ImportTerms
  BY <1>0, <1>2 DEF Inv, ImportTerms
<1>3. CASE FetchSections
  <2>1. \A t \in Fetched(today) : t \in Nat /\ t >= RetainSectionsFrom(today)
    BY <1>0, FetchedKept DEF Inv
  <2>2. Fetched(today) \cap gone = {}
    BY <1>0, <1>t, <2>1 DEF Inv
  <2>3. QED
    BY <1>0, <1>3, <2>2 DEF Inv, FetchSections
<1>4. CASE ImportSections
  BY <1>0, <1>4 DEF Inv, ImportSections
<1>5. CASE VacuumTerms
  BY <1>0, <1>t, <1>5 DEF Inv, VacuumTerms
<1>6. CASE VacuumSections
  BY <1>0, <1>t, <1>6 DEF Inv, VacuumSections
<1>7. CASE SaveSchedule
  BY <1>0, <1>7 DEF Inv, SaveSchedule
<1>8. CASE UNCHANGED vars
  BY <1>0, <1>8 DEF Inv, vars
<1>9. QED
  BY <1>1, <1>2, <1>3, <1>4, <1>5, <1>6, <1>7, <1>8 DEF Next

\* The invariant always holds.
LEMMA AlwaysInv == Spec => []Inv
  BY InvInit, InvStep, PTL DEF Spec

\* The stored tables are of their types, and schedules are stored only
\* with their sections.
THEOREM TypeCorrect == Spec => []TypeOK
<1>1. Inv => TypeOK
  BY DEF Inv
<1>2. QED
  BY <1>1, AlwaysInv, PTL

\* However the jobs are skipped or ordered, and however long a run takes, it
\* brings back only sections that were deleted while it was under way, and only
\* such as the next vacuum deletes again.
THEOREM VacuumedStaysGone == Spec => NeverReturns
<1> DEFINE Step == \A t \in (section' \ section) \cap gone :
                     /\ t < RetainSectionsFrom(today)
                     /\ \E r \in fetching : t \in r.terms \ r.gone
<1>1. Inv /\ [Next]_vars => [Step]_vars
  <2> SUFFICES ASSUME Inv, Next, NEW t \in (section' \ section) \cap gone
               PROVE  /\ t < RetainSectionsFrom(today)
                      /\ \E r \in fetching : t \in r.terms \ r.gone
    BY DEF vars
  <2>1. ImportSections
    BY DEF Next, Tick, ImportTerms, FetchSections, VacuumTerms, VacuumSections, SaveSchedule
  <2>2. QED
    BY <2>1 DEF ImportSections, Inv
<1>2. QED
  BY <1>1, AlwaysInv, PTL DEF Spec, NeverReturns

\* No step of any job deletes a record or sections of the previous term or a later one.
THEOREM PreviousTermKept == Spec => PreviousKept
<1> DEFINE Step == \A t \in (section \ section') \cup (term \ term') : t < Before(CurrentTermId(today))
<1>1. Inv /\ [Next]_vars => [Step]_vars
  <2> SUFFICES ASSUME Inv, Next, NEW t \in (section \ section') \cup (term \ term')
               PROVE  t < Before(CurrentTermId(today))
    BY DEF vars
  <2>1. today \in Dates /\ section \subseteq Nat /\ term \subseteq Nat
    BY DEF Inv, TypeOK
  <2>2. t \in Nat /\ ~(t >= RetainSectionsFrom(today))
    <3>1. CASE VacuumSections
      BY <2>1, <3>1 DEF VacuumSections
    <3>2. CASE VacuumTerms
      BY <2>1, <3>2, Thresholds DEF VacuumTerms
    <3>3. QED
      BY <3>1, <3>2 DEF Next, Tick, ImportTerms, FetchSections, ImportSections, SaveSchedule
  <2>3. Before(CurrentTermId(today)) \in Int
    <3>1. today.year \in Int /\ today.month \in 1..12
      BY <2>1 DEF Dates
    <3>2. QED
      BY <2>1, <3>1, TermNow DEF Before
  <2>4. QED
    BY <2>1, <2>2, <2>3, Thresholds, VacuumsSparePrevious
<1>2. QED
  BY <1>1, AlwaysInv, PTL DEF Spec, PreviousKept
=============================================================================
