---------------------------- MODULE TranscriptText ----------------------------
(***************************************************************************)
(* How the API reads the text of a transcript                              *)
(* (flow/api/parse/transcript/transcript.go).  A text is a sequence of     *)
(* lines: a term alone on its line, an academic level, a course in the     *)
(* table of those taken, or anything else.  A course's line ends with two  *)
(* numbers of credits, with one or with none: taken in a past term, not at *)
(* this university, taken now.                                             *)
(***************************************************************************)
EXTENDS Integers, Sequences, FiniteSets, Functions, Places

CONSTANTS Semesters, Levels, Codes

TranscriptLine ==
  [is: {"semester"}, semester: Semesters] \cup [is: {"level"}, level: Levels]
  \* year: its title has a number of four digits
  \cup [is: {"course"}, code: Codes, credits: 0..2, year: BOOLEAN]
  \cup [is: {"note"}]

LinesOf(text, what) == {i \in 1..Len(text) : text[i].is = what}

\* Faulty variant: a course without a number of credits counts as transferred too.
FewCredits(line) == line.credits + (IF line.year THEN 1 ELSE 0) <= 1
\* creditRegexp, whose point matches any character, matches once.
IsTransferCredit(line) == line.credits + (IF line.year THEN 1 ELSE 0) = 1

\* The loop over the terms: in each turn the courses before the next term.
\* Error: some terms lack academic level.
TermSummaries(text) ==
  LET terms == InOrder(LinesOf(text, "semester"))
      levels == InOrder(LinesOf(text, "level"))
      courses == InOrder(LinesOf(text, "course"))
      j == Stops(courses, PartEnds(LinesOf(text, "semester"), Len(text)))
      Taken(i) == {courses[k] : k \in {l \in j[i - 1]..(j[i] - 1) : ~IsTransferCredit(text[courses[l]])}} IN
  IF Len(terms) # Len(levels) THEN [ok |-> FALSE]
  ELSE [ok |-> TRUE, history |-> [i \in 1..Len(terms) |->
         [term |-> text[terms[i]].semester, level |-> text[levels[i]].level,
          courses |-> [k \in 1..Cardinality(Taken(i)) |-> text[InOrder(Taken(i))[k]].code]]]]

-----------------------------------------------------------------------------
(* What a transcript's reader may rely on.                                 *)

\* The term a line stands under; a line before all terms counts to the first.
TermAt(text, i) ==
  LET above == Rank(LinesOf(text, "semester"), i) IN IF above = 0 THEN 1 ELSE above

\* The levels under a term's line.
LevelsUnder(text, t) ==
  {i \in LinesOf(text, "level") : InOrder(LinesOf(text, "semester"))[t] <= i /\ TermAt(text, i) = t}

\* Under each term is one level.
WellLaidOut(text) ==
  \A t \in 1..Cardinality(LinesOf(text, "semester")) : Cardinality(LevelsUnder(text, t)) = 1

(* Each course goes to the term it stands under, in the order of the text, *)
(* those with one number of credits left out and no other, unless a title  *)
(* has a year; when each term has one level under it, and no level stands  *)
(* above the first, each is given its own.                                 *)
CoursesOfTheirTerm(text) ==
  LET got == TermSummaries(text)
      terms == InOrder(LinesOf(text, "semester")) IN
  /\ WellLaidOut(text) => got.ok \/ \E i \in LinesOf(text, "level") : \A j \in LinesOf(text, "semester") : i < j
  /\ got.ok => /\ Len(got.history) = Len(terms)
               /\ \A t \in 1..Len(terms) :
                    LET lines == {i \in LinesOf(text, "course") : TermAt(text, i) = t}
                        kept == {i \in lines : text[i].credits # 1} IN
                    /\ got.history[t].term = text[terms[t]].semester
                    /\ (\A i \in lines : ~text[i].year) =>
                         got.history[t].courses = [k \in 1..Cardinality(kept) |-> text[InOrder(kept)[k]].code]
                    /\ Range(got.history[t].courses) \subseteq {text[i].code : i \in lines}
                    /\ WellLaidOut(text) => \E i \in LevelsUnder(text, t) : got.history[t].level = text[i].level
=============================================================================
