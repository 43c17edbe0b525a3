---------------------------- MODULE RequirementText ----------------------------
(***************************************************************************)
(* How the importer reads the description of a course's requirements       *)
(* (flow/importer/uw/parts/course/convert.go): first it is divided into    *)
(* prerequisites, corequisites and antirequisites, then the course codes   *)
(* in each are written out.                                                *)
(***************************************************************************)
EXTENDS Integers, Sequences, FiniteSets, Functions, Places

CONSTANT Prose      \* words without a colon or the name of a type

ASSUME PieceAssumption == Prose \cap {"prereq", "coreq", "antireq", "colon", "space"} = {}

Types == {"prereq", "coreq", "antireq"}
\* A description, piece by piece: a type is a part of a word in any case.
Piece == Types \cup {"colon", "space"} \cup Prose

-----------------------------------------------------------------------------
(* parseCourseRequirements                                                 *)

\* The last type among a word's pieces that the code would name it by.
TypeOf(pieces) ==
  IF "prereq" \in pieces THEN "prereq" ELSE IF "coreq" \in pieces THEN "coreq" ELSE "antireq"

\* Where the word that ends at i starts: at the space before it, or with the text.
WordStart(text, i) ==
  LET spaces == {j \in 1..i : text[j] = "space"} IN IF spaces = {} THEN 1 ELSE LastPlace(spaces)

PiecesOf(text, from, to) == {text[i] : i \in from..to}

\* Faulty variant: only prerequisites and antirequisites are looked for.
LabelsWithoutCoreq(text) ==
  {i \in 1..Len(text) : text[i] = "colon" /\ PiecesOf(text, WordStart(text, i), i) \cap {"prereq", "antireq"} # {}}
\* The colons after a word that names a type.
Labels(text) ==
  {i \in 1..Len(text) : text[i] = "colon" /\ PiecesOf(text, WordStart(text, i), i) \cap Types # {}}

TrimSpace(s) ==
  LET kept == {i \in 1..Len(s) : s[i] # "space"} IN
  IF kept = {} THEN <<>> ELSE SubSeq(s, FirstPlace(kept), LastPlace(kept))

\* Where the text of the label at i ends: before the word of the next label.
NextLabel(text, i) ==
  LET later == {j \in Labels(text) : j > i} IN
  IF later = {} THEN Len(text) + 1 ELSE WordStart(text, FirstPlace(later))

\* The labels of a type, of which the last one counts.
LabelsOf(text, t) == {i \in Labels(text) : TypeOf(PiecesOf(text, WordStart(text, i), i)) = t}

\* What parseCourseRequirements returns.
\* The Go slice panics when the next label's word starts before the label ends.
Requirements(text) ==
  IF \E i \in Labels(text) : i + 1 > NextLabel(text, i) THEN [panics |-> TRUE]
  ELSE [panics |-> FALSE,
        of |-> [t \in Types |->
          IF LabelsOf(text, t) = {} THEN <<>>
          ELSE LET i == LastPlace(LabelsOf(text, t)) IN TrimSpace(SubSeq(text, i + 1, NextLabel(text, i) - 1))]]

\* Labels are words of their own: a type and a colon, after a space.
WellLabelled(text) ==
  \A i \in 1..Len(text) :
    /\ text[i] = "colon" => i > 1 /\ text[i - 1] \in Types /\ (i > 2 => text[i - 2] = "space")
    /\ text[i] \in Types => i < Len(text) /\ text[i + 1] = "colon"

(* Of a description with well written labels, each type that is named once *)
(* has all that is between its label and the next one, and nothing else;   *)
(* a type that is named again has what its last label says, and one that   *)
(* is not named has nothing.  It cannot crash.                             *)
RequirementsDivided(text) ==
  WellLabelled(text) =>
    LET got == Requirements(text)
        named(t) == {i \in 2..Len(text) : text[i] = "colon" /\ text[i - 1] = t} IN
    /\ ~got.panics
    /\ \A t \in Types :
         /\ named(t) = {} => got.of[t] = <<>>
         /\ \A i \in named(t) :
              (\A j \in named(t) : j <= i) =>
                \E to \in i..Len(text) :
                  /\ \A j \in (i + 1)..to : text[j] \notin Types \cup {"colon"}
                  /\ to < Len(text) => text[to + 1] \in Types
                  /\ got.of[t] = TrimSpace(SubSeq(text, i + 1, to))

-----------------------------------------------------------------------------
(* expandCourseCodes                                                       *)

\* A requirement, word by word, without what separates words: a word of capitals
\* only (CS, but also UW), a number of three digits, or any other.
Word == {"subject", "number", "other"}

SubjectsIn(text) == {i \in 1..Len(text) : text[i] = "subject"}
NumbersIn(text) == {i \in 1..Len(text) : text[i] = "number"}

\* The two loops merge subjects and numbers, and end when either is used up: a
\* subject after the last number is no match, and without a subject nothing is.
Matches(text) ==
  IF SubjectsIn(text) = {} THEN {}
  ELSE {i \in SubjectsIn(text) \cup NumbersIn(text) : \E j \in NumbersIn(text) : i <= j}

\* What is written: <<0, i>> is the word at i as it was, <<s, n>> the course code
\* of the subject at s and the number at n.
Copied(from, to) == [k \in 1..(to - from + 1) |-> <<0, from + k - 1>>]
CodesOf(subjects, n) == [k \in 1..Len(subjects) |-> <<subjects[k], n>>]

\* Faulty variant: a new subject does not replace the last ones.
ExpandedKeepingSubjects(text, got, i) ==
  LET out == IF got.afterNumber THEN got.out \o Copied(got.end + 1, i - 1) ELSE got.out
      codes == CodesOf(got.subjects, i) IN
  IF text[i] = "subject"
  THEN [out |-> out, codes |-> got.codes, end |-> got.end, afterNumber |-> FALSE, subjects |-> Append(got.subjects, i)]
  ELSE [out |-> out \o codes, codes |-> got.codes \o codes, end |-> i, afterNumber |-> TRUE, subjects |-> got.subjects]
\* One turn of the loop over the matches, for the one at i.
Expanded(text, got, i) ==
  LET out == IF got.afterNumber THEN got.out \o Copied(got.end + 1, i - 1) ELSE got.out
      codes == CodesOf(got.subjects, i) IN
  IF text[i] = "subject"
  THEN [out |-> out, codes |-> got.codes, end |-> got.end, afterNumber |-> FALSE,
        subjects |-> IF got.afterNumber THEN <<i>> ELSE Append(got.subjects, i)]
  ELSE [out |-> out \o codes, codes |-> got.codes \o codes, end |-> i, afterNumber |-> TRUE, subjects |-> got.subjects]

\* The string with the codes written out, and the codes.
ExpandCourseCodes(text) ==
  LET count == Cardinality(Matches(text))
      got[k \in 0..count] ==
        IF k = 0 THEN [out |-> <<>>, codes |-> <<>>, end |-> 0, afterNumber |-> TRUE, subjects |-> <<>>]
        ELSE Expanded(text, got[k - 1], InOrder(Matches(text))[k]) IN
  [out |-> got[count].out \o Copied(got[count].end + 1, Len(text)), codes |-> got[count].codes]

\* The subjects that the number at i is read with: those since the number before
\* the last of them.
SubjectsOf(text, i) ==
  {j \in SubjectsIn(text) :
     j < i /\ \A k \in SubjectsIn(text) : j < k /\ k < i => ~\E n \in NumbersIn(text) : j < n /\ n < k}

\* The word at i stands between a subject and the next number, or is the subject.
BeforeItsNumber(text, i) ==
  /\ \E n \in NumbersIn(text) : i < n
  /\ \E s \in SubjectsIn(text) : s <= i /\ ~\E n \in NumbersIn(text) : s < n /\ n <= i

\* By number, and those of a number by subject.
InTextOrder(written) ==
  \A k, l \in 1..Len(written) : k < l =>
    \/ written[k][2] < written[l][2]
    \/ written[k][2] = written[l][2] /\ written[k][1] < written[l][1]

(* Each number is a course of every subject named since the number before  *)
(* those subjects, and there is no other code.  What is shown has these    *)
(* codes and all other words in the order of the text, except the words    *)
(* between a subject and its number; numbers are shown as they were only   *)
(* where no subject is named at all.                                       *)
CodesWrittenOut(text) ==
  LET got == ExpandCourseCodes(text)
      codes == {c \in SubjectsIn(text) \X NumbersIn(text) : c[1] \in SubjectsOf(text, c[2])}
      kept == {i \in 1..Len(text) : ~BeforeItsNumber(text, i) /\ (i \in NumbersIn(text) => SubjectsIn(text) = {})} IN
  /\ Range(got.codes) = codes /\ InTextOrder(got.codes)
  /\ Range(got.out) = codes \cup {<<0, i>> : i \in kept} /\ InTextOrder(got.out)
=============================================================================
