----------------------------- MODULE Enrolments -----------------------------
(***************************************************************************)
(* The transcripts and schedules one user uploads (flow/api/parse), over   *)
(* user_course_taken and user_schedule, while the importer changes the     *)
(* sections.                                                               *)
(*                                                                         *)
(* An upload is a READ COMMITTED transaction.  A DELETE goes through the   *)
(* rows committed when it began and waits for one that another upload is   *)
(* deleting; an INSERT waits for an uncommitted row of the same unique     *)
(* key.  Writes become visible at the commit; PostgreSQL aborts an upload  *)
(* of a cycle of waiting ones.                                             *)
(***************************************************************************)
EXTENDS Naturals, FiniteSets, Sequences

CONSTANTS
  Uploads,      \* requests of the user, each used once
  Files,        \* what can be uploaded, as parsed: [kind, term, items]
  Courses,
  Catalogue,    \* the courses that table course has
  Sections,     \* the class numbers of the terms
  Terms,
  CurrentTerm,
  Before,       \* the writer of the rows there at the start
  OldItems,     \* what the user may have taken then: [course, term]
  NoCourse,     \* a section not imported yet
  MaxMoves,     \* bound on sections that come to belong to another course
  MaxFaults     \* bound on failures that roll an upload back

\* A transcript's items are [course, term] and its term is the last it has, 0
\* when it has none; a schedule's items are sections of its term.
ASSUME EnrolmentsAssumption ==
  /\ Terms \subseteq Nat /\ CurrentTerm \in Terms
  /\ Catalogue \subseteq Courses /\ NoCourse \notin Courses
  /\ Before \notin Uploads /\ OldItems \subseteq [course: Catalogue, term: Terms]
  /\ \A f \in Files :
       /\ f.term \in Terms \cup {0}
       /\ \/ /\ f.kind = "transcript"
             /\ f.items \in Seq([course: Courses, term: {t \in Terms : t <= f.term}])
          \/ f.kind = "schedule" /\ f.items \in Seq(Sections)
  /\ MaxMoves \in Nat /\ MaxFaults \in Nat

VARIABLES
  rows,      \* the committed rows of the two tables
  course,    \* the course of each section, NoCourse until it is imported
  pc,        \* per upload: the statement it is at
  file,      \* per upload: what is uploaded
  at,        \* per upload: the index of the item being written
  scan,      \* per upload: rows its DELETE has yet to come to
  gone,      \* per upload: committed rows it has deleted
  new,       \* per upload: rows it has inserted
  base,      \* per upload: the rows there when it began
  failed,    \* per upload: the classes it will report as failed
  found,     \* per upload: what its classes' second look-up found, <<section, course>>
  moves, faults

vars == <<rows, course, pc, file, at, scan, gone, new, base, failed, found, moves, faults>>
looked == <<failed, found>>
tx == <<scan, gone, new>>

\* Rows of user_course_taken and user_schedule, with the upload that wrote them.
Taken(c, t, u) == [table |-> "taken", of |-> c, term |-> t, by |-> u]
Scheduled(s, t, u) == [table |-> "schedule", of |-> s, term |-> t, by |-> u]

\* course_uniquely_taken and section_uniquely_taken.
SameKey(r, q) == r.table = q.table /\ r.of = q.of /\ r.term = q.term

NoFile == [kind |-> "none", term |-> 0, items |-> <<>>]

Init ==
  /\ rows \in SUBSET {Taken(i.course, i.term, Before) : i \in OldItems}
  /\ course = [s \in Sections |-> NoCourse]
  /\ pc = [u \in Uploads |-> "idle"] /\ file = [u \in Uploads |-> NoFile]
  /\ at = [u \in Uploads |-> 1]
  /\ scan = [u \in Uploads |-> {}] /\ gone = scan /\ new = scan /\ base = scan
  /\ failed = scan /\ found = scan
  /\ moves = 0 /\ faults = 0

Go(u, step) == pc' = [pc EXCEPT ![u] = step]
Running(u) == pc[u] \notin {"idle", "done", "refused", "conflict", "failed"}

-----------------------------------------------------------------------------
(* Locks.                                                                  *)

\* Faulty variant: a transcript that leaves the user's row alone.
NoProgram(u) == {}

\* saveTranscript updates the user's row first: another transcript waits for
\* the end of this one there.  A schedule only shares the row.
ProgramHolders(u) ==
  {v \in Uploads \ {u} : Running(v) /\ file[v].kind = "transcript" /\ pc[v] # "program"}

\* The uploads whose uncommitted insert or delete of the key of q decides
\* whether q can be inserted.
KeyHolders(u, q) ==
  {v \in Uploads \ {u} : \E r \in new[v] \cup gone[v] : SameKey(r, q)}

Deleting(u, r) == {v \in Uploads \ {u} : r \in gone[v]}

\* The row the INSERT ... SELECT at hand would write, if the SELECT finds any.
Wanted(u) ==
  LET i == file[u].items[at[u]]
      t == file[u].term IN
  IF pc[u] = "course" THEN {Taken(i.course, i.term, u) : c \in {i.course} \cap Catalogue}
  ELSE IF pc[u] = "section" THEN {Scheduled(i, t, u) : c \in {course[i]} \ {NoCourse}}
  ELSE IF pc[u] = "taken" THEN {Taken(c, t, u) : c \in {course[i]} \ {NoCourse}}
  ELSE {}

\* The row is there for u, which sees its own writes.
Present(u, q) == \E r \in (rows \ gone[u]) \cup new[u] : SameKey(r, q)

\* The uploads that u cannot go on without.
WaitsFor(u) ==
  IF pc[u] = "program" THEN ProgramHolders(u)
  ELSE IF pc[u] \in {"scan_taken", "scan_schedule"} /\ \A r \in scan[u] : Deleting(u, r) # {}
       THEN UNION {Deleting(u, r) : r \in scan[u]}
       ELSE UNION {KeyHolders(u, q) : q \in Wanted(u)}

\* Faulty variant: nobody looks for cycles.
Undetected(u) == FALSE

\* u waits in a cycle.
InCycle(u) ==
  \E S \in SUBSET Uploads :
    /\ u \in S
    /\ \A v \in S : WaitsFor(v) \cap S # {} /\ \E w \in S : v \in WaitsFor(w)

Forget(u) ==
  /\ scan' = [scan EXCEPT ![u] = {}]
  /\ gone' = [gone EXCEPT ![u] = {}]
  /\ new' = [new EXCEPT ![u] = {}]

-----------------------------------------------------------------------------
(* Uploads.                                                                *)

\* A transcript without terms, a schedule without classes or of a past term.
Unwanted(f) ==
  \/ f.kind = "transcript" /\ f.term = 0
  \/ f.kind = "schedule" /\ (f.items = <<>> \/ f.term < CurrentTerm)

Upload(u, f) ==
  /\ pc[u] = "idle"
  /\ file' = [file EXCEPT ![u] = f] /\ base' = [base EXCEPT ![u] = rows]
  /\ Go(u, IF Unwanted(f) THEN "refused"
           ELSE IF f.kind = "transcript" THEN "program" ELSE "delete_taken")
  /\ UNCHANGED <<rows, course, at, tx, looked, moves, faults>>

UpdateProgram(u) ==
  /\ pc[u] = "program" /\ WaitsFor(u) = {}
  /\ Go(u, "delete_taken")
  /\ UNCHANGED <<rows, course, file, at, tx, base, looked, moves, faults>>

\* The condition of deleteTranscriptQuery and of deleteCourseTakenQuery.
OldTaken(u) ==
  {r \in rows : r.table = "taken" /\ (r.term = file[u].term \/ (file[u].kind = "transcript" /\ r.term < file[u].term))}

OldSchedule(u) == {r \in rows : r.table = "schedule" /\ r.term = file[u].term}

\* The statement after a DELETE.
AfterTaken(u) ==
  IF file[u].kind = "schedule" THEN "delete_schedule"
  ELSE IF file[u].items = <<>> THEN "commit" ELSE "course"

BeginDelete(u, from, old, during, after) ==
  /\ pc[u] = from
  /\ scan' = [scan EXCEPT ![u] = old]
  /\ Go(u, IF old = {} THEN after ELSE during)
  /\ UNCHANGED <<rows, course, file, at, gone, new, base, looked, moves, faults>>

\* A row that another upload has deleted meanwhile is passed over.
DeleteRow(u, during, after) ==
  /\ pc[u] = during
  /\ \E r \in scan[u] :
       /\ Deleting(u, r) = {}
       /\ gone' = [gone EXCEPT ![u] = @ \cup ({r} \cap rows)]
       /\ scan' = [scan EXCEPT ![u] = @ \ {r}]
       /\ Go(u, IF scan[u] = {r} THEN after ELSE during)
  /\ UNCHANGED <<rows, course, file, at, new, base, looked, moves, faults>>

DeleteTaken(u) ==
  \/ BeginDelete(u, "delete_taken", OldTaken(u), "scan_taken", AfterTaken(u))
  \/ DeleteRow(u, "scan_taken", AfterTaken(u))

DeleteSchedule(u) ==
  \/ BeginDelete(u, "delete_schedule", OldSchedule(u), "scan_schedule", "section")
  \/ DeleteRow(u, "scan_schedule", "section")

NextItem(u, step) ==
  /\ at' = [at EXCEPT ![u] = @ + 1]
  /\ Go(u, IF at[u] = Len(file[u].items) THEN "commit" ELSE step)

\* insertTranscriptQuery and insertScheduleQuery: a violated constraint ends
\* the upload.
Conflict(u) ==
  /\ pc[u] \in {"course", "section"} /\ WaitsFor(u) = {}
  /\ \E q \in Wanted(u) : Present(u, q)
  /\ Go(u, "conflict") /\ Forget(u)
  /\ UNCHANGED <<rows, course, file, at, base, looked, moves, faults>>

\* Faulty variant: a class that writes nothing goes unnoticed.
FailedNever(u) == {}
\* The class whose INSERT into the schedule writes nothing.
Failed(u) == IF pc[u] = "section" /\ Wanted(u) = {} THEN {file[u].items[at[u]]} ELSE {}

Insert(u) ==
  /\ pc[u] \in {"course", "section"} /\ WaitsFor(u) = {}
  /\ \A q \in Wanted(u) : ~Present(u, q)
  /\ new' = [new EXCEPT ![u] = @ \cup Wanted(u)]
  /\ failed' = [failed EXCEPT ![u] = @ \cup Failed(u)]
  /\ IF pc[u] = "course" THEN NextItem(u, "course") ELSE Go(u, "taken") /\ UNCHANGED at
  /\ UNCHANGED <<rows, course, file, scan, gone, base, found, moves, faults>>

\* insertCourseTakenQuery, ON CONFLICT DO NOTHING.
InsertTaken(u) ==
  /\ pc[u] = "taken" /\ WaitsFor(u) = {}
  /\ new' = [new EXCEPT ![u] = @ \cup {q \in Wanted(u) : ~Present(u, q)}]
  /\ found' = [found EXCEPT ![u] = @ \cup {<<file[u].items[at[u]], q.of>> : q \in Wanted(u)}]
  /\ NextItem(u, "section")
  /\ UNCHANGED <<rows, course, file, scan, gone, base, failed, moves, faults>>

\* Faulty variant: the rows a transcript deletes come back.
Added(u) == IF file[u].kind = "transcript" THEN rows \cup new[u] ELSE (rows \ gone[u]) \cup new[u]

\* The rows an upload leaves when it commits.
Written(u) == (rows \ gone[u]) \cup new[u]

Commit(u) ==
  /\ pc[u] = "commit"
  /\ rows' = Written(u)
  /\ Go(u, "done") /\ Forget(u)
  /\ UNCHANGED <<course, file, at, base, looked, moves, faults>>

\* A statement fails or the client goes away: everything is rolled back.
Fail(u) ==
  /\ Running(u) /\ faults < MaxFaults /\ faults' = faults + 1
  /\ Go(u, "failed") /\ Forget(u)
  /\ UNCHANGED <<rows, course, file, at, base, looked, moves>>

Deadlock(u) ==
  /\ InCycle(u)
  /\ Go(u, "failed") /\ Forget(u)
  /\ UNCHANGED <<rows, course, file, at, base, looked, moves, faults>>

-----------------------------------------------------------------------------
(* The importer.                                                           *)

\* The commit of a sections stage that inserts s.
ImportSection(s, c) ==
  /\ course[s] = NoCourse /\ course' = [course EXCEPT ![s] = c]
  /\ UNCHANGED <<rows, pc, file, at, tx, base, looked, moves, faults>>

\* One that finds the class number with another course.  The UPDATE does not
\* wait for the uploads that refer to the section.
MoveSection(s, c) ==
  /\ course[s] \notin {NoCourse, c} /\ course' = [course EXCEPT ![s] = c]
  /\ moves < MaxMoves /\ moves' = moves + 1
  /\ UNCHANGED <<rows, pc, file, at, tx, base, looked, faults>>

Step(u) ==
  UpdateProgram(u) \/ DeleteTaken(u) \/ DeleteSchedule(u) \/ Conflict(u) \/ Insert(u)
    \/ InsertTaken(u) \/ Commit(u) \/ Deadlock(u)

Next ==
  \/ \E u \in Uploads : Step(u) \/ Fail(u) \/ \E f \in Files : Upload(u, f)
  \/ \E s \in Sections, c \in Catalogue : ImportSection(s, c) \/ MoveSection(s, c)

Spec == Init /\ [][Next]_vars

\* The server and the database carry on with what they have begun.
FairSpec == Spec /\ \A u \in Uploads : WF_vars(Step(u))

-----------------------------------------------------------------------------
(* Properties.                                                             *)

\* Rows are of the two tables, uploads in a known step, and nothing is
\* pending for an upload that is not running.
TypeOK ==
  /\ rows \subseteq {Taken(c, t, u) : c \in Catalogue, t \in Terms, u \in Uploads \cup {Before}}
                    \cup {Scheduled(s, t, u) : s \in Sections, t \in Terms, u \in Uploads}
  /\ course \in [Sections -> Catalogue \cup {NoCourse}]
  /\ \A u \in Uploads :
       /\ ~Running(u) => scan[u] = {} /\ gone[u] = {} /\ new[u] = {}
       /\ gone[u] \subseteq rows
       /\ \A r \in new[u] : r.by = u
       /\ at[u] \in 1..(Len(file[u].items) + 1)
  /\ failed \in [Uploads -> SUBSET Sections] /\ found \in [Uploads -> SUBSET (Sections \X Catalogue)]
  /\ moves \in 0..MaxMoves /\ faults \in 0..MaxFaults

\* "to take a course twice in the same term" is not possible, whoever uploads
\* it: a transcript replaces what every transcript before it said of its
\* terms.  What is left of others is what a schedule wrote meanwhile.
TranscriptReplaces ==
  [][\A u \in Uploads : file[u].kind = "transcript" /\ pc[u] = "commit" /\ pc'[u] = "done" =>
       /\ \A n \in DOMAIN file[u].items :
            LET i == file[u].items[n] IN i.course \in Catalogue => Taken(i.course, i.term, u) \in rows'
       /\ \A r \in rows' : r.table = "taken" /\ r.term <= file[u].term /\ r.by # u =>
            r \notin base[u] /\ r.by \in Uploads /\ file[r.by].kind = "schedule"]_vars

\* Only a file that repeats itself, or a schedule that was written meanwhile,
\* makes an upload fail on a row that is already there.
ConflictNeedsSchedule ==
  \A u \in Uploads : pc[u] = "conflict" =>
    \/ \E m, n \in DOMAIN file[u].items : m # n /\ file[u].items[m] = file[u].items[n]
    \/ \E v \in Uploads \ {u} : file[v].kind = "schedule" /\ pc[v] = "done" /\ ~\E r \in base[u] : r.by = v

\* An upload as its user sees it.
Stage(u) == IF Running(u) THEN "open" ELSE IF pc[u] \in {"idle", "done"} THEN pc[u] ELSE "refused"

R == INSTANCE Replacement WITH stage <- [u \in Uploads |-> Stage(u)]

(* Refinement: whatever other uploads do statement by statement, and when  *)
(* ever classes are imported or move between the two look-ups of a class,  *)
(* an upload that is answered has replaced its terms in one step: each of  *)
(* its classes is scheduled, with a course taken that it was found with,   *)
(* or reported as failed, and what others left was written meanwhile.      *)
ImplementsReplacement == R!RSpec

\* Every upload is answered, also when uploads wait for each other.
Answered == \A u \in Uploads : Running(u) ~> ~Running(u)
=============================================================================
