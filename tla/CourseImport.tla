---------------------------- MODULE CourseImport ----------------------------
(***************************************************************************)
(* The course importer (flow/importer/uw): course.ImportAll and its vacuum *)
(* over the tables course, course_prerequisite, course_antirequisite,      *)
(* prof, prof_remap, course_section, section_meeting and review.           *)
(*                                                                         *)
(* ImportAll fetches for a long time without a transaction and then writes *)
(* in six stages, each a transaction of its own; an error or a crash ends  *)
(* the run between two of them.  Every stage starts by truncating its work *)
(* table, whose lock it keeps until it commits: the same stages of two     *)
(* runs exclude each other.  The meetings stage is the exception, since it *)
(* deletes before it truncates, so it is three steps here: the DELETE, the *)
(* refresh of the views by its trigger, and the rest with the commit.      *)
(*                                                                         *)
(* The vacuum is two statements, in steps between which others see its     *)
(* locks and wait.  A cycle of waits ends with one transaction aborted.    *)
(*                                                                         *)
(* A class is a class number in a term, the key of course_section.         *)
(***************************************************************************)
EXTENDS Naturals, Sequences, FiniteSets

CONSTANTS
  Courses, Classes, Profs,
  NoProf,       \* a NULL prof_id, or a class without instructor
  Unwritten,    \* a review nobody has written
  Listings,     \* what ClassSchedules may answer: sets of Entry
  Catalogs,     \* what Courses may answer: records of Catalog
  Manual,       \* classes added by hand, which the API never lists
  InitialRemap, \* the rows of prof_remap
  Runs, Reviews,
  MaxRunning,   \* how many runs, the vacuum included, may overlap
  MaxFaults     \* bound on the errors and crashes of all runs

ByHand == "by hand"
Kinds == {"taught", "bare", "dummy"}   \* with meetings; without; enrollment capacity >= 9999

\* One element of an answer of ClassSchedules.
Entry == [class: Classes, course: Courses, prof: Profs \cup {NoProf}, kind: Kinds]
\* The corequisite flag of a pair is left out.
Pair == [course: Courses, req: Courses]
Catalog == [codes: SUBSET Courses, prereqs: SUBSET Pair, antireqs: SUBSET Pair]
Meeting == [class: Classes, prof: Profs \cup {NoProf}, by: Runs \cup {ByHand}]
Remap == [code: Profs, prof: Profs]
Reviewed == [Reviews -> Profs \cup {NoProf, Unwritten}]
\* What a run has fetched, and the courses it has yet to ask for.
Data == [codes: SUBSET Courses, prereqs: SUBSET Pair, antireqs: SUBSET Pair,
         todo: SUBSET Courses, sections: UNION {[S -> Entry] : S \in SUBSET Classes}]

ASSUME ImportAssumption ==
  /\ Listings \subseteq SUBSET Entry
  /\ Catalogs \subseteq Catalog
  /\ Manual \subseteq Classes
  /\ \A l \in Listings : \A e \in l : e.class \notin Manual
  /\ InitialRemap \subseteq Remap
  /\ \A p, q \in InitialRemap : p.code = q.code => p = q   \* the primary key
  /\ ByHand \notin Runs
  /\ NoProf \notin Profs
  /\ Unwritten \notin Profs \cup {NoProf}
  /\ Courses # {}
  /\ MaxRunning \in Nat /\ MaxFaults \in Nat

VARIABLES
  listing, catalog,           \* what the API would answer now
  course, prereq, antireq,    \* codes in course; rows of the requisite tables
  prof, remap, section, meeting, review,
  sectionDelta,               \* classes in work.course_section_delta
  pc, data,                   \* per run: the stage it is in, what it fetched
  doomed,                     \* per run: the meetings its DELETE saw
  vacuum, snapshot,           \* where the vacuum is, and what its DELETE saw
  expired,                    \* classes of terms before PreviousTermId(2)
  faults, last

upstream == <<listing, catalog, expired>>
tables == <<course, prereq, antireq, prof, remap, section, meeting, review>>
runVars == <<pc, data, doomed, sectionDelta, faults, last>>
vacuumVars == <<vacuum, snapshot>>
vars == <<upstream, tables, runVars, vacuumVars>>

NoData == [codes |-> {}, prereqs |-> {}, antireqs |-> {}, todo |-> {}, sections |-> <<>>]
NoSnapshot == [section |-> {}, prof |-> {}, meeting |-> {}, review |-> [v \in Reviews |-> Unwritten]]

Stages == {"fetch", "courses", "prereqs", "antireqs", "profs", "sections", "meetings",
           "clear", "insert"}
Running(r) == pc[r] \in Stages

\* The processes at work: runs, and the vacuum.
Active == {r \in Runs : Running(r)} \cup (IF vacuum = "idle" THEN {} ELSE {ByHand})

Init ==
  /\ listing \in Listings /\ catalog \in Catalogs
  /\ course = {} /\ prereq = {} /\ antireq = {}
  /\ prof = {p.prof : p \in InitialRemap} /\ remap = InitialRemap
  /\ section = [k \in Manual |-> CHOOSE c \in Courses : TRUE]
  /\ meeting = {[class |-> k, prof |-> NoProf, by |-> ByHand] : k \in Manual}
  /\ review = [v \in Reviews |-> Unwritten]
  /\ sectionDelta = {} /\ expired = {}
  /\ pc = [r \in Runs |-> "idle"] /\ data = [r \in Runs |-> NoData]
  /\ doomed = [r \in Runs |-> {}]
  /\ vacuum = "idle" /\ snapshot = NoSnapshot
  /\ faults = 0 /\ last = ByHand

-----------------------------------------------------------------------------
(* Locks that one transaction holds while another may want them.           *)

\* Faulty variant: only reviews count as use.
Unreviewed(s) == {p \in s.prof : \A v \in Reviews : s.review[v] # p}

\* Neither a review nor a meeting refers to the professor.
Unused(s) ==
  {p \in s.prof : (\A v \in Reviews : s.review[v] # p) /\ (\A m \in s.meeting : m.prof # p)}

\* The rows that the vacuum has deleted and not yet committed: whoever would
\* update or refer to one of them waits.
LockedSections == IF vacuum = "sections" THEN snapshot.section ELSE {}
LockedProfs == IF vacuum = "cascade" THEN Unused(snapshot) ELSE {}

\* ON DELETE CASCADE: the meetings that its statement takes along.
Cascaded == {m \in meeting : m.class \in LockedSections \/ m.prof \in LockedProfs}

\* A run that has deleted one of them and not committed makes the vacuum wait.
CascadeWaits == \E q \in Runs : doomed[q] \cap Cascaded # {}

\* The transaction of a meetings stage that has deleted refreshes the views and
\* keeps their locks to its end; every other refresh waits.
ViewsLocked == \E q \in Runs : pc[q] = "insert"

-----------------------------------------------------------------------------
(* The world outside.                                                      *)

\* The university edits its schedule.
ListingChanges ==
  /\ listing' \in Listings /\ UNCHANGED <<catalog, expired, tables, runVars, vacuumVars>>

CatalogChanges ==
  /\ catalog' \in Catalogs /\ UNCHANGED <<listing, expired, tables, runVars, vacuumVars>>

\* A term ends, and one of its classes falls behind PreviousTermId(2).
TermEnds(k) ==
  /\ expired' = expired \cup {k}
  /\ UNCHANGED <<listing, catalog, tables, runVars, vacuumVars>>

\* A user reviews a professor.  The foreign key demands that the row exists, and
\* waits for the vacuum to decide whether it does.
WriteReview(v, p) ==
  /\ p \in prof \ LockedProfs
  /\ review' = [review EXCEPT ![v] = p]
  /\ UNCHANGED <<upstream, course, prereq, antireq, prof, remap, section, meeting, runVars, vacuumVars>>

DeleteReview(v) ==
  /\ review' = [review EXCEPT ![v] = Unwritten]
  /\ UNCHANGED <<upstream, course, prereq, antireq, prof, remap, section, meeting, runVars, vacuumVars>>

-----------------------------------------------------------------------------
(* ImportAll.                                                              *)

\* A run starts: fetchCourses answers.
Start(r) ==
  /\ pc[r] = "idle"
  /\ Cardinality(Active) < MaxRunning
  /\ pc' = [pc EXCEPT ![r] = "fetch"]
  /\ data' = [data EXCEPT ![r] =
       [codes |-> catalog.codes, prereqs |-> catalog.prereqs, antireqs |-> catalog.antireqs,
        todo |-> catalog.codes, sections |-> <<>>]]
  /\ last' = r
  /\ UNCHANGED <<upstream, tables, doomed, sectionDelta, faults, vacuumVars>>

\* What one answer adds to what was converted: the first entry with a class
\* claims it, whatever its kind, and later ones are duplicates.
Unclaimed(sections, answer) == {k \in Classes \ DOMAIN sections : \E e \in answer : e.class = k}
Claims(sections, answer) ==
  {s \in [Unclaimed(sections, answer) -> answer] : \A k \in DOMAIN s : s[k].class = k}
Extended(sections, claim) ==
  [k \in DOMAIN sections \cup DOMAIN claim |-> IF k \in DOMAIN sections THEN sections[k] ELSE claim[k]]

\* fetchClass for one course.  A failed request is skipped, and so are its
\* classes.  The order of the classes of one answer is the API's.
Fetch(r) ==
  /\ pc[r] = "fetch"
  /\ \E c \in data[r].todo :
       \E answer \in {{e \in listing : e.course = c /\ e.class \notin expired}, {}} :
         \E claim \in Claims(data[r].sections, answer) :
           data' = [data EXCEPT ![r].todo = @ \ {c}, ![r].sections = Extended(@, claim)]
  /\ UNCHANGED <<upstream, tables, pc, doomed, sectionDelta, faults, last, vacuumVars>>

\* What convertSection and convertMeeting keep of the classes of a run.
Converted(r) == {k \in DOMAIN data[r].sections : data[r].sections[k].kind # "dummy"}
Taught(r) == {k \in Converted(r) : data[r].sections[k].kind = "taught"}

Advance(r, from, to) == pc[r] = from /\ pc' = [pc EXCEPT ![r] = to]

\* insertAllCourses.
InsertCourses(r) ==
  /\ data[r].todo = {}
  /\ Advance(r, "fetch", "prereqs")
  /\ course' = course \cup data[r].codes
  /\ UNCHANGED <<upstream, prereq, antireq, prof, remap, section, meeting, review,
                 data, doomed, sectionDelta, faults, last, vacuumVars>>

\* The joins with course on both codes.
Known(pairs) == {d \in pairs : {d.course, d.req} \subseteq course}

\* insertAllPrereqs.  Its DELETE compares course_id with the rows of a work
\* table that was truncated just before, so it deletes nothing; a pair that
\* is there already stays as it is (ON CONFLICT DO NOTHING).
InsertPrereqs(r) ==
  /\ Advance(r, "prereqs", "antireqs")
  /\ prereq' = prereq \cup Known(data[r].prereqs)
  /\ UNCHANGED <<upstream, course, antireq, prof, remap, section, meeting, review,
                 data, doomed, sectionDelta, faults, last, vacuumVars>>

\* truncateAntireqQuery empties the table itself before it is filled.
Antireqs(r) == Known(data[r].antireqs)

\* insertAllAntireqs.
InsertAntireqs(r) ==
  /\ Advance(r, "antireqs", "profs")
  /\ antireq' = Antireqs(r)
  /\ UNCHANGED <<upstream, course, prereq, prof, remap, section, meeting, review,
                 data, doomed, sectionDelta, faults, last, vacuumVars>>

\* The professors of the meetings of a run: the first instructor, if any.
NewProfs(r) == {data[r].sections[k].prof : k \in Taught(r)} \ {NoProf}

\* insertAllProfs.
InsertProfs(r) ==
  /\ Advance(r, "profs", "sections")
  /\ prof' = prof \cup NewProfs(r)
  /\ UNCHANGED <<upstream, course, prereq, antireq, remap, section, meeting, review,
                 data, doomed, sectionDelta, faults, last, vacuumVars>>

\* Faulty variant: the lock is taken when the stage begins, shared.
DeltaLockedEarly == \E q \in Runs : pc[q] \in {"sections", "clear", "insert"}

\* A meetings stage holds a read lock on work.course_section_delta.
DeltaLocked == \E q \in Runs : pc[q] \in {"clear", "insert"}

\* Faulty variant: what is in the table already is left as it is.
InsertedOnly(r) ==
  [k \in DOMAIN section \cup Converted(r) |->
     IF k \in DOMAIN section THEN section[k] ELSE data[r].sections[k].course]

\* updateSectionQuery and insertSectionQuery.
Upserted(r) ==
  [k \in DOMAIN section \cup Converted(r) |->
     IF k \in Converted(r) THEN data[r].sections[k].course ELSE section[k]]

\* Faulty variant: the work table gets the new sections only.
NewSections(r) == Converted(r) \ DOMAIN section

\* The rows copied into work.course_section_delta.
SectionRows(r) == Converted(r)

\* insertAllSections: update what is there, insert the rest.
InsertSections(r) ==
  /\ Advance(r, "sections", "meetings")
  /\ ~DeltaLocked
  /\ Converted(r) \cap LockedSections = {}
  /\ sectionDelta' = SectionRows(r)
  /\ section' = Upserted(r)
  /\ UNCHANGED <<upstream, course, prereq, antireq, prof, remap, meeting, review,
                 data, doomed, faults, last, vacuumVars>>

\* Faulty variant: every section counts as imported.
EverySection == DOMAIN section

\* truncateMeetingQuery: the DELETE picks, from its snapshot, the meetings of
\* the sections in work.course_section_delta, whichever run filled it.
Imported == {k \in sectionDelta : k \in DOMAIN section}
DeleteMeetings(r) ==
  /\ Advance(r, "meetings", "clear")
  /\ doomed' = [doomed EXCEPT ![r] = {m \in meeting : m.class \in Imported}]
  /\ UNCHANGED <<upstream, tables, data, sectionDelta, faults, last, vacuumVars>>

\* The statement trigger of the DELETE refreshes the views on section_meeting.
RefreshViews(r) ==
  /\ Advance(r, "clear", "insert")
  /\ ~ViewsLocked
  /\ UNCHANGED <<upstream, tables, data, doomed, sectionDelta, faults, last, vacuumVars>>

\* COALESCE(pr.prof_id, p.id)
Resolve(code) ==
  IF \E p \in remap : p.code = code THEN (CHOOSE p \in remap : p.code = code).prof
  ELSE IF code \in prof THEN code ELSE NoProf

\* The rows of section_meeting that insertMeetingQuery inserts.
NewMeetings(r) ==
  {[class |-> k, prof |-> Resolve(data[r].sections[k].prof), by |-> r]
     : k \in Taught(r) \cap DOMAIN section}

\* Some of them refer to a row that the vacuum has deleted and not committed.
RefersToLocked(r) ==
  \E m \in NewMeetings(r) : m.class \in LockedSections \/ m.prof \in LockedProfs

\* insertMeetingQuery and the commit, which makes the deletions visible too.  Its
\* foreign keys wait for the vacuum.
InsertMeetings(r) ==
  /\ Advance(r, "insert", "done")
  /\ ~RefersToLocked(r)
  /\ meeting' = (meeting \ doomed[r]) \cup NewMeetings(r)
  /\ doomed' = [doomed EXCEPT ![r] = {}]
  /\ UNCHANGED <<upstream, course, prereq, antireq, prof, remap, section, review,
                 data, sectionDelta, faults, last, vacuumVars>>

\* An error in a stage, or the end of the process, rolls that stage back.
Abort(r) ==
  /\ pc' = [pc EXCEPT ![r] = "failed"]
  /\ doomed' = [doomed EXCEPT ![r] = {}]
  /\ UNCHANGED <<upstream, tables, data, sectionDelta, last, vacuumVars>>

Fail(r) ==
  /\ Running(r)
  /\ faults < MaxFaults /\ faults' = faults + 1
  /\ Abort(r)

-----------------------------------------------------------------------------
(* course.Vacuum: two statements, each committed by itself.                *)

\* DELETE FROM course_section: the old sections are locked, and the trigger of
\* the statement goes on to refresh the views.
LockSections ==
  /\ vacuum = "idle" /\ vacuum' = "sections"
  /\ Cardinality(Active) < MaxRunning
  /\ snapshot' = [NoSnapshot EXCEPT !.section = DOMAIN section \cap expired]
  /\ UNCHANGED <<upstream, tables, runVars>>

VacuumSections ==
  /\ vacuum = "sections" /\ vacuum' = "profs"
  /\ ~CascadeWaits /\ ~ViewsLocked
  /\ section' = [k \in DOMAIN section \ LockedSections |-> section[k]]
  /\ meeting' = meeting \ Cascaded
  /\ snapshot' = NoSnapshot
  /\ UNCHANGED <<upstream, course, prereq, antireq, prof, remap, review, runVars>>

\* DELETE FROM prof: the statement decides on what its snapshot holds ...
ReadProfs ==
  /\ vacuum = "profs" /\ vacuum' = "deleting"
  /\ snapshot' = [section |-> {}, prof |-> prof, meeting |-> meeting, review |-> review]
  /\ UNCHANGED <<upstream, tables, runVars>>

\* ON DELETE SET NULL from prof.
ReviewsWithout(gone) == [v \in Reviews |-> IF review[v] \in gone THEN NoProf ELSE review[v]]

\* ... deletes the rows, which waiting foreign keys keep as they are ...
LockProfs ==
  /\ vacuum = "deleting" /\ vacuum' = "cascade"
  /\ UNCHANGED <<upstream, tables, runVars, snapshot>>

\* ... and takes along what references them by then.  The cascade to
\* section_meeting refreshes the views, even if it finds no meeting.
DeleteProfs ==
  /\ vacuum = "cascade" /\ vacuum' = "idle"
  /\ ~CascadeWaits /\ (LockedProfs = {} \/ ~ViewsLocked)
  /\ LET gone == LockedProfs IN
       /\ prof' = prof \ gone
       /\ remap' = {p \in remap : p.prof \notin gone}
       /\ meeting' = meeting \ Cascaded
       /\ review' = ReviewsWithout(gone)
  /\ snapshot' = NoSnapshot
  /\ UNCHANGED <<upstream, course, prereq, antireq, section, runVars>>

\* An error in a statement of the vacuum rolls it back and ends the vacuum.
AbortVacuum ==
  /\ vacuum' = "idle" /\ snapshot' = NoSnapshot
  /\ UNCHANGED <<upstream, tables, pc, data, doomed, sectionDelta, last>>

VacuumFails ==
  /\ vacuum # "idle"
  /\ faults < MaxFaults /\ faults' = faults + 1
  /\ AbortVacuum

-----------------------------------------------------------------------------
(* Deadlocks, which Postgres ends by aborting one of the transactions.     *)

\* The run waits for rows of the vacuum, which waits for the views or meetings of
\* the run; or both take several of the same rows, each in an order of its own.
DeadlockWithVacuum(r) ==
  \/ pc[r] = "insert" /\ RefersToLocked(r)
  \/ pc[r] = "clear" /\ Cardinality(doomed[r] \cap Cascaded) > 1
  \/ pc[r] = "sections" /\ ~DeltaLocked /\ Cardinality(Converted(r) \cap LockedSections) > 1

\* Two runs delete several of the same meetings, each in an order of its own.
DeadlockWithRun(r) ==
  /\ pc[r] = "clear"
  /\ \E q \in Runs \ {r} : pc[q] = "clear" /\ Cardinality(doomed[q] \cap doomed[r]) > 1

Deadlock(r) ==
  /\ \/ DeadlockWithVacuum(r) /\ (Abort(r) \/ AbortVacuum)
     \/ DeadlockWithRun(r) /\ Abort(r)
  /\ UNCHANGED faults

Stage(r) ==
  \/ Fetch(r) \/ InsertCourses(r) \/ InsertPrereqs(r) \/ InsertAntireqs(r)
  \/ InsertProfs(r) \/ InsertSections(r) \/ DeleteMeetings(r) \/ RefreshViews(r)
  \/ InsertMeetings(r)

Vacuum == LockSections \/ VacuumSections \/ ReadProfs \/ LockProfs \/ DeleteProfs

Next ==
  \/ ListingChanges \/ CatalogChanges
  \/ \E k \in Classes : TermEnds(k)
  \/ \E v \in Reviews : DeleteReview(v) \/ \E p \in Profs : WriteReview(v, p)
  \/ \E r \in Runs : Start(r) \/ Stage(r) \/ Fail(r) \/ Deadlock(r)
  \/ Vacuum \/ VacuumFails

Spec == Init /\ [][Next]_vars

\* A run keeps going: every stage is a call that returns, and one that waits for
\* a lock gets it before the vacuum of another day.  A vacuum that has started
\* goes on too, and Postgres finds every deadlock.
Fairness ==
  /\ \A r \in Runs : SF_vars(Stage(r)) /\ WF_vars(Deadlock(r))
  /\ WF_vars(VacuumSections \/ ReadProfs \/ LockProfs \/ DeleteProfs)
FairSpec == Spec /\ Fairness

-----------------------------------------------------------------------------
(* Properties.                                                             *)

\* Every variable stays within the schema of its table and the shape of the
\* importer's data (init/up.sql, convertResult).
TypeOK ==
  /\ listing \in Listings /\ catalog \in Catalogs /\ expired \subseteq Classes
  /\ course \subseteq Courses /\ prereq \subseteq Pair /\ antireq \subseteq Pair
  /\ prof \subseteq Profs /\ remap \subseteq Remap
  /\ section \in UNION {[S -> Courses] : S \in SUBSET Classes}
  /\ meeting \subseteq Meeting /\ review \in Reviewed
  /\ sectionDelta \subseteq Classes
  /\ pc \in [Runs -> Stages \cup {"idle", "done", "failed"}]
  /\ data \in [Runs -> Data] /\ doomed \in [Runs -> SUBSET Meeting]
  /\ vacuum \in {"idle", "sections", "profs", "deleting", "cascade"}
  /\ snapshot \in [section: SUBSET Classes, prof: SUBSET Profs, meeting: SUBSET Meeting, review: Reviewed]
  /\ faults \in 0..MaxFaults /\ last \in Runs \cup {ByHand}

\* The meetings of one class come from one run: a run replaces what an
\* earlier one wrote, even one that failed between its sections and its
\* meetings, and never adds to it (insertAllMeetings).
NoMixedMeetings == \A m, n \in meeting : m.class = n.class => m.by = n.by

Settled(r) == pc[r] = "done" /\ last = r

\* After a run that finished, and until the next starts, the tables show what
\* it fetched: every section under its course with exactly its own meeting and
\* professor, and the antirequisites of its catalog and no others, whatever
\* earlier runs left half done (ImportAll).
MirrorsFetch ==
  \A r \in Runs : Settled(r) =>
    /\ antireq = Known(data[r].antireqs)
    /\ \A k \in Converted(r) \ expired :
         /\ k \in DOMAIN section /\ section[k] = data[r].sections[k].course
         /\ {m \in meeting : m.class = k} =
              IF k \notin Taught(r) THEN {}
              ELSE {[class |-> k, prof |-> Resolve(data[r].sections[k].prof), by |-> r]}
         /\ k \in Taught(r) /\ data[r].sections[k].prof # NoProf =>
              Resolve(data[r].sections[k].prof) # NoProf

\* insert.go says of the meetings stage that it deletes only what was
\* imported, "so that manually added sections are preserved": a meeting
\* entered by hand goes only with its section, when its term has passed, even
\* when runs overlap.
ManualKept ==
  [][\A m \in meeting : m.by = ByHand /\ m \notin meeting' =>
       m.class \in expired /\ m.class \notin DOMAIN section']_vars

\* A run deletes meetings of the classes it fetched and of no others: a class
\* whose request failed, or which the university dropped, keeps its meetings.
OnlyFetchedReplaced ==
  [][\A r \in Runs : pc[r] = "insert" /\ pc'[r] = "done" =>
       \A m \in meeting \ meeting' : m.class \in Converted(r)]_vars

\* The vacuum deletes professors nobody refers to.  The rows that its
\* statement takes along (ON DELETE CASCADE, SET NULL) are only ever such as
\* were written after the statement had begun.
VacuumSparesUsed ==
  [][vacuum = "cascade" /\ vacuum' = "idle" =>
       /\ meeting \ meeting' \subseteq meeting \ snapshot.meeting
       /\ \A v \in Reviews : review'[v] # review[v] => review[v] # snapshot.review[v]]_vars

\* A run that started comes to an end, also when another run or the vacuum holds
\* locks it wants.  Without faults it ends with every stage committed, or as the
\* victim of a deadlock.
RunsComplete == \A r \in Runs : (pc[r] = "fetch") ~> (pc[r] \in {"done", "failed"})

\* insert.go says of the requisite tables that "it's easier to truncate
\* requisite tables every time instead of fumbling with updates/deletions":
\* after a run the prerequisites would be those of its catalog.
PrereqsMirrorFetch ==
  \A r \in Runs : Settled(r) => prereq = Known(data[r].prereqs)
=============================================================================
