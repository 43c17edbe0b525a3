------------------------- MODULE CourseImportProofs -------------------------
(***************************************************************************)
(* Proofs about CourseImport, for every number of runs, classes, courses,  *)
(* professors and reviews, any listings and catalogs, and, unless a        *)
(* theorem says otherwise, any number of overlapping runs.                 *)
(***************************************************************************)
EXTENDS CourseImport, FiniteSetTheorems, TLAPS

-----------------------------------------------------------------------------
(* Type correctness.                                                       *)

\* A run that has fetched nothing holds data of the right shape.
LEMMA NoDataType == NoData \in Data
<1>1. <<>> \in [{} -> Entry]
  OBVIOUS
<1>. QED BY <1>1 DEF NoData, Data

\* So does a vacuum that has not read anything.
LEMMA NoSnapshotType ==
  NoSnapshot \in
    [section: SUBSET Classes, prof: SUBSET Profs, meeting: SUBSET Meeting, review: Reviewed]
BY DEF NoSnapshot, Reviewed

\* The first state is well typed: the tables hold what was entered by hand.
LEMMA InitType == ASSUME Init PROVE TypeOK
<1>1. section \in UNION {[S -> Courses] : S \in SUBSET Classes}
  <2>1. (CHOOSE c \in Courses : TRUE) \in Courses
    BY ImportAssumption
  <2>2. section \in [Manual -> Courses]
    BY <2>1 DEF Init
  <2>. QED BY <2>2, ImportAssumption
<1>2. meeting \subseteq Meeting
  BY ImportAssumption DEF Init, Meeting
<1>3. prof \subseteq Profs /\ remap \subseteq Remap
  BY ImportAssumption DEF Init, Remap
<1>4. data \in [Runs -> Data]
  BY NoDataType DEF Init
<1>5. snapshot \in [section: SUBSET Classes, prof: SUBSET Profs, meeting: SUBSET Meeting, review: Reviewed]
  BY NoSnapshotType DEF Init
<1>6. review \in Reviewed /\ doomed \in [Runs -> SUBSET Meeting]
  BY DEF Init, Reviewed
<1>7. faults \in 0..MaxFaults
  BY ImportAssumption DEF Init
<1>. QED BY <1>1, <1>2, <1>3, <1>4, <1>5, <1>6, <1>7 DEF Init, TypeOK

\* What a run converted has the type of an entry.
LEMMA ConvertedType ==
  ASSUME TypeOK, NEW r \in Runs, NEW k \in Converted(r)
  PROVE  k \in Classes /\ data[r].sections[k] \in Entry
<1>1. data[r] \in Data
  BY DEF TypeOK
<1>2. PICK S \in SUBSET Classes : data[r].sections \in [S -> Entry]
  BY <1>1 DEF Data
<1>. QED BY <1>2 DEF Converted

\* The pairs of a run whose courses exist are pairs.
LEMMA KnownType == ASSUME TypeOK, NEW r \in Runs
                   PROVE  Known(data[r].prereqs) \subseteq Pair /\ Known(data[r].antireqs) \subseteq Pair
BY DEF TypeOK, Data, Known

\* A professor code resolves to a professor or to none.
LEMMA ResolveType == ASSUME TypeOK, NEW code PROVE Resolve(code) \in Profs \cup {NoProf}
<1>1. CASE \E p \in remap : p.code = code
  <2>1. (CHOOSE p \in remap : p.code = code) \in remap
    BY <1>1
  <2>. QED BY <1>1, <2>1 DEF Resolve, TypeOK, Remap
<1>2. CASE ~\E p \in remap : p.code = code
  BY <1>2 DEF Resolve, TypeOK
<1>. QED BY <1>1, <1>2

\* Whatever the API answers, what a run has fetched keeps its shape.
LEMMA FetchType == ASSUME TypeOK, NEW r \in Runs, Fetch(r) PROVE data' \in [Runs -> Data]
<1>1. PICK c \in data[r].todo :
        \E answer \in {{e \in listing : e.course = c /\ e.class \notin expired}, {}} :
          \E claim \in Claims(data[r].sections, answer) :
            data' = [data EXCEPT ![r].todo = @ \ {c}, ![r].sections = Extended(@, claim)]
  BY DEF Fetch
<1>2. PICK answer \in {{e \in listing : e.course = c /\ e.class \notin expired}, {}} :
        \E claim \in Claims(data[r].sections, answer) :
          data' = [data EXCEPT ![r].todo = @ \ {c}, ![r].sections = Extended(@, claim)]
  BY <1>1
<1>3. PICK claim \in Claims(data[r].sections, answer) :
        data' = [data EXCEPT ![r].todo = @ \ {c}, ![r].sections = Extended(@, claim)]
  BY <1>2
<1>. DEFINE old == data[r].sections
            new == Extended(old, claim)
<1>4. data[r] \in Data
  BY DEF TypeOK
<1>5. PICK S \in SUBSET Classes : old \in [S -> Entry]
  BY <1>4 DEF Data
<1>6. answer \subseteq Entry
  BY <1>2, ImportAssumption DEF TypeOK
<1>7. claim \in [Unclaimed(old, answer) -> Entry] /\ Unclaimed(old, answer) \subseteq Classes
  BY <1>3, <1>6 DEF Claims, Unclaimed
<1>8. new \in [S \cup Unclaimed(old, answer) -> Entry]
  BY <1>5, <1>7 DEF Extended
<1>9. new \in UNION {[T -> Entry] : T \in SUBSET Classes}
  <2>1. S \cup Unclaimed(old, answer) \in SUBSET Classes
    BY <1>5, <1>7
  <2>. QED BY <2>1, <1>8
<1>. HIDE DEF new, old
<1>10. [data[r] EXCEPT !.todo = @ \ {c}, !.sections = new] \in Data
  BY <1>4, <1>9 DEF Data
<1>11. data' = [data EXCEPT ![r] = [data[r] EXCEPT !.todo = @ \ {c}, !.sections = new]]
  BY <1>3 DEF TypeOK, new, old
<1>. QED BY <1>10, <1>11 DEF TypeOK

\* Sections after the upsert of a run still have a course each.
LEMMA SectionsType == ASSUME TypeOK, NEW r \in Runs
                      PROVE  Upserted(r) \in UNION {[S -> Courses] : S \in SUBSET Classes}
<1>1. PICK S \in SUBSET Classes : section \in [S -> Courses]
  BY DEF TypeOK
<1>2. \A k \in Converted(r) : k \in Classes /\ data[r].sections[k].course \in Courses
  BY ConvertedType DEF Entry
<1>3. S \cup Converted(r) \in SUBSET Classes
  BY <1>1, <1>2
<1>4. Upserted(r) \in [S \cup Converted(r) -> Courses]
  BY <1>1, <1>2 DEF Upserted
<1>. QED BY <1>3, <1>4

\* A run inserts only professors.
LEMMA NewProfsType == ASSUME TypeOK, NEW r \in Runs PROVE NewProfs(r) \subseteq Profs
BY ConvertedType DEF NewProfs, Taught, Entry

\* A run inserts only meetings of its own.
LEMMA NewMeetingsType ==
  ASSUME TypeOK, NEW r \in Runs, InsertMeetings(r) PROVE meeting' \subseteq Meeting
<1>1. \A k \in Taught(r) : Resolve(data[r].sections[k].prof) \in Profs \cup {NoProf} /\ k \in Classes
  BY ResolveType, ConvertedType DEF Taught
<1>. QED BY <1>1 DEF InsertMeetings, NewMeetings, TypeOK, Meeting

\* A run starts with empty data.
LEMMA StartType == ASSUME TypeOK, NEW r \in Runs, Start(r) PROVE data' \in [Runs -> Data]
<1>1. catalog \in Catalog
  BY ImportAssumption DEF TypeOK
<1>2. <<>> \in [{} -> Entry]
  OBVIOUS
<1>3. <<>> \in UNION {[S -> Entry] : S \in SUBSET Classes}
  BY <1>2
<1>4. [codes |-> catalog.codes, prereqs |-> catalog.prereqs, antireqs |-> catalog.antireqs,
        todo |-> catalog.codes, sections |-> <<>>] \in Data
  BY <1>1, <1>3 DEF Catalog, Data
<1>. QED BY <1>4 DEF Start, TypeOK

\* No step leaves the types.
LEMMA StepType == ASSUME TypeOK, [Next]_vars PROVE TypeOK'
<1>. USE DEF Advance, upstream, tables, runVars, vacuumVars
<1>1. CASE ListingChanges
  BY <1>1 DEF ListingChanges, TypeOK
<1>2. CASE CatalogChanges
  BY <1>2 DEF CatalogChanges, TypeOK
<1>3. ASSUME NEW k \in Classes, TermEnds(k) PROVE TypeOK'
  BY <1>3 DEF TermEnds, TypeOK
<1>4. ASSUME NEW v \in Reviews, DeleteReview(v) PROVE TypeOK'
  <2>1. review' \in Reviewed
    BY <1>4 DEF DeleteReview, TypeOK, Reviewed
  <2>. QED BY <1>4, <2>1 DEF DeleteReview, TypeOK
<1>5. ASSUME NEW v \in Reviews, NEW p \in Profs, WriteReview(v, p) PROVE TypeOK'
  <2>1. review' \in Reviewed
    BY <1>5 DEF WriteReview, TypeOK, Reviewed
  <2>. QED BY <1>5, <2>1 DEF WriteReview, TypeOK
<1>6. ASSUME NEW r \in Runs, Start(r) PROVE TypeOK'
  <2>1. data' \in [Runs -> Data] /\ pc' \in [Runs -> Stages \cup {"idle", "done", "failed"}]
    BY <1>6, StartType DEF Start, TypeOK, Stages
  <2>. QED BY <1>6, <2>1 DEF Start, TypeOK
<1>7. ASSUME NEW r \in Runs, Fetch(r) PROVE TypeOK'
  BY <1>7, FetchType DEF Fetch, TypeOK
<1>8. ASSUME NEW r \in Runs, InsertCourses(r) PROVE TypeOK'
  <2>1. course' \subseteq Courses
    BY <1>8 DEF InsertCourses, TypeOK, Data
  <2>2. pc' \in [Runs -> Stages \cup {"idle", "done", "failed"}]
    BY <1>8 DEF InsertCourses, TypeOK, Stages
  <2>. QED BY <1>8, <2>1, <2>2 DEF InsertCourses, TypeOK
<1>9. ASSUME NEW r \in Runs, InsertPrereqs(r) PROVE TypeOK'
  <2>1. pc' \in [Runs -> Stages \cup {"idle", "done", "failed"}]
    BY <1>9 DEF InsertPrereqs, TypeOK, Stages
  <2>2. prereq' \subseteq Pair
    BY <1>9, KnownType DEF InsertPrereqs, TypeOK
  <2>. QED BY <1>9, <2>1, <2>2 DEF InsertPrereqs, TypeOK
<1>10. ASSUME NEW r \in Runs, InsertAntireqs(r) PROVE TypeOK'
  <2>1. pc' \in [Runs -> Stages \cup {"idle", "done", "failed"}]
    BY <1>10 DEF InsertAntireqs, TypeOK, Stages
  <2>2. antireq' \subseteq Pair
    BY <1>10, KnownType DEF InsertAntireqs, Antireqs, TypeOK
  <2>. QED BY <1>10, <2>1, <2>2 DEF InsertAntireqs, TypeOK
<1>11. ASSUME NEW r \in Runs, InsertProfs(r) PROVE TypeOK'
  <2>1. pc' \in [Runs -> Stages \cup {"idle", "done", "failed"}]
    BY <1>11 DEF InsertProfs, TypeOK, Stages
  <2>2. prof' \subseteq Profs
    BY <1>11, NewProfsType DEF InsertProfs, TypeOK
  <2>. QED BY <1>11, <2>1, <2>2 DEF InsertProfs, TypeOK
<1>12. ASSUME NEW r \in Runs, InsertSections(r) PROVE TypeOK'
  <2>1. pc' \in [Runs -> Stages \cup {"idle", "done", "failed"}]
    BY <1>12 DEF InsertSections, TypeOK, Stages
  <2>2. sectionDelta' \subseteq Classes
    BY <1>12, ConvertedType DEF InsertSections, SectionRows
  <2>3. section' \in UNION {[S -> Courses] : S \in SUBSET Classes}
    BY <1>12, SectionsType DEF InsertSections
  <2>. QED BY <1>12, <2>1, <2>2, <2>3 DEF InsertSections, TypeOK
<1>13. ASSUME NEW r \in Runs, DeleteMeetings(r) PROVE TypeOK'
  <2>1. pc' \in [Runs -> Stages \cup {"idle", "done", "failed"}]
    BY <1>13 DEF DeleteMeetings, TypeOK, Stages
  <2>2. doomed' \in [Runs -> SUBSET Meeting]
    BY <1>13 DEF DeleteMeetings, TypeOK
  <2>. QED BY <1>13, <2>1, <2>2 DEF DeleteMeetings, TypeOK
<1>14. ASSUME NEW r \in Runs, RefreshViews(r) PROVE TypeOK'
  <2>1. pc' \in [Runs -> Stages \cup {"idle", "done", "failed"}]
    BY <1>14 DEF RefreshViews, TypeOK, Stages
  <2>. QED BY <1>14, <2>1 DEF RefreshViews, TypeOK
<1>15. ASSUME NEW r \in Runs, InsertMeetings(r) PROVE TypeOK'
  <2>1. pc' \in [Runs -> Stages \cup {"idle", "done", "failed"}]
    BY <1>15 DEF InsertMeetings, TypeOK
  <2>2. doomed' \in [Runs -> SUBSET Meeting]
    BY <1>15 DEF InsertMeetings, TypeOK
  <2>3. meeting' \subseteq Meeting
    BY <1>15, NewMeetingsType
  <2>. QED BY <1>15, <2>1, <2>2, <2>3 DEF InsertMeetings, TypeOK
<1>16. ASSUME NEW r \in Runs, Abort(r), faults' \in 0..MaxFaults PROVE TypeOK'
  <2>1. pc' \in [Runs -> Stages \cup {"idle", "done", "failed"}]
    BY <1>16 DEF Abort, TypeOK
  <2>2. doomed' \in [Runs -> SUBSET Meeting]
    BY <1>16 DEF Abort, TypeOK
  <2>. QED BY <1>16, <2>1, <2>2 DEF Abort, TypeOK
<1>17. ASSUME AbortVacuum, faults' \in 0..MaxFaults PROVE TypeOK'
  BY <1>17, NoSnapshotType DEF AbortVacuum, TypeOK
<1>18. ASSUME NEW r \in Runs, Fail(r) \/ Deadlock(r) PROVE TypeOK'
  <2>1. faults' \in 0..MaxFaults
    BY <1>18, ImportAssumption DEF Fail, Deadlock, TypeOK
  <2>. QED BY <1>18, <1>16, <1>17, <2>1 DEF Fail, Deadlock
<1>19. CASE VacuumFails
  <2>1. faults' \in 0..MaxFaults
    BY <1>19, ImportAssumption DEF VacuumFails, TypeOK
  <2>. QED BY <1>19, <1>17, <2>1 DEF VacuumFails
<1>20. CASE LockSections
  <2>1. PICK S \in SUBSET Classes : section \in [S -> Courses]
    BY DEF TypeOK
  <2>2. DOMAIN section \cap expired \in SUBSET Classes
    BY <2>1
  <2>3. snapshot' \in [section: SUBSET Classes, prof: SUBSET Profs, meeting: SUBSET Meeting, review: Reviewed]
    BY <1>20, <2>2, NoSnapshotType DEF LockSections
  <2>. QED BY <1>20, <2>3 DEF LockSections, TypeOK
<1>21. CASE VacuumSections
  <2>1. PICK S \in SUBSET Classes : section \in [S -> Courses]
    BY DEF TypeOK
  <2>2. section' \in [S \ LockedSections -> Courses]
    BY <1>21, <2>1 DEF VacuumSections
  <2>3. section' \in UNION {[T -> Courses] : T \in SUBSET Classes}
    BY <2>2
  <2>. QED BY <1>21, <2>3, NoSnapshotType DEF VacuumSections, Cascaded, TypeOK
<1>22. CASE LockProfs
  BY <1>22 DEF LockProfs, TypeOK
<1>23. CASE ReadProfs
  <2>1. snapshot' \in [section: SUBSET Classes, prof: SUBSET Profs, meeting: SUBSET Meeting, review: Reviewed]
    BY <1>23 DEF ReadProfs, TypeOK
  <2>. QED BY <1>23, <2>1 DEF ReadProfs, TypeOK
<1>24. CASE DeleteProfs
  <2>1. review' \in Reviewed
    BY <1>24 DEF DeleteProfs, ReviewsWithout, TypeOK, Reviewed
  <2>. QED BY <1>24, <2>1, NoSnapshotType DEF DeleteProfs, TypeOK
<1>25. CASE UNCHANGED vars
  BY <1>25 DEF vars, TypeOK
<1>. QED BY <1>1, <1>2, <1>3, <1>4, <1>5, <1>6, <1>7, <1>8, <1>9, <1>10, <1>11, <1>12,
            <1>13, <1>14, <1>15, <1>18, <1>19, <1>20, <1>21, <1>22, <1>23, <1>24, <1>25
         DEF Next, Stage, Vacuum

\* Every reachable state of the importer stays within its schema.
THEOREM TypeCorrect == Spec => []TypeOK
BY InitType, StepType, PTL DEF Spec

-----------------------------------------------------------------------------
(* What was entered by hand stays, however many runs overlap.              *)

\* The vacuum only ever locks sections whose term has passed.
LockedExpired == vacuum = "sections" => snapshot.section \subseteq expired

\* No step locks other sections, or forgets that a term has passed.
LEMMA StepLocked == ASSUME TypeOK, LockedExpired, [Next]_vars PROVE LockedExpired'
<1>. USE DEF upstream, vacuumVars
<1>1. CASE LockSections
  BY <1>1 DEF LockSections, LockedExpired, NoSnapshot
<1>2. CASE VacuumSections \/ ReadProfs \/ LockProfs \/ DeleteProfs \/ VacuumFails
  BY <1>2 DEF VacuumSections, ReadProfs, LockProfs, DeleteProfs, VacuumFails, AbortVacuum, LockedExpired
<1>3. ASSUME NEW r \in Runs, Deadlock(r) PROVE LockedExpired'
  BY <1>3 DEF Deadlock, Abort, AbortVacuum, LockedExpired
<1>4. ASSUME UNCHANGED vacuumVars, expired \subseteq expired' PROVE LockedExpired'
  BY <1>4 DEF LockedExpired
<1>5. ASSUME NEW r \in Runs, Start(r) \/ Stage(r) \/ Fail(r) PROVE LockedExpired'
  BY <1>4, <1>5 DEF Start, Stage, Fetch, InsertCourses, InsertPrereqs, InsertAntireqs, InsertProfs,
       InsertSections, DeleteMeetings, RefreshViews, InsertMeetings, Fail, Abort
<1>6. CASE \/ ListingChanges \/ CatalogChanges \/ \E k \in Classes : TermEnds(k)
           \/ \E v \in Reviews : DeleteReview(v) \/ \E p \in Profs : WriteReview(v, p)
           \/ UNCHANGED vars
  BY <1>4, <1>6 DEF ListingChanges, CatalogChanges, TermEnds, DeleteReview, WriteReview, vars
<1>. QED BY <1>1, <1>2, <1>3, <1>5, <1>6 DEF Next, Vacuum

\* No class entered by hand ever gets into a run, its work table or the set of
\* meetings its DELETE picked; and meetings by hand are of such classes only.
ManualInv ==
  /\ \A r \in Runs : DOMAIN data[r].sections \cap Manual = {}
  /\ sectionDelta \cap Manual = {}
  /\ \A m \in meeting : m.by = ByHand => m.class \in Manual /\ m.prof = NoProf
  /\ \A r \in Runs : \A m \in doomed[r] : m.by # ByHand

\* At first the only sections and meetings are those entered by hand.
LEMMA InitManual == ASSUME Init PROVE ManualInv
BY DEF Init, ManualInv, NoData

\* A fetch never puts a class that was entered by hand among the sections of a run.
LEMMA FetchManual ==
  ASSUME TypeOK, ManualInv, NEW r \in Runs, Fetch(r)
  PROVE  \A q \in Runs : DOMAIN data'[q].sections \cap Manual = {}
<1>1. PICK c \in data[r].todo :
        \E answer \in {{e \in listing : e.course = c /\ e.class \notin expired}, {}} :
          \E claim \in Claims(data[r].sections, answer) :
            data' = [data EXCEPT ![r].todo = @ \ {c}, ![r].sections = Extended(@, claim)]
  BY DEF Fetch
<1>2. PICK answer \in {{e \in listing : e.course = c /\ e.class \notin expired}, {}} :
        \E claim \in Claims(data[r].sections, answer) :
          data' = [data EXCEPT ![r].todo = @ \ {c}, ![r].sections = Extended(@, claim)]
  BY <1>1
<1>3. PICK claim \in Claims(data[r].sections, answer) :
        data' = [data EXCEPT ![r].todo = @ \ {c}, ![r].sections = Extended(@, claim)]
  BY <1>2
<1>. DEFINE old == data[r].sections
            new == Extended(old, claim)
<1>4. \A e \in answer : e.class \notin Manual
  BY <1>2, ImportAssumption DEF TypeOK
<1>5. DOMAIN claim = Unclaimed(old, answer)
  BY <1>3 DEF Claims
<1>6. DOMAIN new = DOMAIN old \cup Unclaimed(old, answer)
  BY <1>5 DEF Extended
<1>7. DOMAIN new \cap Manual = {}
  BY <1>4, <1>6 DEF Unclaimed, ManualInv
<1>8. data[r] \in Data
  BY DEF TypeOK
<1>. HIDE DEF new, old
<1>9. data' = [data EXCEPT ![r] = [data[r] EXCEPT !.todo = @ \ {c}, !.sections = new]]
  BY <1>3 DEF TypeOK, new, old
<1>10. data'[r].sections = new
  BY <1>8, <1>9 DEF TypeOK, Data
<1>. QED BY <1>7, <1>9, <1>10 DEF TypeOK, ManualInv

\* No step breaks ManualInv.
LEMMA StepManual == ASSUME TypeOK, ManualInv, [Next]_vars PROVE ManualInv'
<1>. USE DEF Advance, upstream, tables, runVars, vacuumVars
<1>1. CASE ListingChanges \/ CatalogChanges \/ ReadProfs \/ UNCHANGED vars
  BY <1>1 DEF ListingChanges, CatalogChanges, ReadProfs, vars, ManualInv
<1>2. ASSUME NEW k \in Classes, TermEnds(k) PROVE ManualInv'
  BY <1>2 DEF TermEnds, ManualInv
<1>3. ASSUME NEW v \in Reviews, DeleteReview(v) PROVE ManualInv'
  BY <1>3 DEF DeleteReview, ManualInv
<1>4. ASSUME NEW v \in Reviews, NEW p \in Profs, WriteReview(v, p) PROVE ManualInv'
  BY <1>4 DEF WriteReview, ManualInv
<1>5. ASSUME NEW r \in Runs, Start(r) PROVE ManualInv'
  BY <1>5 DEF Start, ManualInv, TypeOK
<1>6. ASSUME NEW r \in Runs, Fetch(r) PROVE ManualInv'
  <2>1. \A q \in Runs : DOMAIN data'[q].sections \cap Manual = {}
    BY <1>6, FetchManual
  <2>. QED BY <1>6, <2>1 DEF Fetch, ManualInv
<1>7. ASSUME NEW r \in Runs,
             InsertCourses(r) \/ InsertPrereqs(r) \/ InsertAntireqs(r) \/ InsertProfs(r)
      PROVE  ManualInv'
  BY <1>7 DEF InsertCourses, InsertPrereqs, InsertAntireqs, InsertProfs, ManualInv
<1>8. ASSUME NEW r \in Runs, InsertSections(r) PROVE ManualInv'
  BY <1>8 DEF InsertSections, SectionRows, Converted, ManualInv
<1>9. ASSUME NEW r \in Runs, DeleteMeetings(r) PROVE ManualInv'
  <2>1. \A m \in meeting : m.class \in Imported => m.by # ByHand
    BY DEF Imported, ManualInv
  <2>2. \A q \in Runs : \A m \in doomed'[q] : m.by # ByHand
    BY <1>9, <2>1 DEF DeleteMeetings, ManualInv, TypeOK
  <2>. QED BY <1>9, <2>2 DEF DeleteMeetings, ManualInv
<1>10. ASSUME NEW r \in Runs, InsertMeetings(r) PROVE ManualInv'
  <2>1. \A m \in meeting' : m \in meeting \/ m.by = r
    BY <1>10 DEF InsertMeetings, NewMeetings
  <2>2. r # ByHand
    BY ImportAssumption
  <2>3. \A q \in Runs : \A m \in doomed'[q] : m.by # ByHand
    BY <1>10 DEF InsertMeetings, ManualInv, TypeOK
  <2>. QED BY <1>10, <2>1, <2>2, <2>3 DEF InsertMeetings, ManualInv
<1>11. ASSUME NEW r \in Runs, Fail(r) \/ Deadlock(r) PROVE ManualInv'
  <2>1. CASE Abort(r)
    BY <2>1 DEF Abort, ManualInv, TypeOK
  <2>. QED BY <1>11, <2>1 DEF Fail, Deadlock, AbortVacuum, ManualInv
<1>12. ASSUME NEW r \in Runs, RefreshViews(r) PROVE ManualInv'
  BY <1>12 DEF RefreshViews, ManualInv
<1>13. CASE LockSections \/ LockProfs \/ VacuumFails
  BY <1>13 DEF LockSections, LockProfs, VacuumFails, AbortVacuum, ManualInv
<1>14. CASE VacuumSections
  BY <1>14 DEF VacuumSections, Cascaded, ManualInv
<1>15. CASE DeleteProfs
  BY <1>15 DEF DeleteProfs, ManualInv
<1>. QED BY <1>1, <1>2, <1>3, <1>4, <1>5, <1>6, <1>7, <1>8, <1>9, <1>10, <1>11, <1>12,
            <1>13, <1>14, <1>15
         DEF Next, Stage, Vacuum

ManualStep ==
  \A m \in meeting : m.by = ByHand /\ m \notin meeting' =>
    m.class \in expired /\ m.class \notin DOMAIN section'

\* In a state of ManualInv a step removes a meeting entered by hand only with its section.
LEMMA ManualStepHolds ==
  ASSUME TypeOK, ManualInv, LockedExpired, [Next]_vars PROVE ManualStep
<1>. SUFFICES ASSUME NEW m \in meeting, m.by = ByHand, m \notin meeting'
              PROVE  m.class \in expired /\ m.class \notin DOMAIN section'
  BY DEF ManualStep
<1>. USE DEF Advance, upstream, tables, runVars, vacuumVars
<1>1. CASE \E r \in Runs : InsertMeetings(r)
  BY <1>1 DEF InsertMeetings, ManualInv
<1>2. CASE VacuumSections
  BY <1>2 DEF VacuumSections, Cascaded, LockedSections, LockedProfs, LockedExpired
<1>3. CASE DeleteProfs
  <2>1. LockedProfs \subseteq Profs
    BY DEF LockedProfs, Unused, TypeOK
  <2>2. m.prof = NoProf /\ NoProf \notin Profs
    BY ImportAssumption DEF ManualInv
  <2>. QED BY <1>3, <2>1, <2>2 DEF DeleteProfs, Cascaded, LockedSections
<1>. QED BY <1>1, <1>2, <1>3 DEF Next, Stage, ListingChanges, CatalogChanges, TermEnds, DeleteReview,
        WriteReview, Start, Fetch, InsertCourses, InsertPrereqs, InsertAntireqs, InsertProfs,
        InsertSections, DeleteMeetings, RefreshViews, Fail, Deadlock, Abort, AbortVacuum, Vacuum,
        LockSections, ReadProfs, LockProfs, VacuumFails, vars

\* Meetings entered by hand survive any number of overlapping runs, faults and
\* vacuums: they go only with their section (insertAllMeetings).
THEOREM ManualMeetingsKept == Spec => ManualKept
<1>1. Init => TypeOK /\ ManualInv /\ LockedExpired
  BY InitType, InitManual DEF Init, LockedExpired
<1>2. TypeOK /\ ManualInv /\ LockedExpired /\ [Next]_vars => (TypeOK /\ ManualInv /\ LockedExpired)'
  BY StepType, StepManual, StepLocked
<1>3. TypeOK /\ ManualInv /\ LockedExpired /\ [Next]_vars => [ManualStep]_vars
  BY ManualStepHolds
<1>. QED BY <1>1, <1>2, <1>3, PTL DEF Spec, ManualKept, ManualStep

VacuumStep ==
  vacuum = "cascade" /\ vacuum' = "idle" =>
    /\ meeting \ meeting' \subseteq meeting \ snapshot.meeting
    /\ \A v \in Reviews : review'[v] # review[v] => review[v] # snapshot.review[v]

\* What the DELETE of professors takes along was not in its snapshot.
LEMMA VacuumStepHolds == ASSUME TypeOK, [Next]_vars PROVE VacuumStep
<1>. SUFFICES ASSUME vacuum = "cascade", vacuum' = "idle" PROVE VacuumStep
  BY DEF VacuumStep
<1>1. DeleteProfs \/ AbortVacuum
  BY DEF Next, Stage, Advance, upstream, tables, runVars, vacuumVars, ListingChanges,
         CatalogChanges, TermEnds, DeleteReview, WriteReview, Start, Fetch, InsertCourses,
         InsertPrereqs, InsertAntireqs, InsertProfs, InsertSections, DeleteMeetings, RefreshViews,
         InsertMeetings, Fail, Deadlock, Abort, Vacuum, LockSections, VacuumSections, ReadProfs,
         LockProfs, VacuumFails, vars
<1>2. CASE AbortVacuum
  BY <1>2 DEF AbortVacuum, tables, VacuumStep
<1>3. CASE DeleteProfs
  <2>1. LockedProfs = Unused(snapshot)
    BY DEF LockedProfs
  <2>2. \A m \in meeting \ meeting' : m.prof \in Unused(snapshot)
    BY <1>3, <2>1 DEF DeleteProfs, Cascaded, LockedSections
  <2>3. \A v \in Reviews : review'[v] # review[v] => review[v] \in Unused(snapshot)
    BY <1>3, <2>1 DEF DeleteProfs, ReviewsWithout, TypeOK, Reviewed
  <2>. QED BY <2>2, <2>3 DEF Unused, VacuumStep
<1>. QED BY <1>1, <1>2, <1>3

\* Whatever runs and users do meanwhile, the vacuum of professors takes along
\* only rows that were written after its statement had begun (deleteProfQuery).
THEOREM VacuumSparesUsedProfs == Spec => VacuumSparesUsed
<1>1. TypeOK /\ [Next]_vars => [VacuumStep]_vars
  BY VacuumStepHolds
<1>. QED BY <1>1, InitType, StepType, PTL DEF Spec, VacuumSparesUsed, VacuumStep

-----------------------------------------------------------------------------
(* Runs that do not overlap: the meetings of a class come from one run.    *)

\* One process works at a time; the work table of sections and the meetings a
\* run is about to delete are those of the run that is in these stages.
SerialInv ==
  /\ \A q, r \in Runs : Running(q) /\ Running(r) => q = r
  /\ \A r \in Runs : Running(r) => vacuum = "idle"
  /\ \A r \in Runs : pc[r] = "meetings" => sectionDelta = Converted(r)
  /\ \A r \in Runs : pc[r] \in {"clear", "insert"} =>
       doomed[r] = {m \in meeting : m.class \in Converted(r) \cap DOMAIN section}
  /\ NoMixedMeetings

\* At first nothing runs.
LEMMA InitSerial == ASSUME Init PROVE SerialInv
BY DEF Init, SerialInv, Running, Stages, NoMixedMeetings

\* A process that may start finds nothing else at work.
LEMMA NothingElse ==
  ASSUME IsFiniteSet(Runs), MaxRunning = 1, Cardinality(Active) < MaxRunning
  PROVE  vacuum = "idle" /\ \A r \in Runs : ~Running(r)
<1>1. IsFiniteSet(Runs \cup {ByHand})
  BY FS_AddElement
<1>2. Active \subseteq Runs \cup {ByHand}
  BY DEF Active
<1>3. IsFiniteSet(Active)
  BY <1>1, <1>2, FS_Subset
<1>4. Cardinality(Active) = 0
  BY <1>3, FS_CardinalityType
<1>5. Active = {}
  BY <1>3, <1>4, FS_EmptySet
<1>. QED BY <1>5 DEF Active

\* The stages before the meetings touch neither meetings nor what is doomed.
LEMMA EarlyStageSerial ==
  ASSUME TypeOK, SerialInv, NEW r \in Runs,
         \/ Fetch(r) \/ InsertCourses(r) \/ InsertPrereqs(r)
         \/ InsertAntireqs(r) \/ InsertProfs(r)
  PROVE  SerialInv'
<1>1. /\ Running(r) /\ \A q \in Runs \ {r} : pc'[q] = pc[q]
      /\ pc'[r] \in {"fetch", "prereqs", "antireqs", "profs", "sections"}
      /\ UNCHANGED <<meeting, vacuum>>
  BY DEF Fetch, InsertCourses, InsertPrereqs, InsertAntireqs, InsertProfs, Advance, Running,
         Stages, TypeOK, vacuumVars, tables
<1>2. \A q \in Runs : Running(q)' => q = r
  BY <1>1 DEF SerialInv, Running
<1>3. vacuum' = "idle"
  BY <1>1 DEF SerialInv
<1>4. \A q \in Runs : pc'[q] \notin {"meetings", "clear", "insert"}
  BY <1>1, <1>2 DEF Running, Stages
<1>5. NoMixedMeetings'
  BY <1>1 DEF SerialInv, NoMixedMeetings
<1>. QED BY <1>2, <1>3, <1>4, <1>5 DEF SerialInv

\* The sections stage leaves the meetings alone and keeps its classes in the work table.
LEMMA InsertSectionsSerial ==
  ASSUME TypeOK, SerialInv, NEW r \in Runs, InsertSections(r) PROVE SerialInv'
<1>1. /\ Running(r) /\ \A q \in Runs \ {r} : pc'[q] = pc[q]
      /\ pc'[r] = "meetings" /\ sectionDelta' = Converted(r)
      /\ UNCHANGED <<meeting, vacuum, data>>
  BY DEF InsertSections, SectionRows, Advance, Running, Stages, TypeOK, vacuumVars
<1>2. \A q \in Runs : Running(q)' => q = r
  BY <1>1 DEF SerialInv, Running
<1>3. vacuum' = "idle"
  BY <1>1 DEF SerialInv
<1>4. sectionDelta' = Converted(r)'
  BY <1>1 DEF Converted
<1>5. \A q \in Runs : pc'[q] \notin {"clear", "insert"} /\ (pc'[q] = "meetings" => q = r)
  BY <1>1, <1>2 DEF Running, Stages
<1>6. NoMixedMeetings'
  BY <1>1 DEF SerialInv, NoMixedMeetings
<1>. QED BY <1>2, <1>3, <1>4, <1>5, <1>6 DEF SerialInv

\* The DELETE of the meetings stage sees all meetings of the classes of its run.
LEMMA DeleteMeetingsSerial ==
  ASSUME TypeOK, SerialInv, NEW r \in Runs, DeleteMeetings(r) PROVE SerialInv'
<1>1. /\ Running(r) /\ \A q \in Runs \ {r} : pc'[q] = pc[q]
      /\ pc[r] = "meetings" /\ pc'[r] = "clear"
      /\ UNCHANGED <<meeting, vacuum, data, section, sectionDelta>>
  BY DEF DeleteMeetings, Advance, Running, Stages, TypeOK, vacuumVars, tables
<1>2. \A q \in Runs : Running(q)' => q = r
  BY <1>1 DEF SerialInv, Running
<1>3. vacuum' = "idle"
  BY <1>1 DEF SerialInv
<1>4. Imported = Converted(r) \cap DOMAIN section
  BY <1>1 DEF SerialInv, Imported
<1>5. doomed'[r] = {m \in meeting : m.class \in Converted(r) \cap DOMAIN section}
  BY <1>4 DEF DeleteMeetings, TypeOK
<1>6. doomed'[r] = {m \in meeting' : m.class \in Converted(r)' \cap DOMAIN section'}
  BY <1>1, <1>5 DEF Converted
<1>7. \A q \in Runs : pc'[q] # "meetings" /\ (pc'[q] \in {"clear", "insert"} => q = r)
  BY <1>1, <1>2 DEF Running, Stages
<1>8. NoMixedMeetings'
  BY <1>1 DEF SerialInv, NoMixedMeetings
<1>. QED BY <1>2, <1>3, <1>6, <1>7, <1>8 DEF SerialInv

\* The refresh of the views changes none of them.
LEMMA RefreshViewsSerial ==
  ASSUME TypeOK, SerialInv, NEW r \in Runs, RefreshViews(r) PROVE SerialInv'
<1>1. /\ Running(r) /\ \A q \in Runs \ {r} : pc'[q] = pc[q]
      /\ pc[r] = "clear" /\ pc'[r] = "insert"
      /\ UNCHANGED <<meeting, vacuum, data, section, doomed>>
  BY DEF RefreshViews, Advance, Running, Stages, TypeOK, vacuumVars, tables
<1>2. \A q \in Runs : Running(q)' => q = r
  BY <1>1 DEF SerialInv, Running
<1>3. vacuum' = "idle"
  BY <1>1 DEF SerialInv
<1>4. doomed[r] = {m \in meeting : m.class \in Converted(r) \cap DOMAIN section}
  BY <1>1 DEF SerialInv
<1>5. doomed'[r] = {m \in meeting' : m.class \in Converted(r)' \cap DOMAIN section'}
  BY <1>1, <1>4 DEF Converted
<1>6. \A q \in Runs : pc'[q] # "meetings" /\ (pc'[q] \in {"clear", "insert"} => q = r)
  BY <1>1, <1>2 DEF Running, Stages
<1>7. NoMixedMeetings'
  BY <1>1 DEF SerialInv, NoMixedMeetings
<1>. QED BY <1>2, <1>3, <1>5, <1>6, <1>7 DEF SerialInv

\* The meetings that a run inserts are the only ones of their classes.
LEMMA InsertMeetingsSerial ==
  ASSUME TypeOK, SerialInv, NEW r \in Runs, InsertMeetings(r) PROVE SerialInv'
<1>1. /\ Running(r) /\ \A q \in Runs \ {r} : pc'[q] = pc[q]
      /\ pc[r] = "insert" /\ pc'[r] = "done" /\ UNCHANGED vacuum
  BY DEF InsertMeetings, Advance, Running, Stages, TypeOK, vacuumVars
<1>2. \A q \in Runs : ~Running(q)'
  BY <1>1 DEF SerialInv, Running, Stages
<1>3. \A q \in Runs : pc'[q] \notin {"meetings", "clear", "insert"}
  BY <1>2 DEF Running, Stages
<1>4. doomed[r] = {m \in meeting : m.class \in Converted(r) \cap DOMAIN section}
  BY <1>1 DEF SerialInv
<1>5. \A m \in meeting' : \/ m \in meeting /\ m.class \notin Converted(r) \cap DOMAIN section
                          \/ m.by = r /\ m.class \in Converted(r) \cap DOMAIN section
  BY <1>4 DEF InsertMeetings, NewMeetings, Taught
<1>6. NoMixedMeetings'
  BY <1>5 DEF SerialInv, NoMixedMeetings
<1>. QED BY <1>2, <1>3, <1>6 DEF SerialInv

\* A run that fails leaves meetings of one run per class behind.
LEMMA FailSerial == ASSUME TypeOK, SerialInv, NEW r \in Runs, Fail(r) PROVE SerialInv'
<1>1. /\ \A q \in Runs \ {r} : pc'[q] = pc[q]
      /\ pc'[r] = "failed" /\ Running(r) /\ UNCHANGED <<vacuum, meeting>>
  BY DEF Fail, Abort, TypeOK, vacuumVars, tables
<1>2. \A q \in Runs : ~Running(q)'
  BY <1>1 DEF SerialInv, Running, Stages
<1>3. \A q \in Runs : pc'[q] \notin {"meetings", "clear", "insert"}
  BY <1>2 DEF Running, Stages
<1>4. NoMixedMeetings'
  BY <1>1 DEF SerialInv, NoMixedMeetings
<1>. QED BY <1>2, <1>3, <1>4 DEF SerialInv

\* Runs that do not overlap meet no deadlock.
LEMMA NoDeadlock == ASSUME SerialInv, NEW r \in Runs PROVE ~Deadlock(r)
<1>1. CASE DeadlockWithVacuum(r)
  <2>1. Running(r)
    BY <1>1 DEF DeadlockWithVacuum, Running, Stages
  <2>2. LockedSections = {} /\ LockedProfs = {}
    BY <2>1 DEF SerialInv, LockedSections, LockedProfs
  <2>3. ~RefersToLocked(r)
    BY <2>2 DEF RefersToLocked
  <2>4. Cascaded = {} /\ Converted(r) \cap LockedSections = {} /\ doomed[r] \cap Cascaded = {}
    BY <2>2 DEF Cascaded
  <2>5. Cardinality({}) = 0
    BY FS_EmptySet
  <2>. QED BY <1>1, <2>3, <2>4, <2>5 DEF DeadlockWithVacuum
<1>2. CASE DeadlockWithRun(r)
  BY <1>2 DEF DeadlockWithRun, SerialInv, Running, Stages
<1>. QED BY <1>1, <1>2 DEF Deadlock

\* Only one run starts when none is at work.
LEMMA StartSerial ==
  ASSUME IsFiniteSet(Runs), MaxRunning = 1, TypeOK, SerialInv, NEW r \in Runs, Start(r)
  PROVE  SerialInv'
<1>1. vacuum = "idle" /\ \A q \in Runs : ~Running(q)
  BY NothingElse DEF Start
<1>2. /\ \A q \in Runs \ {r} : pc'[q] = pc[q]
      /\ pc'[r] = "fetch" /\ UNCHANGED <<vacuum, meeting>>
  BY DEF Start, TypeOK, vacuumVars, tables
<1>3. \A q \in Runs : Running(q)' => q = r
  BY <1>1, <1>2 DEF Running
<1>4. \A q \in Runs : pc'[q] \notin {"meetings", "clear", "insert"}
  BY <1>2, <1>3 DEF Running, Stages
<1>5. NoMixedMeetings'
  BY <1>2 DEF SerialInv, NoMixedMeetings
<1>. QED BY <1>1, <1>2, <1>3, <1>4, <1>5 DEF SerialInv

\* The vacuum works only while no run does, and only takes meetings away.
LEMMA VacuumSerial ==
  ASSUME IsFiniteSet(Runs), MaxRunning = 1, SerialInv, Vacuum \/ VacuumFails
  PROVE  SerialInv'
<1>. USE DEF Vacuum, LockSections, VacuumSections, ReadProfs, LockProfs, DeleteProfs, VacuumFails,
             AbortVacuum
<1>1. pc' = pc
  BY DEF runVars
<1>2. \A q \in Runs : ~Running(q)
  <2>1. CASE LockSections
    BY <2>1, NothingElse
  <2>2. CASE vacuum # "idle"
    BY <2>2 DEF SerialInv
  <2>. QED BY <2>1, <2>2
<1>3. \A q \in Runs : ~Running(q)'
  BY <1>1, <1>2 DEF Running
<1>4. \A q \in Runs : pc'[q] \notin {"meetings", "clear", "insert"}
  BY <1>3 DEF Running, Stages
<1>5. meeting' \subseteq meeting
  BY DEF Cascaded, tables
<1>6. NoMixedMeetings'
  BY <1>5 DEF SerialInv, NoMixedMeetings
<1>. QED BY <1>3, <1>4, <1>6 DEF SerialInv

\* No step breaks SerialInv while runs do not overlap.
LEMMA StepSerial ==
  ASSUME IsFiniteSet(Runs), MaxRunning = 1, TypeOK, SerialInv, [Next]_vars
  PROVE  SerialInv'
<1>1. ASSUME UNCHANGED <<pc, data, doomed, sectionDelta, vacuum, section, meeting>>
      PROVE  SerialInv'
  BY <1>1 DEF SerialInv, NoMixedMeetings, Running, Converted
<1>2. CASE \/ ListingChanges \/ CatalogChanges \/ \E k \in Classes : TermEnds(k)
           \/ \E v \in Reviews : DeleteReview(v) \/ \E p \in Profs : WriteReview(v, p)
           \/ UNCHANGED vars
  BY <1>1, <1>2 DEF ListingChanges, CatalogChanges, TermEnds, DeleteReview, WriteReview, vars,
                    tables, runVars, vacuumVars
<1>3. ASSUME NEW r \in Runs, Start(r) \/ Stage(r) \/ Fail(r) \/ Deadlock(r) PROVE SerialInv'
  BY <1>3, StartSerial, EarlyStageSerial, InsertSectionsSerial, DeleteMeetingsSerial,
     RefreshViewsSerial, InsertMeetingsSerial, FailSerial, NoDeadlock DEF Stage
<1>4. CASE Vacuum \/ VacuumFails
  BY <1>4, VacuumSerial
<1>. QED BY <1>2, <1>3, <1>4 DEF Next

\* As long as runs do not overlap, no class ever shows the meetings of two of
\* them, whichever stage an earlier one failed in (insertAllMeetings).
THEOREM MeetingsOfOneRun ==
  ASSUME IsFiniteSet(Runs), MaxRunning = 1
  PROVE  Spec => []NoMixedMeetings
<1>1. Init => TypeOK /\ SerialInv
  BY InitType, InitSerial
<1>2. TypeOK /\ SerialInv /\ [Next]_vars => (TypeOK /\ SerialInv)'
  BY StepType, StepSerial
<1>3. SerialInv => NoMixedMeetings
  BY DEF SerialInv
<1>. QED BY <1>1, <1>2, <1>3, PTL DEF Spec

-----------------------------------------------------------------------------
(* Runs that do not overlap: the tables show what the last one fetched.    *)

\* The sections of a run are there, until their term has passed.
HasSections(r) ==
  \A k \in Converted(r) \ expired : k \in DOMAIN section /\ section[k] = data[r].sections[k].course

\* Each has exactly its own meeting, with its professor.
HasMeetings(r) ==
  \A k \in Converted(r) \ expired :
    /\ {m \in meeting : m.class = k} =
         IF k \notin Taught(r) THEN {}
         ELSE {[class |-> k, prof |-> Resolve(data[r].sections[k].prof), by |-> r]}
    /\ k \in Taught(r) /\ data[r].sections[k].prof # NoProf =>
         Resolve(data[r].sections[k].prof) # NoProf

\* What a run has got into the tables, by the stage it is in.
MirrorInv ==
  /\ \A r \in Runs : Running(r) => last = r
  /\ \A p, q \in remap : p.code = q.code => p = q
  /\ vacuum \in {"deleting", "cascade"} => snapshot.meeting = meeting
  /\ \A r \in Runs :
       /\ pc[r] \in {"profs", "sections", "meetings", "clear", "insert"} \/ Settled(r) =>
            antireq = Known(data[r].antireqs)
       /\ pc[r] \in {"sections", "meetings", "clear", "insert"} => NewProfs(r) \subseteq prof
       /\ pc[r] \in {"meetings", "clear", "insert"} \/ Settled(r) => HasSections(r)
       /\ Settled(r) => HasMeetings(r)

\* At first nothing has run.
LEMMA InitMirror == ASSUME Init PROVE MirrorInv
BY ImportAssumption DEF Init, MirrorInv, Running, Stages, Settled

\* The step of a run at work changes nothing for another.
LEMMA OnlyRunning ==
  ASSUME TypeOK, SerialInv, MirrorInv, NEW r \in Runs, Running(r),
         NEW s, pc' = [pc EXCEPT ![r] = s], s \in Stages \cup {"done", "failed"},
         UNCHANGED <<last, vacuum, remap>>
  PROVE  /\ \A q \in Runs : Running(q)' => last' = q
         /\ vacuum' = "idle" /\ vacuum = "idle"
         /\ \A p, q \in remap' : p.code = q.code => p = q
         /\ \A q \in Runs \ {r} : ~Settled(q)' /\ pc'[q] \notin Stages
         /\ pc'[r] = s /\ last = r
<1>1. pc'[r] = s /\ \A q \in Runs \ {r} : pc'[q] = pc[q]
  BY DEF TypeOK
<1>2. last = r /\ vacuum = "idle"
  BY DEF MirrorInv, SerialInv
<1>3. \A q \in Runs \ {r} : pc[q] \notin Stages
  BY DEF SerialInv, Running
<1>4. \A q \in Runs \ {r} : ~Settled(q)'
  BY <1>2 DEF Settled
<1>. QED BY <1>1, <1>2, <1>3, <1>4 DEF Running, MirrorInv

\* The stages before the sections put the antirequisites and professors there.
LEMMA EarlyStageMirror ==
  ASSUME TypeOK, SerialInv, MirrorInv, NEW r \in Runs,
         \/ Fetch(r) \/ InsertCourses(r) \/ InsertPrereqs(r)
         \/ InsertAntireqs(r) \/ InsertProfs(r) \/ Fail(r)
  PROVE  MirrorInv'
<1>. USE DEF Advance, tables, vacuumVars
<1>1. PICK s \in {"fetch", "prereqs", "antireqs", "profs", "sections", "failed"} :
        /\ Running(r) /\ pc' = [pc EXCEPT ![r] = s]
        /\ UNCHANGED <<last, vacuum, remap>>
        /\ s = "profs" => InsertAntireqs(r)
        /\ s = "sections" => InsertProfs(r)
  <2>1. CASE Fetch(r)
    <3>1. pc' = [pc EXCEPT ![r] = "fetch"]
      BY <2>1 DEF Fetch, TypeOK
    <3>. QED BY <2>1, <3>1 DEF Fetch, Running, Stages
  <2>2. CASE InsertCourses(r) \/ InsertPrereqs(r) \/ InsertAntireqs(r) \/ InsertProfs(r)
    BY <2>2 DEF InsertCourses, InsertPrereqs, InsertAntireqs, InsertProfs, Running, Stages
  <2>3. CASE Fail(r)
    BY <2>3 DEF Fail, Abort
  <2>. QED BY <2>1, <2>2, <2>3
<1>2. /\ \A q \in Runs : Running(q)' => last' = q
      /\ vacuum' = "idle" /\ vacuum = "idle"
      /\ \A p, q \in remap' : p.code = q.code => p = q
      /\ \A q \in Runs \ {r} : ~Settled(q)' /\ pc'[q] \notin Stages
      /\ pc'[r] = s /\ last = r
  BY <1>1, OnlyRunning DEF Stages
<1>3. ~Settled(r)'
  BY <1>2 DEF Settled
<1>4. s \in {"profs", "sections"} => antireq' = Known(data[r].antireqs)'
  <2>1. CASE s = "profs"
    BY <1>1, <2>1 DEF InsertAntireqs, Antireqs, Known
  <2>2. CASE s = "sections"
    <3>1. pc[r] = "profs" /\ UNCHANGED <<antireq, data, course>>
      BY <1>1, <2>2 DEF InsertProfs
    <3>2. antireq = Known(data[r].antireqs)
      BY <3>1 DEF MirrorInv
    <3>. QED BY <3>1, <3>2 DEF Known
  <2>. QED BY <2>1, <2>2
<1>5. s = "sections" => NewProfs(r)' \subseteq prof'
  <2>. SUFFICES ASSUME s = "sections" PROVE NewProfs(r)' \subseteq prof'
    OBVIOUS
  <2>1. data' = data /\ prof' = prof \cup NewProfs(r)
    BY <1>1 DEF InsertProfs
  <2>2. NewProfs(r)' = NewProfs(r)
    BY <2>1 DEF NewProfs, Taught, Converted
  <2>. QED BY <2>1, <2>2
<1>6. \A q \in Runs \ {r} : pc'[q] \notin {"profs", "sections", "meetings", "clear", "insert"}
  BY <1>2 DEF Stages
<1>. QED BY <1>1, <1>2, <1>3, <1>4, <1>5, <1>6 DEF MirrorInv

\* The sections stage brings the sections.
LEMMA InsertSectionsMirror ==
  ASSUME TypeOK, SerialInv, MirrorInv, NEW r \in Runs, InsertSections(r) PROVE MirrorInv'
<1>1. /\ pc[r] = "sections" /\ Running(r) /\ pc' = [pc EXCEPT ![r] = "meetings"]
      /\ UNCHANGED <<last, vacuum, remap, data, course, antireq, prof, expired>>
      /\ section' = Upserted(r)
  BY DEF InsertSections, Advance, vacuumVars, upstream, Running, Stages
<1>2. /\ \A q \in Runs : Running(q)' => last' = q
      /\ vacuum' = "idle"
      /\ \A p, q \in remap' : p.code = q.code => p = q
      /\ \A q \in Runs \ {r} : ~Settled(q)' /\ pc'[q] \notin Stages
      /\ pc'[r] = "meetings"
  BY <1>1, OnlyRunning DEF Stages
<1>3. ~Settled(r)'
  BY <1>2 DEF Settled
<1>4. antireq' = Known(data[r].antireqs)'
  <2>1. antireq = Known(data[r].antireqs)
    BY <1>1 DEF MirrorInv
  <2>. QED BY <1>1, <2>1 DEF Known
<1>5. NewProfs(r)' \subseteq prof'
  <2>1. NewProfs(r) \subseteq prof
    BY <1>1 DEF MirrorInv
  <2>. QED BY <1>1, <2>1 DEF NewProfs, Taught, Converted
<1>6. HasSections(r)'
  <2>1. Converted(r)' = Converted(r)
    BY <1>1 DEF Converted
  <2>2. \A k \in Converted(r) : k \in DOMAIN section' /\ section'[k] = data[r].sections[k].course
    BY <1>1 DEF Upserted
  <2>. QED BY <1>1, <2>1, <2>2 DEF HasSections
<1>7. \A q \in Runs \ {r} : pc'[q] \notin {"profs", "sections", "meetings", "clear", "insert"}
  BY <1>2 DEF Stages
<1>. QED BY <1>2, <1>3, <1>4, <1>5, <1>6, <1>7 DEF MirrorInv

\* The DELETE of the meetings stage and the refresh change no table yet.
LEMMA DeleteMeetingsMirror ==
  ASSUME TypeOK, SerialInv, MirrorInv, NEW r \in Runs, DeleteMeetings(r) \/ RefreshViews(r)
  PROVE  MirrorInv'
<1>1. PICK s \in {"clear", "insert"} :
        /\ pc[r] \in {"meetings", "clear"} /\ Running(r) /\ pc' = [pc EXCEPT ![r] = s]
        /\ UNCHANGED <<last, vacuum, remap, data, course, antireq, prof, section, expired>>
  BY DEF DeleteMeetings, RefreshViews, Advance, vacuumVars, upstream, tables, Running, Stages
<1>2. /\ \A q \in Runs : Running(q)' => last' = q
      /\ vacuum' = "idle"
      /\ \A p, q \in remap' : p.code = q.code => p = q
      /\ \A q \in Runs \ {r} : ~Settled(q)' /\ pc'[q] \notin Stages
      /\ pc'[r] = s
  BY <1>1, OnlyRunning DEF Stages
<1>3. ~Settled(r)'
  BY <1>2 DEF Settled
<1>4. antireq = Known(data[r].antireqs) /\ NewProfs(r) \subseteq prof /\ HasSections(r)
  BY <1>1 DEF MirrorInv
<1>5. antireq' = Known(data[r].antireqs)' /\ NewProfs(r)' \subseteq prof' /\ HasSections(r)'
  BY <1>1, <1>4 DEF Known, NewProfs, Taught, Converted, HasSections
<1>6. \A q \in Runs \ {r} : pc'[q] \notin {"profs", "sections", "meetings", "clear", "insert"}
  BY <1>2 DEF Stages
<1>. QED BY <1>2, <1>3, <1>5, <1>6 DEF MirrorInv

\* The meetings stage replaces the meetings of the run's sections.
LEMMA InsertMeetingsMirror ==
  ASSUME TypeOK, SerialInv, MirrorInv, NEW r \in Runs, InsertMeetings(r) PROVE MirrorInv'
<1>1. /\ pc[r] = "insert" /\ Running(r) /\ pc' = [pc EXCEPT ![r] = "done"]
      /\ UNCHANGED <<last, vacuum, remap, data, course, antireq, prof, section, expired>>
      /\ meeting' = (meeting \ doomed[r]) \cup
           {[class |-> k, prof |-> Resolve(data[r].sections[k].prof), by |-> r]
              : k \in Taught(r) \cap DOMAIN section}
  BY DEF InsertMeetings, NewMeetings, Advance, vacuumVars, upstream, Running, Stages
<1>2. /\ \A q \in Runs : Running(q)' => last' = q
      /\ vacuum' = "idle"
      /\ \A p, q \in remap' : p.code = q.code => p = q
      /\ \A q \in Runs \ {r} : ~Settled(q)' /\ pc'[q] \notin Stages
      /\ pc'[r] = "done"
  BY <1>1, OnlyRunning DEF Stages
<1>3. antireq = Known(data[r].antireqs) /\ NewProfs(r) \subseteq prof /\ HasSections(r)
  BY <1>1 DEF MirrorInv
<1>4. antireq' = Known(data[r].antireqs)' /\ HasSections(r)'
  BY <1>1, <1>3 DEF Known, Converted, HasSections
<1>5. doomed[r] = {m \in meeting : m.class \in Converted(r) \cap DOMAIN section}
  BY <1>1 DEF SerialInv
<1>6. ASSUME NEW k \in Converted(r) \ expired
      PROVE  {m \in meeting' : m.class = k} =
               IF k \notin Taught(r) THEN {}
               ELSE {[class |-> k, prof |-> Resolve(data[r].sections[k].prof), by |-> r]}
  <2>1. k \in DOMAIN section
    BY <1>3 DEF HasSections
  <2>2. {m \in meeting' : m.class = k} =
          {m \in {[class |-> j, prof |-> Resolve(data[r].sections[j].prof), by |-> r]
                    : j \in Taught(r) \cap DOMAIN section} : m.class = k}
    BY <1>1, <1>5, <2>1
  <2>3. {m \in {[class |-> j, prof |-> Resolve(data[r].sections[j].prof), by |-> r]
                    : j \in Taught(r) \cap DOMAIN section} : m.class = k} =
          {[class |-> j, prof |-> Resolve(data[r].sections[j].prof), by |-> r] : j \in Taught(r) \cap {k}}
    BY <2>1
  <2>. QED BY <2>2, <2>3
<1>7. ASSUME NEW k \in Taught(r), data[r].sections[k].prof # NoProf
      PROVE  Resolve(data[r].sections[k].prof) # NoProf
  <2>. DEFINE code == data[r].sections[k].prof
  <2>1. code \in prof
    BY <1>3, <1>7 DEF NewProfs
  <2>2. CASE \E p \in remap : p.code = code
    <3>1. (CHOOSE p \in remap : p.code = code) \in remap
      BY <2>2
    <3>2. \A p \in remap : p.prof # NoProf
      BY ImportAssumption DEF TypeOK, Remap
    <3>. QED BY <2>2, <3>1, <3>2 DEF Resolve
  <2>3. CASE ~\E p \in remap : p.code = code
    BY <1>7, <2>1, <2>3 DEF Resolve
  <2>. QED BY <2>2, <2>3
<1>8. HasMeetings(r)'
  <2>1. \A code : Resolve(code)' = Resolve(code)
    BY <1>1 DEF Resolve
  <2>2. Converted(r)' = Converted(r) /\ Taught(r)' = Taught(r)
    BY <1>1 DEF Converted, Taught
  <2>. QED BY <1>1, <1>6, <1>7, <2>1, <2>2 DEF HasMeetings
<1>9. \A q \in Runs : pc'[q] \notin {"profs", "sections", "meetings", "clear", "insert"}
  BY <1>2 DEF Stages
<1>. QED BY <1>2, <1>4, <1>8, <1>9 DEF MirrorInv

\* A run that starts takes the place of the last one.
LEMMA StartMirror ==
  ASSUME IsFiniteSet(Runs), MaxRunning = 1, TypeOK, SerialInv, MirrorInv, NEW r \in Runs, Start(r)
  PROVE  MirrorInv'
<1>1. vacuum = "idle" /\ \A q \in Runs : ~Running(q)
  BY NothingElse DEF Start
<1>2. /\ pc'[r] = "fetch" /\ \A q \in Runs \ {r} : pc'[q] = pc[q]
      /\ last' = r /\ vacuum' = vacuum /\ remap' = remap
  BY DEF Start, TypeOK, vacuumVars, tables
<1>3. \A q \in Runs : ~Settled(q)' /\ (Running(q)' => q = r)
  BY <1>1, <1>2 DEF Settled, Running
<1>4. \A q \in Runs : pc'[q] \notin {"profs", "sections", "meetings", "clear", "insert"}
  BY <1>2, <1>3 DEF Running, Stages
<1>. QED BY <1>1, <1>2, <1>3, <1>4 DEF MirrorInv

\* Deleting the unused professors leaves what meetings were resolved to.
LEMMA DeleteProfsMirror ==
  ASSUME TypeOK, SerialInv, MirrorInv, DeleteProfs PROVE MirrorInv'
<1>. DEFINE gone == Unused(snapshot)
<1>1. /\ vacuum = "cascade" /\ vacuum' = "idle" /\ prof' = prof \ gone
      /\ remap' = {p \in remap : p.prof \notin gone}
      /\ meeting' = {m \in meeting : m.prof \notin gone}
      /\ UNCHANGED <<pc, data, last, expired, course, antireq, section>>
  BY DEF DeleteProfs, Cascaded, LockedSections, LockedProfs, upstream, runVars
<1>2. \A m \in meeting : m.prof \notin gone
  BY <1>1 DEF MirrorInv, Unused
<1>. HIDE DEF gone
<1>3. meeting' = meeting
  BY <1>1, <1>2
<1>4. \A q \in Runs : ~Running(q)
  BY <1>1 DEF SerialInv
<1>5. \A q \in Runs : pc[q] \notin {"profs", "sections", "meetings", "clear", "insert"}
  BY <1>4 DEF Running, Stages
<1>6. ASSUME NEW code, Resolve(code) \notin gone PROVE Resolve(code)' = Resolve(code)
  <2>1. CASE \E p \in remap : p.code = code
    <3>1. PICK p \in remap : p.code = code
      BY <2>1
    <3>2. (CHOOSE q \in remap : q.code = code) = p
      BY <3>1 DEF MirrorInv
    <3>3. p \in remap' /\ \A q \in remap' : q.code = code => q = p
      BY <1>1, <1>6, <2>1, <3>1, <3>2 DEF Resolve, MirrorInv
    <3>4. (CHOOSE q \in remap' : q.code = code) = p
      BY <3>1, <3>3
    <3>. QED BY <2>1, <3>1, <3>2, <3>3, <3>4 DEF Resolve
  <2>2. CASE ~\E p \in remap : p.code = code
    BY <1>1, <1>6, <2>2 DEF Resolve
  <2>. QED BY <2>1, <2>2
<1>7. ASSUME NEW r \in Runs, Settled(r) PROVE HasMeetings(r)'
  <2>1. HasMeetings(r)
    BY <1>7 DEF MirrorInv
  <2>2. Converted(r)' = Converted(r) /\ Taught(r)' = Taught(r)
    BY <1>1 DEF Converted, Taught
  <2>3. \A k \in (Converted(r) \ expired) \cap Taught(r) :
          Resolve(data[r].sections[k].prof)' = Resolve(data[r].sections[k].prof)
    <3>. SUFFICES ASSUME NEW k \in (Converted(r) \ expired) \cap Taught(r)
                  PROVE  Resolve(data[r].sections[k].prof) \notin gone
      BY <1>1, <1>6
    <3>1. {m \in meeting : m.class = k} =
            {[class |-> k, prof |-> Resolve(data[r].sections[k].prof), by |-> r]}
      BY <2>1 DEF HasMeetings
    <3>2. [class |-> k, prof |-> Resolve(data[r].sections[k].prof), by |-> r] \in meeting
      BY <3>1
    <3>. QED BY <1>2, <3>2
  <2>. QED BY <1>1, <1>3, <2>1, <2>2, <2>3 DEF HasMeetings
<1>8. ASSUME NEW r \in Runs, Settled(r) PROVE HasSections(r)' /\ antireq' = Known(data[r].antireqs)'
  BY <1>1, <1>8 DEF MirrorInv, HasSections, Converted, Known
<1>9. \A r \in Runs : (Settled(r)' <=> Settled(r)) /\ (Running(r)' <=> Running(r)) /\ pc'[r] = pc[r]
  BY <1>1 DEF Settled, Running
<1>10. \A p, q \in remap' : p.code = q.code => p = q
  BY <1>1 DEF MirrorInv
<1>. QED BY <1>1, <1>4, <1>5, <1>7, <1>8, <1>9, <1>10 DEF MirrorInv

\* The vacuum of sections takes away only what has expired.
LEMMA VacuumSectionsMirror ==
  ASSUME TypeOK, SerialInv, MirrorInv, LockedExpired, VacuumSections
  PROVE  MirrorInv'
<1>. DEFINE old == snapshot.section
<1>0. vacuum = "sections" /\ old \subseteq expired
  BY DEF VacuumSections, LockedExpired
<1>1. /\ vacuum' = "profs" /\ section' = [k \in DOMAIN section \ old |-> section[k]]
      /\ meeting' = {m \in meeting : m.class \notin old}
      /\ UNCHANGED <<pc, data, last, expired, course, antireq, prof, remap>>
  BY DEF VacuumSections, Cascaded, LockedSections, LockedProfs, upstream, runVars
<1>. HIDE DEF old
<1>2. \A q \in Runs : ~Running(q)
  BY <1>0 DEF SerialInv
<1>3. \A q \in Runs : pc[q] \notin {"profs", "sections", "meetings", "clear", "insert"}
  BY <1>2 DEF Running, Stages
<1>4. ASSUME NEW r \in Runs, Settled(r) PROVE HasMeetings(r)'
  <2>1. HasMeetings(r)
    BY <1>4 DEF MirrorInv
  <2>2. /\ Converted(r)' = Converted(r) /\ Taught(r)' = Taught(r)
        /\ \A code : Resolve(code)' = Resolve(code)
    BY <1>1 DEF Converted, Taught, Resolve
  <2>3. \A k \in Converted(r) \ expired : {m \in meeting' : m.class = k} = {m \in meeting : m.class = k}
    BY <1>0, <1>1
  <2>. QED BY <1>1, <2>1, <2>2, <2>3 DEF HasMeetings
<1>5. ASSUME NEW r \in Runs, Settled(r) PROVE HasSections(r)' /\ antireq' = Known(data[r].antireqs)'
  BY <1>0, <1>1, <1>5 DEF MirrorInv, HasSections, Converted, Known
<1>6. \A r \in Runs : (Settled(r)' <=> Settled(r)) /\ (Running(r)' <=> Running(r)) /\ pc'[r] = pc[r]
  BY <1>1 DEF Settled, Running
<1>. QED BY <1>1, <1>2, <1>3, <1>4, <1>5, <1>6 DEF MirrorInv

\* No step breaks MirrorInv while runs do not overlap.
LEMMA StepMirror ==
  ASSUME IsFiniteSet(Runs), MaxRunning = 1, TypeOK, SerialInv, MirrorInv, LockedExpired, [Next]_vars
  PROVE  MirrorInv'
<1>1. ASSUME expired \subseteq expired',
             vacuum' \in {"deleting", "cascade"} => snapshot'.meeting = meeting',
             \A r \in Runs : Running(r) => vacuum' = vacuum,
             UNCHANGED <<pc, data, last, course, antireq, prof, remap, section, meeting>>
      PROVE  MirrorInv'
  <2>1. \A r \in Runs : /\ (Settled(r)' <=> Settled(r)) /\ (Running(r)' <=> Running(r))
                        /\ Converted(r)' = Converted(r) /\ Taught(r)' = Taught(r) /\ NewProfs(r)' = NewProfs(r)
                        /\ Known(data[r].antireqs)' = Known(data[r].antireqs)
    BY <1>1 DEF Settled, Running, Converted, Taught, NewProfs, Known
  <2>2. \A code : Resolve(code)' = Resolve(code)
    BY <1>1 DEF Resolve
  <2>3. \A r \in Runs : (HasSections(r) => HasSections(r)') /\ (HasMeetings(r) => HasMeetings(r)')
    BY <1>1, <2>1, <2>2 DEF HasSections, HasMeetings
  <2>. QED BY <1>1, <2>1, <2>3 DEF MirrorInv
<1>2. CASE \/ ListingChanges \/ CatalogChanges \/ \E k \in Classes : TermEnds(k)
           \/ \E v \in Reviews : DeleteReview(v) \/ \E p \in Profs : WriteReview(v, p)
           \/ UNCHANGED vars
  <2>1. /\ expired \subseteq expired'
        /\ UNCHANGED <<pc, data, last, vacuum, snapshot, course, antireq, prof, remap, section, meeting>>
    BY <1>2 DEF ListingChanges, CatalogChanges, TermEnds, DeleteReview, WriteReview, vars,
                upstream, tables, runVars, vacuumVars
  <2>. QED BY <1>1, <2>1 DEF MirrorInv
<1>3. ASSUME NEW r \in Runs, Start(r) \/ Stage(r) \/ Fail(r) \/ Deadlock(r) PROVE MirrorInv'
  BY <1>3, StartMirror, EarlyStageMirror, InsertSectionsMirror, DeleteMeetingsMirror,
     InsertMeetingsMirror, NoDeadlock DEF Stage
<1>4. CASE LockSections \/ ReadProfs \/ LockProfs \/ VacuumFails
  <2>1. \A r \in Runs : ~Running(r)
    <3>1. CASE LockSections
      BY <3>1, NothingElse DEF LockSections
    <3>2. CASE ReadProfs \/ LockProfs \/ VacuumFails
      BY <3>2 DEF ReadProfs, LockProfs, VacuumFails, SerialInv
    <3>. QED BY <1>4, <3>1, <3>2
  <2>2. /\ vacuum' \in {"deleting", "cascade"} => snapshot'.meeting = meeting'
        /\ UNCHANGED <<pc, data, last, expired, course, antireq, prof, remap, section, meeting>>
    BY <1>4 DEF LockSections, ReadProfs, LockProfs, VacuumFails, AbortVacuum, MirrorInv,
                upstream, tables, runVars
  <2>. QED BY <1>1, <2>1, <2>2
<1>. QED BY <1>2, <1>3, <1>4, VacuumSectionsMirror, DeleteProfsMirror DEF Next, Vacuum

\* As long as runs do not overlap, the tables show after each what it fetched,
\* whatever the runs before it left and whatever the vacuum deletes (ImportAll).
THEOREM TablesMirrorFetch ==
  ASSUME IsFiniteSet(Runs), MaxRunning = 1
  PROVE  Spec => []MirrorsFetch
<1>. DEFINE Inv == TypeOK /\ SerialInv /\ MirrorInv /\ LockedExpired
<1>1. Init => Inv
  BY InitType, InitSerial, InitMirror DEF Init, LockedExpired
<1>2. Inv /\ [Next]_vars => Inv'
  BY StepType, StepSerial, StepMirror, StepLocked
<1>3. MirrorInv => MirrorsFetch
  BY DEF MirrorInv, MirrorsFetch, HasSections, HasMeetings
<1>. QED BY <1>1, <1>2, <1>3, PTL DEF Spec

ReplaceStep ==
  \A r \in Runs : pc[r] = "insert" /\ pc'[r] = "done" =>
    \A m \in meeting \ meeting' : m.class \in Converted(r)

\* The commit of the meetings stage deletes meetings of the classes of its run.
LEMMA ReplaceStepHolds == ASSUME TypeOK, SerialInv, [Next]_vars PROVE ReplaceStep
<1>. SUFFICES ASSUME NEW r \in Runs, pc[r] = "insert", pc'[r] = "done", NEW m \in meeting \ meeting'
              PROVE  m.class \in Converted(r)
  BY DEF ReplaceStep
<1>1. PICK q \in Runs : Start(q) \/ Stage(q) \/ Fail(q)
  BY NoDeadlock DEF Next, ListingChanges, CatalogChanges, TermEnds, DeleteReview, WriteReview,
         Vacuum, LockSections, VacuumSections, ReadProfs, LockProfs, DeleteProfs, VacuumFails,
         AbortVacuum, runVars, vars
<1>2. q = r
  BY <1>1 DEF Start, Stage, Fetch, InsertCourses, InsertPrereqs, InsertAntireqs, InsertProfs,
              InsertSections, DeleteMeetings, RefreshViews, InsertMeetings, Fail, Abort, Advance, TypeOK
<1>3. InsertMeetings(r)
  BY <1>1, <1>2 DEF Start, Stage, Fetch, InsertCourses, InsertPrereqs, InsertAntireqs, InsertProfs,
              InsertSections, DeleteMeetings, RefreshViews, Fail, Abort, Advance, TypeOK
<1>4. m \in doomed[r]
  BY <1>3 DEF InsertMeetings
<1>. QED BY <1>4 DEF SerialInv

\* As long as runs do not overlap, a class that a run did not fetch keeps the
\* meetings it has (insertAllMeetings).
THEOREM UnfetchedKept ==
  ASSUME IsFiniteSet(Runs), MaxRunning = 1
  PROVE  Spec => OnlyFetchedReplaced
<1>1. Init => TypeOK /\ SerialInv
  BY InitType, InitSerial
<1>2. TypeOK /\ SerialInv /\ [Next]_vars => (TypeOK /\ SerialInv)'
  BY StepType, StepSerial
<1>3. TypeOK /\ SerialInv /\ [Next]_vars => [ReplaceStep]_vars
  BY ReplaceStepHolds
<1>. QED BY <1>1, <1>2, <1>3, PTL DEF Spec, OnlyFetchedReplaced, ReplaceStep
=============================================================================
