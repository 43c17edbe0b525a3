----------------------------- MODULE RatingViews -----------------------------
(***************************************************************************)
(* Reviews, votes and the timetable, the materialized views computed from  *)
(* them, and the requests that read the views (hasura/migrations,          *)
(* flow/api/data).                                                         *)
(*                                                                         *)
(* Each statement on a base table refreshes, by its triggers and within    *)
(* its transaction, the views of its plan, one after the other.  A REFRESH *)
(* takes its snapshot of the database, then waits for a lock that excludes *)
(* every other use of the view and is held to the end of the transaction,  *)
(* then computes the view from the snapshot.  A query locks the views it   *)
(* reads in the order they stand in, shared, to the end of its             *)
(* transaction.  New contents are visible to all from the commit on.       *)
(***************************************************************************)
EXTENDS Naturals, Sequences, FiniteSets

CONSTANTS
  Backends,     \* database sessions, each with one transaction at a time
  Reviews,
  Voters,
  Classes,      \* sections with their meetings
  Unrated,      \* reviews there at the start, without rating or votes
  None,         \* no snapshot, nothing seen
  Requests      \* the transactions that may begin

VARIABLES
  db,         \* the committed base tables
  view,       \* the committed contents of the views
  missed,     \* history: views filled from a snapshot that missed a commit
  request,    \* per backend: what its transaction does
  step,       \* per backend: the place of its plan it is at
  snapshot,   \* per backend: of the refresh that waits for its lock
  draft,      \* per backend: the contents it has computed
  late,       \* per backend: the views among those that missed a commit
  seen        \* per backend: what the dump's first query returned

tables == <<db, view, missed>>
vars == <<tables, request, step, snapshot, draft, late, seen>>

Views == {"course_rating", "prof_rating", "course_review_rating", "prof_review_rating",
          "prof_teaches_course", "course_search_index", "prof_search_index"}
Sides == {"course", "prof"}   \* a review's two halves are voted on apart

\* "empty": a review without the rating that counts (liked is NULL).
States == {"absent", "empty", "filled"}
Database == [review: [Reviews -> States], votes: [Sides -> SUBSET (Reviews \X Voters)],
             classes: SUBSET Classes]

ReviewWrite == [op: {"review"}, review: Reviews, to: States]
Vote == [op: {"vote"}, side: Sides, vote: Reviews \X Voters, given: BOOLEAN]
AccountEnd == [op: {"account"}, voter: Voters]
\* Two statements that leave a class there or not.
Import == [op: {"import"}, class: Classes, first: BOOLEAN, last: BOOLEAN]
Vacuum == [op: {"vacuum_sections", "vacuum_profs"}]
Query == [op: {"dump"}] \cup [op: {"search_courses", "search_profs"}, code_only: BOOLEAN]
Change == ReviewWrite \cup Vote \cup AccountEnd \cup Import \cup Vacuum
Idle == [op |-> "idle"]

ASSUME RatingAssumption == Requests \subseteq Change \cup Query /\ Unrated \subseteq Reviews

-----------------------------------------------------------------------------
(* The views a transaction locks, in order.                                *)

\* Faulty variant: the triggers on review in the other order.
OnReviewSwapped == <<"prof_rating", "course_rating">>
\* Faulty variant: without the trigger refresh_course_rating.
OnReviewProfOnly == <<"prof_rating">>
\* Statement triggers of one table fire in the order of their names.
OnReview == <<"course_rating", "prof_rating">>

\* Faulty variant: both tables' triggers refresh the course's counts.
OnVoteCourse(side) == <<"course_review_rating">>
OnVote(side) == IF side = "course" THEN <<"course_review_rating">> ELSE <<"prof_review_rating">>

\* Faulty variant: an index before the views it copies.
OnSectionIndexFirst == <<"course_search_index", "course_rating", "prof_rating",
                         "prof_teaches_course", "prof_search_index">>
OnSection == <<"course_rating", "prof_rating", "prof_teaches_course",
               "course_search_index", "prof_search_index">>

(* A foreign key's cascade queues the triggers of its statements behind    *)
(* those of the statement that set it off: deleting a review deletes its   *)
(* votes, deleting a user empties reviews' user_id and deletes votes,      *)
(* deleting a professor deletes meetings and empties reviews' prof_id.     *)
(* The two statements of an import are those on sections or on meetings;   *)
(* a vacuum that deletes sections cascades to meetings and has the plan of *)
(* an import, one that finds none has half of it.                          *)
Plan(q) ==
  CASE q.op = "review" -> IF q.to = "absent" THEN OnReview \o OnVote("course") \o OnVote("prof")
                                             ELSE OnReview
    [] q.op = "vote" -> OnVote(q.side)
    [] q.op = "account" -> OnReview \o OnVote("course") \o OnVote("prof")
    [] q.op = "import" -> OnSection \o OnSection
    [] q.op = "vacuum_sections" -> OnSection
    [] q.op = "vacuum_profs" -> OnSection \o OnReview
    [] q.op = "dump" -> <<"course_rating", "prof_teaches_course", "prof_rating", "prof_teaches_course">>
    [] q.op = "search_courses" -> IF q.code_only THEN <<"course_search_index">>
                                  ELSE <<"course_search_index", "prof_search_index">>
    [] q.op = "search_profs" -> IF q.code_only THEN <<"course_search_index", "prof_search_index">>
                                ELSE <<"prof_search_index", "course_search_index">>
    [] OTHER -> <<>>

\* The view a backend wants next, and those it holds.
Wanted(b) == Plan(request[b])[step[b]]
\* Faulty variant: the dump's queries each in a transaction of its own.
LockedByStatement(b) ==
  LET first == IF request[b].op = "dump" /\ step[b] > 2 THEN 3 ELSE 1 IN
  {Plan(request[b])[i] : i \in first..(step[b] - 1)}
Locked(b) == {Plan(request[b])[i] : i \in 1..(step[b] - 1)}
More(b) == step[b] <= Len(Plan(request[b]))
Reads(b) == request[b] \in Query
Writes(b) == request[b] \in Change

\* b cannot have the lock while c, of which one at least writes, holds the view.
WaitsFor(b, c) ==
  /\ b # c /\ More(b) /\ (Writes(b) => snapshot[b] # None)
  /\ Wanted(b) \in Locked(c) /\ ~(Reads(b) /\ Reads(c))

-----------------------------------------------------------------------------
(* The base tables as a change leaves them, and the views over them.       *)

\* at: the place in the plan; an import's second statement comes halfway.
Applied(d, q, at) ==
  CASE q.op = "review" ->
         [d EXCEPT !.review[q.review] = q.to,
                   !.votes = [s \in Sides |-> IF q.to # "absent" THEN @[s]
                                              ELSE {v \in @[s] : v[1] # q.review}]]
    [] q.op = "vote" ->
         [d EXCEPT !.votes[q.side] = IF q.given THEN @ \cup {q.vote} ELSE @ \ {q.vote}]
    [] q.op = "account" ->
         [d EXCEPT !.votes = [s \in Sides |-> {v \in @[s] : v[2] # q.voter}]]
    [] q.op = "import" ->
         LET there == IF at <= Len(OnSection) THEN q.first ELSE q.last IN
         [d EXCEPT !.classes = IF there THEN @ \cup {q.class} ELSE @ \ {q.class}]
    [] OTHER -> d

Present(d) == {r \in Reviews : d.review[r] # "absent"}
Rated(d) == {r \in Reviews : d.review[r] = "filled"}
VotesOf(d, side, r) == {v \in d.votes[side] : v[1] = r}

\* w: the views as the transaction sees them.
Content(v, d, w) ==
  CASE v \in {"course_rating", "prof_rating"} -> Rated(d)
    [] v = "course_review_rating" -> [r \in Present(d) |-> VotesOf(d, "course", r)]
    [] v = "prof_review_rating" -> [r \in Present(d) |-> VotesOf(d, "prof", r)]
    [] v = "prof_teaches_course" -> d.classes
    [] v = "course_search_index" ->
         [ratings |-> w["course_rating"], taught |-> w["prof_teaches_course"], offered |-> d.classes]
    [] v = "prof_search_index" ->
         [ratings |-> w["prof_rating"], taught |-> w["prof_teaches_course"], offered |-> {}]

-----------------------------------------------------------------------------
FirstDatabase ==
  [review |-> [r \in Reviews |-> IF r \in Unrated THEN "empty" ELSE "absent"], votes |-> [s \in Sides |-> {}], classes |-> {}]
EmptyView(v) ==
  CASE v \in {"course_rating", "prof_rating", "prof_teaches_course"} -> {}
    [] v \in {"course_review_rating", "prof_review_rating"} -> [r \in {} |-> {}]
    [] OTHER -> [ratings |-> {}, taught |-> {}, offered |-> {}]

Blank == [v \in Views |-> EmptyView(v)]

Init ==
  /\ db = FirstDatabase
  /\ view = Blank /\ missed = {}
  /\ request = [b \in Backends |-> Idle] /\ step = [b \in Backends |-> 1]
  /\ snapshot = [b \in Backends |-> None] /\ draft = [b \in Backends |-> Blank]
  /\ late = [b \in Backends |-> {}] /\ seen = [b \in Backends |-> None]

\* q and p write, or delete by a cascade, the same row, or one that the other's
\* refers to.
SameRows(q, p) ==
  \/ q.op = "review" /\ p.op = "review" /\ q.review = p.review
  \/ q.op = "vote" /\ p.op = "vote" /\ q.side = p.side /\ q.vote = p.vote
  \/ q.op = "import" /\ p.op = "import" /\ q.class = p.class
  \/ q.op = "account" /\ p.op = "account" /\ q.voter = p.voter
  \/ q.op = "vote" /\ p.op = "account" /\ q.vote[2] = p.voter
  \/ q.op = "vote" /\ p.op = "review" /\ p.to = "absent" /\ q.vote[1] = p.review
  \/ /\ q.op = "review" /\ q.to = "absent" /\ p.op = "account"
     /\ \E s \in Sides : <<q.review, p.voter>> \in db.votes[s]

\* What the tables' constraints allow.
Allowed(q) ==
  /\ q.op = "review" => ~(q.to = "absent" /\ db.review[q.review] = "absent")
  /\ q.op = "vote" => /\ q.given <=> q.vote \notin db.votes[q.side]
                      /\ db.review[q.vote[1]] # "absent"

End(b) ==
  /\ request' = [request EXCEPT ![b] = Idle] /\ step' = [step EXCEPT ![b] = 1]
  /\ snapshot' = [snapshot EXCEPT ![b] = None] /\ draft' = [draft EXCEPT ![b] = Blank]
  /\ late' = [late EXCEPT ![b] = {}] /\ seen' = [seen EXCEPT ![b] = None]

\* A query begins, or the statement of a change has its rows: it waits for a
\* change that has one of them to end, without a view locked.
Begin(b, q) ==
  /\ request[b] = Idle
  /\ q \in Change => /\ Allowed(q)
                    /\ \A c \in Backends : ~SameRows(q, request[c]) /\ ~SameRows(request[c], q)
  /\ request' = [request EXCEPT ![b] = q]
  /\ UNCHANGED <<tables, step, snapshot, draft, late, seen>>

\* refresh_view, until REFRESH asks for its lock.
Snapshot(b) ==
  /\ Writes(b) /\ More(b) /\ snapshot[b] = None
  /\ snapshot' = [snapshot EXCEPT ![b] = db]
  /\ UNCHANGED <<tables, request, step, draft, late, seen>>

\* The rest of the REFRESH.  What was committed while it waited is missed when
\* the view would now have other contents.
Fill(b) ==
  /\ Writes(b) /\ More(b) /\ snapshot[b] # None
  /\ \A c \in Backends : ~WaitsFor(b, c)
  /\ LET v == Wanted(b)
         filled(d) == Content(v, Applied(d, request[b], step[b]), draft[b]) IN
     /\ draft' = [draft EXCEPT ![b][v] = filled(snapshot[b])]
     /\ late' = [late EXCEPT ![b] = IF filled(snapshot[b]) = filled(db) THEN @ \ {v} ELSE @ \cup {v}]
  /\ step' = [step EXCEPT ![b] = @ + 1]
  /\ snapshot' = [snapshot EXCEPT ![b] = None]
  /\ UNCHANGED <<tables, request, seen>>

Commit(b) ==
  /\ Writes(b) /\ ~More(b)
  /\ db' = Applied(db, request[b], step[b])
  /\ view' = [v \in Views |-> IF v \in Locked(b) THEN draft[b][v] ELSE view[v]]
  /\ missed' = (missed \ Locked(b)) \cup late[b]
  /\ End(b)

\* A query has its next lock, which for the dump ends its first statement
\* when both views of that are locked.
Share(b) ==
  /\ Reads(b) /\ More(b)
  /\ \A c \in Backends : ~WaitsFor(b, c)
  /\ step' = [step EXCEPT ![b] = @ + 1]
  /\ seen' = [seen EXCEPT ![b] = IF request[b].op = "dump" /\ step[b] = 2
                                 THEN [ratings |-> view["course_rating"], missed |-> "course_rating" \in missed,
                                       taught |-> view["prof_teaches_course"]]
                                 ELSE @]
  /\ UNCHANGED <<tables, request, snapshot, draft, late>>

Answer(b) == Reads(b) /\ ~More(b) /\ End(b) /\ UNCHANGED tables

\* A statement fails, the client goes away, or PostgreSQL ends a deadlock.
Rollback(b) == request[b] # Idle /\ End(b) /\ UNCHANGED tables

Next ==
  \E b \in Backends :
    \/ \E q \in Requests : Begin(b, q)
    \/ Snapshot(b) \/ Fill(b) \/ Commit(b)
    \/ Share(b) \/ Answer(b)
    \/ Rollback(b)

Spec == Init /\ [][Next]_vars

-----------------------------------------------------------------------------
(* Properties.                                                             *)

Shown(w) ==
  /\ DOMAIN w = Views
  /\ w["course_rating"] \subseteq Reviews /\ w["prof_rating"] \subseteq Reviews
  /\ w["prof_teaches_course"] \subseteq Classes

\* Tables, views and transactions have the values their declarations allow, and
\* no transaction is past its plan.
TypeOK ==
  /\ db \in Database /\ Shown(view) /\ missed \subseteq Views
  /\ request \in [Backends -> Change \cup Query \cup {Idle}]
  /\ step \in [Backends -> 1..11] /\ \A b \in Backends : step[b] <= Len(Plan(request[b])) + 1
  /\ snapshot \in [Backends -> Database \cup {None}]
  /\ DOMAIN draft = Backends /\ \A b \in Backends : Shown(draft[b])
  /\ late \in [Backends -> SUBSET Views]

(* The ratings of professors are those of the committed reviews, whoever   *)
(* refreshed them last and however the refreshes waited for one another:   *)
(* every transaction that writes them has locked course_rating before it   *)
(* takes this view's snapshot.                                             *)
ProfRatingCurrent == view["prof_rating"] = Rated(db)

(* The ratings of courses have no view locked before them: they are those  *)
(* of the committed reviews unless a refresh has waited while a review was *)
(* committed.                                                              *)
CourseRatingMissesOnlyOvertaken == "course_rating" \notin missed => view["course_rating"] = Rated(db)

(* The vote counts that are shown are those of the committed votes, unless *)
(* a refresh was overtaken; a review without a count is one nobody has     *)
(* voted on since it was written.                                          *)
CountsAreVotes ==
  \A s \in Sides :
    LET v == IF s = "course" THEN "course_review_rating" ELSE "prof_review_rating" IN
    v \notin missed =>
      /\ DOMAIN view[v] \subseteq Present(db)
      /\ \A r \in Present(db) : VotesOf(db, s, r) = IF r \in DOMAIN view[v] THEN view[v][r] ELSE {}

(* Both search indexes and the list of who teaches what are of the same    *)
(* committed timetable.                                                    *)
IndexesFollowTimetable ==
  /\ view["prof_teaches_course"] = db.classes
  /\ view["course_search_index"].taught = db.classes
  /\ view["course_search_index"].offered = db.classes
  /\ view["prof_search_index"].taught = db.classes

(* An import repairs what overtaken refreshes left behind: its second      *)
(* statement refreshes under the locks of the first, so its commit leaves  *)
(* the course ratings and both search indexes with all committed reviews.  *)
ImportRepairs ==
  [][\A b \in Backends :
       request[b].op = "import" /\ Commit(b) =>
         /\ view'["course_rating"] = Rated(db') /\ view'["course_search_index"].ratings = Rated(db')
         /\ view'["prof_search_index"].ratings = Rated(db')]_vars

(* The dump's two queries answer for one moment: what a professor teaches  *)
(* is the same in both, and so are the reviews counted unless the course's *)
(* count had been overtaken.                                               *)
DumpIsOneMoment ==
  \A b \in Backends :
    request[b].op = "dump" /\ step[b] = 5 =>
      /\ seen[b].taught = view["prof_teaches_course"]
      /\ ~seen[b].missed => seen[b].ratings = view["prof_rating"]

\* Backends each of which waits for another of them, and no fewer of them do.
Waiting(S) == S # {} /\ \A b \in S : \E c \in S : WaitsFor(b, c)
Deadlocked(S) == Waiting(S) /\ \A T \in (SUBSET S) \ {S} : ~Waiting(T)

(* Only a search for professors and a change of the timetable lock views   *)
(* in opposite order: reviews, votes, accounts, dumps and course searches  *)
(* are never the victims of a deadlock among the views.                    *)
DeadlockIsSearch ==
  \A S \in SUBSET Backends : Deadlocked(S) =>
    \A b \in S : request[b].op \in {"search_profs", "import", "vacuum_sections", "vacuum_profs"}
=============================================================================
