-------------------------- MODULE RatingViewsProofs --------------------------
(***************************************************************************)
(* What RatingViews promises for any number of sessions, reviews, voters   *)
(* and classes.  Every change that may alter ratings or the timetable      *)
(* locks course_rating first, so from its second view on both stand still  *)
(* for it (HeldStill, Listed); what it refreshed before that is right or   *)
(* late (DraftedInTime, CountsDrafted).                                    *)
(***************************************************************************)
EXTENDS RatingViews, SequenceTheorems, TLAPS

Kinds == Change \cup Query \cup {Idle}

\* The plans, written out.
LEMMA Concat2And1 ==
  ASSUME NEW a, NEW b, NEW c
  PROVE  <<a, b>> \o <<c>> = <<a, b, c>>
<1>1. <<a, b>> \in Seq({a, b, c}) /\ <<c>> \in Seq({a, b, c}) /\ <<a, b, c>> \in Seq({a, b, c})
  OBVIOUS
<1>2. Len(<<a, b>> \o <<c>>) = 3 /\ <<a, b>> \o <<c>> \in Seq({a, b, c})
  BY <1>1
<1>3. \A i \in 1..3 : (<<a, b>> \o <<c>>)[i] = <<a, b, c>>[i]
  BY <1>1
<1> QED BY <1>1, <1>2, <1>3, SeqEqual

LEMMA Concat3And1 ==
  ASSUME NEW a, NEW b, NEW c, NEW d
  PROVE  <<a, b, c>> \o <<d>> = <<a, b, c, d>>
<1> DEFINE S == {a, b, c, d}
<1>1. <<a, b, c>> \in Seq(S) /\ <<d>> \in Seq(S) /\ <<a, b, c, d>> \in Seq(S)
  OBVIOUS
<1>2. Len(<<a, b, c>> \o <<d>>) = 4 /\ <<a, b, c>> \o <<d>> \in Seq(S)
  BY <1>1
<1>3. \A i \in 1..4 : (<<a, b, c>> \o <<d>>)[i] = <<a, b, c, d>>[i]
  BY <1>1
<1> QED BY <1>1, <1>2, <1>3, SeqEqual

LEMMA Concat5And2 ==
  ASSUME NEW a, NEW b, NEW c, NEW d, NEW e
  PROVE  <<a, b, c, d, e>> \o <<a, b>> = <<a, b, c, d, e, a, b>>
<1> DEFINE S == {a, b, c, d, e}
           s == <<a, b, c, d, e>>
           t == <<a, b>>
           u == <<a, b, c, d, e, a, b>>
<1>1. s \in Seq(S) /\ t \in Seq(S) /\ u \in Seq(S) /\ Len(s) = 5 /\ Len(t) = 2 /\ Len(u) = 7
  OBVIOUS
<1>2. Len(s \o t) = 7 /\ s \o t \in Seq(S)
  BY <1>1
<1>3. \A i \in 1..7 : (s \o t)[i] = u[i]
  <2>1. \A i \in 1..5 : (s \o t)[i] = s[i] /\ s[i] = u[i]
    BY <1>1
  <2>2. \A i \in 6..7 : (s \o t)[i] = t[i - 5] /\ t[i - 5] = u[i]
    BY <1>1
  <2> QED BY <2>1, <2>2
<1> QED BY <1>1, <1>2, <1>3, SeqEqual

LEMMA Concat5And5 ==
  ASSUME NEW a, NEW b, NEW c, NEW d, NEW e
  PROVE  <<a, b, c, d, e>> \o <<a, b, c, d, e>> = <<a, b, c, d, e, a, b, c, d, e>>
<1> DEFINE S == {a, b, c, d, e}
           s == <<a, b, c, d, e>>
           u == <<a, b, c, d, e, a, b, c, d, e>>
<1>1. s \in Seq(S) /\ u \in Seq(S) /\ Len(s) = 5 /\ Len(u) = 10
  OBVIOUS
<1>2. Len(s \o s) = 10 /\ s \o s \in Seq(S)
  BY <1>1
<1>3. \A i \in 1..10 : (s \o s)[i] = u[i]
  <2>1. \A i \in 1..5 : (s \o s)[i] = s[i] /\ s[i] = u[i]
    BY <1>1
  <2>2. \A i \in 6..10 : (s \o s)[i] = s[i - 5] /\ s[i - 5] = u[i]
    BY <1>1
  <2> QED BY <2>1, <2>2
<1> QED BY <1>1, <1>2, <1>3, SeqEqual

LEMMA ReviewPlans ==
  ASSUME NEW q, q.op \in {"review", "account"}
  PROVE  \/ q.op = "review" /\ Plan(q) = <<"course_rating", "prof_rating">>
         \/ Plan(q) = <<"course_rating", "prof_rating", "course_review_rating", "prof_review_rating">>
<1> DEFINE All == OnReview \o OnVote("course") \o OnVote("prof")
<1>1. All = <<"course_rating", "prof_rating", "course_review_rating", "prof_review_rating">>
  <2>1. OnVote("course") = <<"course_review_rating">> /\ OnVote("prof") = <<"prof_review_rating">>
    BY DEF OnVote
  <2>2. OnReview \o <<"course_review_rating">> = <<"course_rating", "prof_rating", "course_review_rating">>
    BY Concat2And1 DEF OnReview
  <2> QED BY <2>1, <2>2, Concat3And1
<1>2. Plan(q) = IF q.op = "review" /\ q.to # "absent" THEN OnReview ELSE All
  <2> HIDE DEF All
  <2>1. All = OnReview \o OnVote("course") \o OnVote("prof")
    BY DEF All
  <2>2. Plan(q) = CASE q.op = "review" -> (IF q.to = "absent" THEN All ELSE OnReview)
                    [] q.op = "account" -> All
    BY <2>1 DEF Plan
  <2> QED BY <2>2
<1> QED BY <1>1, <1>2 DEF OnReview

LEMMA VotePlans ==
  ASSUME NEW q, q.op = "vote"
  PROVE  Plan(q) = <<"course_review_rating">> \/ Plan(q) = <<"prof_review_rating">>
  BY DEF Plan, OnVote

Five == <<"course_rating", "prof_rating", "prof_teaches_course", "course_search_index", "prof_search_index">>
Seven == <<"course_rating", "prof_rating", "prof_teaches_course", "course_search_index", "prof_search_index",
           "course_rating", "prof_rating">>
Ten == <<"course_rating", "prof_rating", "prof_teaches_course", "course_search_index", "prof_search_index",
         "course_rating", "prof_rating", "prof_teaches_course", "course_search_index", "prof_search_index">>

LEMMA SectionPlans ==
  ASSUME NEW q, q.op \in {"import", "vacuum_sections", "vacuum_profs"}
  PROVE  Plan(q) = Five \/ Plan(q) = Seven \/ Plan(q) = Ten
<1>1. CASE q.op = "vacuum_sections"
  BY <1>1 DEF Plan, OnSection, Five
<1>2. CASE q.op = "vacuum_profs"
  BY <1>2, Concat5And2 DEF Plan, OnSection, OnReview, Seven
<1>3. CASE q.op = "import"
  BY <1>3, Concat5And5 DEF Plan, OnSection, Ten
<1> QED BY <1>1, <1>2, <1>3

LEMMA QueryPlans ==
  ASSUME NEW q \in Query
  PROVE  \/ q.op = "dump" /\ Plan(q) = <<"course_rating", "prof_teaches_course", "prof_rating", "prof_teaches_course">>
         \/ Plan(q) = <<"course_search_index">>
         \/ Plan(q) = <<"course_search_index", "prof_search_index">>
         \/ q.op = "search_profs" /\ Plan(q) = <<"prof_search_index", "course_search_index">>
  BY DEF Plan, Query

LEMMA IdlePlan == Plan(Idle) = <<>>
  BY DEF Plan, Idle

\* A plan is at most ten views long.
LEMMA PlanTyped ==
  ASSUME NEW q \in Kinds
  PROVE  /\ Len(Plan(q)) \in 0..10
         /\ \A i \in 1..Len(Plan(q)) : Plan(q)[i] \in Views
<1>1. CASE q \in Query
  BY <1>1, QueryPlans DEF Views
<1>2. CASE q = Idle
  BY <1>2, IdlePlan
<1>3. CASE q \in ReviewWrite \cup AccountEnd
  <2>1. q.op \in {"review", "account"}
    BY <1>3 DEF ReviewWrite, AccountEnd
  <2> QED BY <2>1, ReviewPlans DEF Views
<1>4. CASE q \in Vote
  <2>1. q.op = "vote"
    BY <1>4 DEF Vote
  <2>2. Plan(q) = <<"course_review_rating">> \/ Plan(q) = <<"prof_review_rating">>
    BY <2>1, VotePlans
  <2>3. CASE Plan(q) = <<"course_review_rating">>
    BY <2>3 DEF Views
  <2>4. CASE Plan(q) = <<"prof_review_rating">>
    BY <2>4 DEF Views
  <2> QED BY <2>2, <2>3, <2>4
<1>5. CASE q \in Import \cup Vacuum
  <2>1. q.op \in {"import", "vacuum_sections", "vacuum_profs"}
    BY <1>5 DEF Import, Vacuum
  <2>2. CASE Plan(q) = Five
    BY <2>2 DEF Five, Views
  <2>3. CASE Plan(q) = Seven
    BY <2>3 DEF Seven, Views
  <2>4. CASE Plan(q) = Ten
    BY <2>4 DEF Ten, Views
  <2> QED BY <2>1, <2>2, <2>3, <2>4, SectionPlans
<1> QED BY <1>1, <1>2, <1>3, <1>4, <1>5 DEF Kinds, Change

\* A change that is not a vote locks the ratings of courses, then of professors.
LEMMA RatingsFirst ==
  ASSUME NEW q \in Change
  PROVE  IF q.op = "vote" THEN Plan(q) = <<"course_review_rating">> \/ Plan(q) = <<"prof_review_rating">>
         ELSE Len(Plan(q)) >= 2 /\ Plan(q)[1] = "course_rating" /\ Plan(q)[2] = "prof_rating"
<1>1. q.op \in {"review", "account", "vote", "import", "vacuum_sections", "vacuum_profs"}
  BY DEF Change, ReviewWrite, AccountEnd, Vote, Import, Vacuum
<1>2. CASE q.op \in {"review", "account"}
  <2>1. \/ Plan(q) = <<"course_rating", "prof_rating">>
        \/ Plan(q) = <<"course_rating", "prof_rating", "course_review_rating", "prof_review_rating">>
    BY <1>2, ReviewPlans
  <2>2. CASE Plan(q) = <<"course_rating", "prof_rating">>
    BY <1>2, <2>2
  <2>3. CASE Plan(q) = <<"course_rating", "prof_rating", "course_review_rating", "prof_review_rating">>
    BY <1>2, <2>3
  <2> QED BY <2>1, <2>2, <2>3
<1>3. CASE q.op = "vote"
  BY <1>3, VotePlans
<1>4. CASE q.op \in {"import", "vacuum_sections", "vacuum_profs"}
  <2>1. CASE Plan(q) = Five
    BY <1>4, <2>1 DEF Five
  <2>2. CASE Plan(q) = Seven
    BY <1>4, <2>2 DEF Seven
  <2>3. CASE Plan(q) = Ten
    BY <1>4, <2>3 DEF Ten
  <2> QED BY <1>4, <2>1, <2>2, <2>3, SectionPlans
<1> QED BY <1>1, <1>2, <1>3, <1>4

-----------------------------------------------------------------------------
(* What a change does to the ratings depends on them alone.                *)

LEMMA AppliedTyped ==
  ASSUME NEW d \in Database, NEW q \in Change, NEW i \in Nat
  PROVE  Applied(d, q, i) \in Database
<1>1. CASE q \in ReviewWrite
  BY <1>1 DEF Applied, Database, ReviewWrite, Sides
<1>2. CASE q \in Vote
  <2>1. q.op = "vote" /\ q.vote \in Reviews \X Voters /\ q.side \in Sides
    BY <1>2 DEF Vote
  <2> DEFINE new == IF q.given THEN d.votes[q.side] \cup {q.vote} ELSE d.votes[q.side] \ {q.vote}
  <2>2. Applied(d, q, i) = [d EXCEPT !.votes[q.side] = new]
    BY <2>1 DEF Applied
  <2>3. new \in SUBSET (Reviews \X Voters)
    BY <2>1 DEF Database
  <2> HIDE DEF new
  <2> QED BY <2>1, <2>2, <2>3 DEF Database
<1>3. CASE q \in AccountEnd
  BY <1>3 DEF Applied, Database, AccountEnd
<1>4. CASE q \in Import
  BY <1>4 DEF Applied, Database, Import
<1>5. CASE q \in Vacuum
  BY <1>5 DEF Applied, Vacuum
<1> QED BY <1>1, <1>2, <1>3, <1>4, <1>5 DEF Change

LEMMA RatedByChange ==
  ASSUME NEW d \in Database, NEW q \in Change, NEW i \in Nat
  PROVE  Rated(Applied(d, q, i)) =
           IF q.op # "review" THEN Rated(d)
           ELSE IF q.to = "filled" THEN Rated(d) \cup {q.review} ELSE Rated(d) \ {q.review}
<1>1. CASE q \in ReviewWrite
  <2>1. q.op = "review" /\ q.review \in Reviews /\ q.to \in States
    BY <1>1 DEF ReviewWrite
  <2>2. Applied(d, q, i).review = [d.review EXCEPT ![q.review] = q.to]
    BY <2>1 DEF Applied, Database
  <2>3. d.review \in [Reviews -> States]
    BY DEF Database
  <2> QED BY <2>1, <2>2, <2>3 DEF Rated
<1>2. CASE q \in Vote \cup AccountEnd \cup Import \cup Vacuum
  <2>1. q.op \in {"vote", "account", "import", "vacuum_sections", "vacuum_profs"}
    BY <1>2 DEF Vote, AccountEnd, Import, Vacuum
  <2>2. Applied(d, q, i).review = d.review
    BY <2>1 DEF Applied, Database
  <2> QED BY <2>1, <2>2 DEF Rated
<1> QED BY <1>1, <1>2 DEF Change

LEMMA SameRatings ==
  ASSUME NEW d \in Database, NEW e \in Database, NEW q \in Change, NEW i \in Nat, NEW j \in Nat,
         Rated(d) = Rated(e)
  PROVE  Rated(Applied(d, q, i)) = Rated(Applied(e, q, j))
  BY RatedByChange

-----------------------------------------------------------------------------
(* Types.                                                                  *)

LEMMA IdleIsNoRequest == Idle \notin Change /\ Idle \notin Query
  BY DEF Idle, Change, ReviewWrite, Vote, AccountEnd, Import, Vacuum, Query

LEMMA ChangesAreNoQueries ==
  ASSUME NEW q \in Change PROVE q \notin Query
  BY DEF Change, ReviewWrite, Vote, AccountEnd, Import, Vacuum, Query

LEMMA BlankShown == Shown(Blank)
  BY DEF Shown, Blank, EmptyView, Views

LEMMA FilledShown ==
  ASSUME NEW w, Shown(w), NEW d \in Database, NEW v \in Views
  PROVE  Shown([w EXCEPT ![v] = Content(v, d, w)])
<1>1. Rated(d) \subseteq Reviews /\ d.classes \subseteq Classes
  BY DEF Rated, Database
<1>2. Content("course_rating", d, w) = Rated(d) /\ Content("prof_rating", d, w) = Rated(d)
      /\ Content("prof_teaches_course", d, w) = d.classes
  BY DEF Content
<1> DEFINE x == Content(v, d, w)
<1>3. /\ v = "course_rating" => x \subseteq Reviews
      /\ v = "prof_rating" => x \subseteq Reviews
      /\ v = "prof_teaches_course" => x \subseteq Classes
  BY <1>1, <1>2
<1> HIDE DEF x
<1> DEFINE u == [w EXCEPT ![v] = x]
<1>4. DOMAIN u = Views /\ \A y \in Views : u[y] = IF y = v THEN x ELSE w[y]
  BY DEF Shown
<1>5. u["course_rating"] \subseteq Reviews /\ u["prof_rating"] \subseteq Reviews
      /\ u["prof_teaches_course"] \subseteq Classes
  <2> HIDE DEF u
  <2> QED BY <1>3, <1>4 DEF Shown, Views
<1>6. Shown(u)
  BY <1>4, <1>5 DEF Shown
<1> QED BY <1>6 DEF x

LEMMA EndTyped ==
  ASSUME TypeOK, NEW b \in Backends, End(b)
  PROVE  /\ request' \in [Backends -> Change \cup Query \cup {Idle}]
         /\ step' \in [Backends -> 1..11] /\ \A c \in Backends : step'[c] <= Len(Plan(request'[c])) + 1
         /\ snapshot' \in [Backends -> Database \cup {None}]
         /\ DOMAIN draft' = Backends /\ \A c \in Backends : Shown(draft'[c])
         /\ late' \in [Backends -> SUBSET Views]
<1>1. \A c \in Backends : step'[c] <= Len(Plan(request'[c])) + 1
  BY IdlePlan DEF TypeOK, End
<1>2. DOMAIN draft' = Backends /\ \A c \in Backends : Shown(draft'[c])
  BY BlankShown DEF TypeOK, End
<1> QED BY <1>1, <1>2 DEF TypeOK, End

LEMMA Advanced ==
  ASSUME TypeOK, NEW b \in Backends, Len(Plan(request[b])) \in 0..10, step[b] \in 1..Len(Plan(request[b])),
         step' = [step EXCEPT ![b] = step[b] + 1], request' = request
  PROVE  step' \in [Backends -> 1..11] /\ \A c \in Backends : step'[c] <= Len(Plan(request'[c])) + 1
<1>1. step[b] + 1 \in 1..11 /\ step[b] + 1 <= Len(Plan(request[b])) + 1
  <2> DEFINE n == Len(Plan(request[b]))
             k == step[b]
  <2>1. n \in 0..10 /\ k \in 1..n
    OBVIOUS
  <2> HIDE DEF n, k
  <2>2. k + 1 \in 1..11 /\ k + 1 <= n + 1
    BY <2>1
  <2> QED BY <2>2 DEF n, k
<1>2. step' \in [Backends -> 1..11]
  BY <1>1 DEF TypeOK
<1>3. \A c \in Backends : step'[c] <= Len(Plan(request[c])) + 1
  BY <1>1 DEF TypeOK
<1> QED BY <1>2, <1>3

LEMMA InitTyped == Init => TypeOK
<1> SUFFICES ASSUME Init PROVE TypeOK
  OBVIOUS
<1>1. db \in Database
  BY DEF Init, FirstDatabase, Database, States, Sides
<1>2. \A b \in Backends : step[b] <= Len(Plan(request[b])) + 1
  BY IdlePlan DEF Init
<1> QED BY <1>1, <1>2, BlankShown DEF Init, TypeOK

LEMMA StepTyped == TypeOK /\ [Next]_vars => TypeOK'
<1> SUFFICES ASSUME TypeOK, [Next]_vars PROVE TypeOK'
  OBVIOUS
<1> USE DEF tables
<1>1. ASSUME NEW b \in Backends, NEW q \in Requests, Begin(b, q)
      PROVE  TypeOK'
  <2>1. q \in Change \cup Query
    BY RatingAssumption
  <2>2. \A c \in Backends : step'[c] <= Len(Plan(request'[c])) + 1
    <3> SUFFICES ASSUME NEW c \in Backends PROVE step'[c] <= Len(Plan(request'[c])) + 1
      OBVIOUS
    <3>1. request[b] = Idle /\ step' = step /\ request' = [request EXCEPT ![b] = q]
      BY <1>1 DEF Begin
    <3>2. step[b] <= Len(Plan(Idle)) + 1 /\ step[b] \in 1..11 /\ Len(Plan(Idle)) = 0
      BY <3>1, IdlePlan DEF TypeOK
    <3>3. Len(Plan(q)) \in 0..10
      BY <2>1, PlanTyped DEF Kinds
    <3>4. CASE c = b
      BY <3>1, <3>2, <3>3, <3>4 DEF TypeOK
    <3>5. CASE c # b
      BY <3>1, <3>5 DEF TypeOK
    <3> QED BY <3>4, <3>5
  <2> QED BY <1>1, <2>1, <2>2 DEF TypeOK, Begin
<1>2. ASSUME NEW b \in Backends, Snapshot(b)
      PROVE  TypeOK'
  BY <1>2 DEF TypeOK, Snapshot
<1>3. ASSUME NEW b \in Backends, Fill(b)
      PROVE  TypeOK'
  <2>1. request[b] \in Change /\ snapshot[b] \in Database /\ step[b] \in 1..Len(Plan(request[b])) /\ Wanted(b) \in Views
        /\ Len(Plan(request[b])) \in 0..10
    <3>1. request[b] \in Change /\ snapshot[b] \in Database
      BY <1>3 DEF TypeOK, Fill, Writes
    <3>2. /\ Len(Plan(request[b])) \in 0..10
          /\ \A i \in 1..Len(Plan(request[b])) : Plan(request[b])[i] \in Views
      BY <3>1, PlanTyped DEF Kinds
    <3>3. step[b] <= Len(Plan(request[b])) /\ step[b] \in 1..11
      BY <1>3 DEF TypeOK, Fill, More
    <3>4. step[b] \in 1..Len(Plan(request[b]))
      BY <3>2, <3>3
    <3> QED BY <3>1, <3>2, <3>4 DEF Wanted
  <2> DEFINE now == Applied(snapshot[b], request[b], step[b])
  <2>2. now \in Database
    BY <2>1, AppliedTyped
  <2> HIDE DEF now
  <2>3. draft' = [draft EXCEPT ![b] = [draft[b] EXCEPT ![Wanted(b)] = Content(Wanted(b), now, draft[b])]]
    BY <1>3 DEF Fill, now
  <2>4. Shown([draft[b] EXCEPT ![Wanted(b)] = Content(Wanted(b), now, draft[b])])
    BY <2>1, <2>2, FilledShown DEF TypeOK
  <2>5. DOMAIN draft' = Backends /\ \A c \in Backends : Shown(draft'[c])
    BY <2>3, <2>4 DEF TypeOK
  <2>6. step' = [step EXCEPT ![b] = step[b] + 1] /\ request' = request
    BY <1>3 DEF Fill
  <2>9. step' \in [Backends -> 1..11] /\ \A c \in Backends : step'[c] <= Len(Plan(request'[c])) + 1
    BY <2>1, <2>6, Advanced
  <2>7. late' \in [Backends -> SUBSET Views]
    BY <1>3, <2>1 DEF TypeOK, Fill
  <2>8. snapshot' \in [Backends -> Database \cup {None}]
    BY <1>3 DEF TypeOK, Fill
  <2> QED BY <1>3, <2>5, <2>7, <2>8, <2>9 DEF TypeOK, Fill
<1>4. ASSUME NEW b \in Backends, Commit(b)
      PROVE  TypeOK'
  <2>1. request[b] \in Change /\ step[b] \in Nat
    BY <1>4 DEF TypeOK, Commit, Writes
  <2>2. db' \in Database
    BY <1>4, <2>1, AppliedTyped DEF TypeOK, Commit
  <2>3. Shown(view')
    BY <1>4 DEF TypeOK, Commit, Shown, Views
  <2>4. missed' \subseteq Views
    BY <1>4 DEF TypeOK, Commit
  <2>5. End(b)
    BY <1>4 DEF Commit
  <2> QED BY <2>2, <2>3, <2>4, <2>5, EndTyped DEF TypeOK
<1>5. ASSUME NEW b \in Backends, Share(b)
      PROVE  TypeOK'
  <2>1. step' = [step EXCEPT ![b] = step[b] + 1] /\ step[b] <= Len(Plan(request[b])) /\ request' = request
    BY <1>5 DEF Share, More
  <2>2. Len(Plan(request[b])) \in 0..10
    BY PlanTyped DEF TypeOK, Kinds
  <2>3. step[b] \in 1..Len(Plan(request[b]))
    BY <2>1, <2>2 DEF TypeOK
  <2>4. step' \in [Backends -> 1..11] /\ \A c \in Backends : step'[c] <= Len(Plan(request'[c])) + 1
    BY <2>1, <2>2, <2>3, Advanced
  <2> QED BY <1>5, <2>4 DEF TypeOK, Share
<1>6. ASSUME NEW b \in Backends, Answer(b) \/ Rollback(b)
      PROVE  TypeOK'
  <2>1. End(b) /\ UNCHANGED tables
    BY <1>6 DEF Answer, Rollback
  <2> QED BY <2>1, EndTyped DEF TypeOK
<1>7. CASE UNCHANGED vars
  BY <1>7 DEF TypeOK, vars
<1> QED BY <1>1, <1>2, <1>3, <1>4, <1>5, <1>6, <1>7 DEF Next

\* Types hold throughout.
THEOREM Typing == Spec => []TypeOK
<1>1. Init => TypeOK
  BY InitTyped
<1>2. TypeOK /\ [Next]_vars => TypeOK'
  BY StepTyped
<1> QED BY <1>1, <1>2, PTL DEF Spec

-----------------------------------------------------------------------------
(* Locks: a view that a change has locked is locked by nobody else.        *)

Exclusive ==
  \A b, c \in Backends : b # c /\ Writes(b) => Locked(b) \cap Locked(c) = {}

LEMMA FirstStepLocksNothing ==
  ASSUME NEW b \in Backends, step[b] = 1
  PROVE  Locked(b) = {}
  BY DEF Locked

LEMMA LockedGrows ==
  ASSUME TypeOK, NEW b \in Backends, step' = [step EXCEPT ![b] = step[b] + 1], request' = request
  PROVE  \A c \in Backends : Locked(c)' = IF c = b THEN Locked(b) \cup {Wanted(b)} ELSE Locked(c)
<1>1. step[b] \in 1..11
  BY DEF TypeOK
<1> DEFINE k == step[b]
<1>2. 1..(k + 1 - 1) = (1..(k - 1)) \cup {k}
  BY <1>1
<1>3. Locked(b)' = {Plan(request[b])[i] : i \in 1..(k + 1 - 1)}
  BY <1>1 DEF Locked, TypeOK
<1>4. Locked(b)' = Locked(b) \cup {Plan(request[b])[k]}
  BY <1>2, <1>3 DEF Locked
<1>5. \A c \in Backends \ {b} : Locked(c)' = Locked(c)
  BY DEF Locked, TypeOK
<1> QED BY <1>4, <1>5 DEF Wanted

LEMMA Untouched ==
  ASSUME NEW b \in Backends, request'[b] = request[b], step'[b] = step[b]
  PROVE  Locked(b)' = Locked(b) /\ (Writes(b)' <=> Writes(b))
  BY DEF Locked, Writes

LEMMA InitExclusive == Init => Exclusive
  BY FirstStepLocksNothing DEF Init, Exclusive

LEMMA EndExclusive ==
  ASSUME TypeOK, Exclusive, NEW b \in Backends, End(b)
  PROVE  Exclusive'
<1>1. ~Writes(b)'
  BY IdleIsNoRequest DEF TypeOK, End, Writes
<1>2. Locked(b)' = {}
  <2>1. step'[b] = 1
    BY DEF TypeOK, End
  <2> QED BY <2>1 DEF Locked
<1>3. \A c \in Backends \ {b} : Locked(c)' = Locked(c) /\ (Writes(c)' <=> Writes(c))
  BY Untouched DEF TypeOK, End
<1> QED BY <1>1, <1>2, <1>3 DEF Exclusive

LEMMA StepExclusive == TypeOK /\ Exclusive /\ [Next]_vars => Exclusive'
<1> SUFFICES ASSUME TypeOK, Exclusive, [Next]_vars PROVE Exclusive'
  OBVIOUS
<1>1. ASSUME NEW b \in Backends, NEW q \in Requests, Begin(b, q)
      PROVE  Exclusive'
  <2>1. step[b] = 1
    <3>1. step[b] <= Len(Plan(Idle)) + 1 /\ step[b] \in 1..11
      BY <1>1 DEF TypeOK, Begin
    <3> QED BY <3>1, IdlePlan
  <2>2. Locked(b)' = {}
    BY <1>1, <2>1 DEF Begin, Locked
  <2>3. \A c \in Backends \ {b} : Locked(c)' = Locked(c) /\ (Writes(c)' <=> Writes(c))
    BY <1>1, Untouched DEF TypeOK, Begin
  <2> QED BY <2>2, <2>3 DEF Exclusive
<1>2. ASSUME NEW b \in Backends, Snapshot(b)
      PROVE  Exclusive'
  BY <1>2 DEF Exclusive, Snapshot, Locked, Writes
<1>3. ASSUME NEW b \in Backends, Fill(b) \/ Share(b)
      PROVE  Exclusive'
  <2>1. \A c \in Backends : Locked(c)' = IF c = b THEN Locked(b) \cup {Wanted(b)} ELSE Locked(c)
    BY <1>3, LockedGrows DEF Fill, Share
  <2>2. \A c \in Backends : Writes(c)' <=> Writes(c)
    BY <1>3 DEF Fill, Share, Writes
  <2>3. \A c \in Backends \ {b} : Writes(b) \/ Writes(c) => Wanted(b) \notin Locked(c)
    BY <1>3, ChangesAreNoQueries DEF Fill, Share, WaitsFor, Reads, Writes
  <2> QED BY <2>1, <2>2, <2>3 DEF Exclusive
<1>4. ASSUME NEW b \in Backends, Commit(b) \/ Answer(b) \/ Rollback(b)
      PROVE  Exclusive'
  BY <1>4, EndExclusive DEF Commit, Answer, Rollback
<1>5. CASE UNCHANGED vars
  BY <1>5 DEF vars, Exclusive, Locked, Writes
<1> QED BY <1>1, <1>2, <1>3, <1>4, <1>5 DEF Next

-----------------------------------------------------------------------------
(* The ratings of professors.                                              *)

Rates(b) == Writes(b) /\ request[b].op # "vote"

(* From its second view on such a transaction holds course_rating, so no   *)
(* other that changes a rating commits: its snapshots have the committed   *)
(* ratings, and so has, with its own change, what it puts in prof_rating.  *)
HeldStill ==
  \A b \in Backends : Rates(b) =>
    /\ step[b] >= 2 /\ snapshot[b] # None => Rated(snapshot[b]) = Rated(db)
    /\ step[b] >= 3 => draft[b]["prof_rating"] = Rated(Applied(db, request[b], step[b]))

RatingInv == TypeOK /\ Exclusive /\ HeldStill /\ ProfRatingCurrent

LEMMA RatersLock ==
  ASSUME TypeOK, NEW b \in Backends, Rates(b)
  PROVE  /\ Len(Plan(request[b])) \in 2..10
         /\ step[b] >= 2 => "course_rating" \in Locked(b)
         /\ step[b] >= 3 => "prof_rating" \in Locked(b)
         /\ step[b] = 1 => Wanted(b) = "course_rating"
         /\ step[b] = 2 => Wanted(b) = "prof_rating"
<1>1. request[b] \in Change /\ request[b].op # "vote" /\ step[b] \in 1..11
  BY DEF Rates, Writes, TypeOK
<1>2. Plan(request[b])[1] = "course_rating" /\ Plan(request[b])[2] = "prof_rating"
      /\ Len(Plan(request[b])) \in 2..10
  BY <1>1, RatingsFirst, PlanTyped DEF Kinds
<1>3. step[b] >= 2 => 1 \in 1..(step[b] - 1)
  BY <1>1
<1>4. step[b] >= 3 => 2 \in 1..(step[b] - 1)
  BY <1>1
<1> QED BY <1>2, <1>3, <1>4 DEF Locked, Wanted

LEMMA RatersEnd ==
  ASSUME TypeOK, NEW b \in Backends, Rates(b), ~More(b)
  PROVE  step[b] >= 3
<1> DEFINE n == step[b]
           k == Len(Plan(request[b]))
<1>1. k \in 2..10 /\ n \in 1..11
  BY RatersLock DEF TypeOK
<1>2. ~(n <= k)
  BY DEF More
<1> HIDE DEF n, k
<1>3. n >= 3
  BY <1>1, <1>2
<1> QED BY <1>3 DEF n

\* Two transactions that change ratings are not both past their first view.
LEMMA OneRater ==
  ASSUME TypeOK, Exclusive, NEW b \in Backends, NEW c \in Backends, Rates(b), Rates(c),
         step[b] >= 2, step[c] >= 2
  PROVE  b = c
  BY RatersLock DEF Exclusive, Rates

LEMMA StepHeldStill == RatingInv /\ [Next]_vars => HeldStill'
<1> SUFFICES ASSUME RatingInv, [Next]_vars PROVE HeldStill'
  OBVIOUS
<1> USE DEF RatingInv, tables
<1>1. ASSUME NEW b \in Backends, End(b), UNCHANGED db
      PROVE  HeldStill'
  <2>1. ~Rates(b)'
    BY <1>1, IdleIsNoRequest DEF TypeOK, End, Writes, Rates
  <2>2. \A c \in Backends \ {b} : /\ request'[c] = request[c] /\ step'[c] = step[c] /\ snapshot'[c] = snapshot[c]
                                  /\ draft'[c] = draft[c]
    BY <1>1 DEF TypeOK, End
  <2> QED BY <1>1, <2>1, <2>2 DEF HeldStill, Rates, Writes
<1>2. ASSUME NEW b \in Backends, NEW q \in Requests, Begin(b, q)
      PROVE  HeldStill'
  <2>1. step[b] = 1 /\ step' = step
    <3>1. step[b] <= Len(Plan(Idle)) + 1 /\ step[b] \in 1..11
      BY <1>2 DEF TypeOK, Begin
    <3> QED BY <1>2, <3>1, IdlePlan DEF Begin
  <2>2. \A c \in Backends \ {b} : Rates(c)' <=> Rates(c)
    BY <1>2 DEF TypeOK, Begin, Rates, Writes
  <2>3. \A c \in Backends \ {b} : request'[c] = request[c]
    BY <1>2 DEF TypeOK, Begin
  <2> QED BY <1>2, <2>1, <2>2, <2>3 DEF HeldStill, Begin
<1>3. ASSUME NEW b \in Backends, Snapshot(b)
      PROVE  HeldStill'
  BY <1>3 DEF HeldStill, Snapshot, Rates, Writes, TypeOK
<1>4. ASSUME NEW b \in Backends, Fill(b)
      PROVE  HeldStill'
  <2>1. \A c \in Backends \ {b} : /\ step'[c] = step[c] /\ snapshot'[c] = snapshot[c] /\ draft'[c] = draft[c]
    BY <1>4 DEF Fill, TypeOK
  <2>2. request' = request /\ db' = db /\ step'[b] = step[b] + 1 /\ snapshot'[b] = None
    BY <1>4 DEF Fill, TypeOK
  <2>3. ASSUME Rates(b), step'[b] >= 3
        PROVE  draft'[b]["prof_rating"] = Rated(Applied(db', request'[b], step'[b]))
    <3>1. /\ step[b] \in 1..11 /\ step[b] >= 2 /\ request[b] \in Change
          /\ snapshot[b] \in Database /\ db \in Database /\ Rated(snapshot[b]) = Rated(db)
      BY <1>4, <2>2, <2>3 DEF TypeOK, HeldStill, Fill, Rates, Writes
    <3> DEFINE now == Applied(snapshot[b], request[b], step[b])
    <3>2. Rated(now) = Rated(Applied(db, request[b], step[b] + 1))
      BY <3>1, SameRatings
    <3>3. draft'[b] = [draft[b] EXCEPT ![Wanted(b)] = Content(Wanted(b), now, draft[b])]
      BY <1>4 DEF Fill, TypeOK
    <3>4. Content("prof_rating", now, draft[b]) = Rated(now)
      BY DEF Content
    <3> HIDE DEF now
    <3>5. CASE Wanted(b) = "prof_rating"
      <4>1. draft'[b]["prof_rating"] = Rated(now)
        BY <3>3, <3>4, <3>5 DEF TypeOK, Shown, Views
      <4> QED BY <2>2, <3>2, <4>1
    <3>6. CASE Wanted(b) # "prof_rating"
      <4>1. step[b] >= 3
        BY <2>3, <3>1, <3>6, RatersLock
      <4>2. draft'[b]["prof_rating"] = draft[b]["prof_rating"]
        BY <3>3, <3>6 DEF TypeOK, Shown, Views
      <4>3. draft[b]["prof_rating"] = Rated(Applied(db, request[b], step[b]))
        BY <2>3, <4>1 DEF HeldStill
      <4>4. Rated(Applied(db, request[b], step[b])) = Rated(Applied(db, request[b], step[b] + 1))
        BY <3>1, SameRatings
      <4> QED BY <2>2, <4>2, <4>3, <4>4
    <3> QED BY <3>5, <3>6
  <2>4. \A c \in Backends : Rates(c)' <=> Rates(c)
    BY <2>2 DEF Rates, Writes
  <2> QED BY <2>1, <2>2, <2>3, <2>4 DEF HeldStill
<1>5. ASSUME NEW b \in Backends, Commit(b)
      PROVE  HeldStill'
  <2>1. ~Rates(b)'
    BY <1>5, IdleIsNoRequest DEF TypeOK, Commit, End, Writes, Rates
  <2>2. \A c \in Backends \ {b} : /\ request'[c] = request[c] /\ step'[c] = step[c] /\ snapshot'[c] = snapshot[c]
                                  /\ draft'[c] = draft[c]
    BY <1>5 DEF TypeOK, Commit, End
  <2>3. CASE Rates(b)
    <3>1. step[b] >= 2
      <4>1. step[b] \in 1..11 /\ step[b] >= 3
        BY <1>5, <2>3, RatersEnd DEF TypeOK, Commit
      <4> QED BY <4>1
    <3>2. \A c \in Backends \ {b} : Rates(c) => ~(step[c] >= 2)
      BY <2>3, <3>1, OneRater
    <3>3. \A c \in Backends : step[c] \in 1..11
      BY DEF TypeOK
    <3> QED BY <2>1, <2>2, <3>2, <3>3 DEF HeldStill, Rates, Writes
  <2>4. CASE ~Rates(b)
    <3>1. /\ request[b] \in Change /\ request[b].op = "vote" /\ step[b] \in Nat
          /\ db \in Database /\ db' = Applied(db, request[b], step[b])
      <4>1. Writes(b) /\ db' = Applied(db, request[b], step[b])
        BY <1>5 DEF Commit
      <4>2. step[b] \in Nat /\ db \in Database
        BY DEF TypeOK
      <4> QED BY <2>4, <4>1, <4>2 DEF Rates, Writes
    <3>2. Rated(db') = Rated(db) /\ db' \in Database
      BY <3>1, RatedByChange, AppliedTyped
    <3>3. \A c \in Backends \ {b} : Rates(c)' <=> Rates(c)
      BY <2>2 DEF Rates, Writes
    <3>4. \A c \in Backends : Rates(c) => Rated(Applied(db', request[c], step[c])) = Rated(Applied(db, request[c], step[c]))
      BY <3>1, <3>2, SameRatings DEF TypeOK, Rates, Writes
    <3> QED BY <2>1, <2>2, <3>2, <3>3, <3>4 DEF HeldStill
  <2> QED BY <2>3, <2>4
<1>6. ASSUME NEW b \in Backends, Share(b)
      PROVE  HeldStill'
  <2>1. ~Rates(b)
    BY <1>6, ChangesAreNoQueries DEF Share, Reads, Rates, Writes
  <2>2. \A c \in Backends : Rates(c)' <=> Rates(c)
    BY <1>6 DEF Share, Rates, Writes
  <2>3. \A c \in Backends \ {b} : step'[c] = step[c]
    BY <1>6 DEF Share, TypeOK
  <2> QED BY <1>6, <2>1, <2>2, <2>3 DEF HeldStill, Share
<1>7. ASSUME NEW b \in Backends, Answer(b) \/ Rollback(b)
      PROVE  HeldStill'
  BY <1>1, <1>7 DEF Answer, Rollback
<1>8. CASE UNCHANGED vars
  BY <1>8 DEF vars, HeldStill, Rates, Writes
<1> QED BY <1>2, <1>3, <1>4, <1>5, <1>6, <1>7, <1>8 DEF Next

LEMMA StepProfRating == RatingInv /\ [Next]_vars => ProfRatingCurrent'
<1> SUFFICES ASSUME RatingInv, [Next]_vars PROVE ProfRatingCurrent'
  OBVIOUS
<1> USE DEF RatingInv, tables
<1>1. ASSUME NEW b \in Backends, Commit(b)
      PROVE  ProfRatingCurrent'
  <2>1. /\ request[b] \in Change /\ step[b] \in 1..11 /\ step[b] \in Nat /\ ~(step[b] <= Len(Plan(request[b])))
        /\ step[b] <= Len(Plan(request[b])) + 1
        /\ db \in Database /\ db' = Applied(db, request[b], step[b])
    BY <1>1 DEF TypeOK, Commit, Writes, More
  <2>2. view'["prof_rating"] = IF "prof_rating" \in Locked(b) THEN draft[b]["prof_rating"] ELSE view["prof_rating"]
    BY <1>1 DEF Commit, Views
  <2>3. CASE Rates(b)
    <3>1. step[b] >= 3 /\ "prof_rating" \in Locked(b)
      BY <1>1, <2>3, RatersEnd, RatersLock DEF Commit
    <3> QED BY <2>1, <2>2, <2>3, <3>1 DEF HeldStill, ProfRatingCurrent
  <2>4. CASE ~Rates(b)
    <3>1. request[b].op = "vote"
      BY <2>1, <2>4 DEF Rates, Writes
    <3>2. Rated(db') = Rated(db)
      BY <2>1, <3>1, RatedByChange
    <3>3. "prof_rating" \notin Locked(b)
      <4>1. Plan(request[b]) = <<"course_review_rating">> \/ Plan(request[b]) = <<"prof_review_rating">>
        BY <2>1, <3>1, RatingsFirst
      <4>2. Len(Plan(request[b])) = 1 /\ Plan(request[b])[1] # "prof_rating"
        BY <4>1
      <4>3. step[b] = 2
        BY <2>1, <4>2
      <4>4. Locked(b) = {Plan(request[b])[i] : i \in 1..1}
        BY <4>3 DEF Locked
      <4> QED BY <4>2, <4>4
    <3> QED BY <2>2, <3>2, <3>3 DEF ProfRatingCurrent
  <2> QED BY <2>3, <2>4
<1>2. ASSUME NEW b \in Backends, NEW q \in Requests,
             Begin(b, q) \/ Snapshot(b) \/ Fill(b) \/ Share(b) \/ Answer(b) \/ Rollback(b)
      PROVE  ProfRatingCurrent'
  BY <1>2 DEF ProfRatingCurrent, Begin, Snapshot, Fill, Share, Answer, Rollback
<1>3. ASSUME NEW b \in Backends, Snapshot(b) \/ Fill(b) \/ Share(b) \/ Answer(b) \/ Rollback(b)
      PROVE  ProfRatingCurrent'
  BY <1>3 DEF ProfRatingCurrent, Snapshot, Fill, Share, Answer, Rollback
<1>4. CASE UNCHANGED vars
  BY <1>4 DEF vars, ProfRatingCurrent
<1> QED BY <1>1, <1>2, <1>3, <1>4 DEF Next

LEMMA InitRatings == Init => RatingInv
<1> SUFFICES ASSUME Init PROVE RatingInv
  OBVIOUS
<1>1. HeldStill
  BY IdleIsNoRequest DEF Init, HeldStill, Rates, Writes
<1>2. ProfRatingCurrent
  BY DEF Init, ProfRatingCurrent, Blank, EmptyView, FirstDatabase, Rated, Views
<1> QED BY <1>1, <1>2, InitTyped, InitExclusive DEF RatingInv

\* The ratings of professors are always those of the committed reviews.
THEOREM ProfRatingAlwaysCurrent == Spec => []ProfRatingCurrent
<1>1. Init => RatingInv
  BY InitRatings
<1>2. RatingInv /\ [Next]_vars => RatingInv'
  BY StepTyped, StepExclusive, StepHeldStill, StepProfRating DEF RatingInv
<1>3. RatingInv => ProfRatingCurrent
  BY DEF RatingInv
<1> QED BY <1>1, <1>2, <1>3, PTL DEF Spec

-----------------------------------------------------------------------------
(* The ratings of courses.  What is in a draft and not late is what the    *)
(* reviews as the transaction leaves them give; later refreshes in the     *)
(* transaction have snapshots of the committed ratings.                    *)
DraftedInTime ==
  \A b \in Backends : Rates(b) /\ step[b] >= 2 /\ "course_rating" \notin late[b] =>
    draft[b]["course_rating"] = Rated(Applied(db, request[b], step[b]))

CourseInv == RatingInv /\ DraftedInTime /\ CourseRatingMissesOnlyOvertaken

\* While b is past its first view no other transaction changes a rating.
LEMMA RatedKept ==
  ASSUME RatingInv, NEW b \in Backends, Commit(b)
  PROVE  /\ db' \in Database
         /\ \A c \in Backends \ {b} :
              /\ "course_rating" \in Locked(c) => Rated(db') = Rated(db) /\ "course_rating" \notin Locked(b)
              /\ Rates(c) /\ step[c] >= 2 => Rated(db') = Rated(db)
<1> USE DEF RatingInv
<1>1. /\ request[b] \in Change /\ step[b] \in 1..11 /\ step[b] \in Nat /\ Writes(b)
      /\ db \in Database /\ db' = Applied(db, request[b], step[b])
  BY DEF TypeOK, Commit, Writes
<1>2. db' \in Database
  BY <1>1, AppliedTyped
<1>3. ~Rates(b) => Rated(db') = Rated(db)
  BY <1>1, RatedByChange DEF Rates
<1>4. Rates(b) => "course_rating" \in Locked(b)
  <2>1. SUFFICES ASSUME Rates(b) PROVE "course_rating" \in Locked(b)
    OBVIOUS
  <2>2. step[b] >= 3
    BY <2>1, RatersEnd DEF Commit
  <2>3. step[b] >= 2
    BY <1>1, <2>2
  <2> QED BY <2>1, <2>3, RatersLock
<1>5. \A c \in Backends \ {b} : Locked(b) \cap Locked(c) = {}
  BY <1>1 DEF Exclusive
<1>6. \A c \in Backends \ {b} : Rates(c) /\ step[c] >= 2 => "course_rating" \in Locked(c)
  BY RatersLock
<1>7. \A c \in Backends \ {b} : "course_rating" \in Locked(c) => Rated(db') = Rated(db) /\ "course_rating" \notin Locked(b)
  BY <1>3, <1>4, <1>5
<1> QED BY <1>2, <1>6, <1>7

LEMMA StepDrafted == CourseInv /\ [Next]_vars => DraftedInTime'
<1> SUFFICES ASSUME CourseInv, [Next]_vars PROVE DraftedInTime'
  OBVIOUS
<1> USE DEF CourseInv, RatingInv, tables
<1>1. ASSUME NEW b \in Backends, End(b), UNCHANGED db
      PROVE  DraftedInTime'
  <2>1. ~Rates(b)'
    BY <1>1, IdleIsNoRequest DEF TypeOK, End, Writes, Rates
  <2>2. \A c \in Backends \ {b} : /\ request'[c] = request[c] /\ step'[c] = step[c]
                                  /\ draft'[c] = draft[c] /\ late'[c] = late[c]
    BY <1>1 DEF TypeOK, End
  <2> QED BY <1>1, <2>1, <2>2 DEF DraftedInTime, Rates, Writes
<1>2. ASSUME NEW b \in Backends, NEW q \in Requests, Begin(b, q)
      PROVE  DraftedInTime'
  <2>1. step[b] = 1 /\ step' = step
    <3>1. step[b] <= Len(Plan(Idle)) + 1 /\ step[b] \in 1..11
      BY <1>2 DEF TypeOK, Begin
    <3> QED BY <1>2, <3>1, IdlePlan DEF Begin
  <2>2. \A c \in Backends \ {b} : Rates(c)' <=> Rates(c)
    BY <1>2 DEF TypeOK, Begin, Rates, Writes
  <2>3. \A c \in Backends \ {b} : request'[c] = request[c]
    BY <1>2 DEF TypeOK, Begin
  <2> QED BY <1>2, <2>1, <2>2, <2>3 DEF DraftedInTime, Begin
<1>3. ASSUME NEW b \in Backends, Snapshot(b)
      PROVE  DraftedInTime'
  BY <1>3 DEF DraftedInTime, Snapshot, Rates, Writes
<1>4. ASSUME NEW b \in Backends, Fill(b)
      PROVE  DraftedInTime'
  <2>1. \A c \in Backends \ {b} : /\ step'[c] = step[c] /\ late'[c] = late[c] /\ draft'[c] = draft[c]
    BY <1>4 DEF Fill, TypeOK
  <2>2. request' = request /\ db' = db /\ step'[b] = step[b] + 1
    BY <1>4 DEF Fill, TypeOK
  <2>3. ASSUME Rates(b), "course_rating" \notin late'[b]
        PROVE  draft'[b]["course_rating"] = Rated(Applied(db', request'[b], step'[b]))
    <3>1. /\ step[b] \in 1..11 /\ request[b] \in Change
          /\ snapshot[b] \in Database /\ db \in Database
      BY <1>4, <2>3 DEF TypeOK, Fill, Rates, Writes
    <3> DEFINE then == Applied(snapshot[b], request[b], step[b])
               now == Applied(db, request[b], step[b])
    <3>2. Rated(now) = Rated(Applied(db, request[b], step[b] + 1))
      BY <3>1, SameRatings
    <3>3. /\ draft'[b] = [draft[b] EXCEPT ![Wanted(b)] = Content(Wanted(b), then, draft[b])]
          /\ late'[b] = IF Content(Wanted(b), then, draft[b]) = Content(Wanted(b), now, draft[b])
                        THEN late[b] \ {Wanted(b)} ELSE late[b] \cup {Wanted(b)}
      BY <1>4 DEF Fill, TypeOK
    <3>4. Content("course_rating", then, draft[b]) = Rated(then) /\ Content("course_rating", now, draft[b]) = Rated(now)
      BY DEF Content
    <3> HIDE DEF then, now
    <3>5. CASE Wanted(b) = "course_rating"
      <4>1. draft'[b]["course_rating"] = Rated(then)
        BY <3>3, <3>4, <3>5 DEF TypeOK, Shown, Views
      <4>2. Rated(then) = Rated(now)
        BY <2>3, <3>3, <3>4, <3>5
      <4> QED BY <2>2, <3>2, <4>1, <4>2
    <3>6. CASE Wanted(b) # "course_rating"
      <4>1. step[b] >= 2
        BY <2>3, <3>1, <3>6, RatersLock
      <4>2. draft'[b]["course_rating"] = draft[b]["course_rating"] /\ "course_rating" \notin late[b]
        BY <2>3, <3>3, <3>6 DEF TypeOK, Shown, Views
      <4>3. draft[b]["course_rating"] = Rated(now)
        BY <2>3, <4>1, <4>2 DEF DraftedInTime, now
      <4> QED BY <2>2, <3>2, <4>2, <4>3
    <3> QED BY <3>5, <3>6
  <2>4. \A c \in Backends : Rates(c)' <=> Rates(c)
    BY <2>2 DEF Rates, Writes
  <2> QED BY <2>1, <2>2, <2>3, <2>4 DEF DraftedInTime
<1>5. ASSUME NEW b \in Backends, Commit(b)
      PROVE  DraftedInTime'
  <2>1. ~Rates(b)'
    BY <1>5, IdleIsNoRequest DEF TypeOK, Commit, End, Writes, Rates
  <2>2. \A c \in Backends \ {b} : /\ request'[c] = request[c] /\ step'[c] = step[c]
                                  /\ draft'[c] = draft[c] /\ late'[c] = late[c]
    BY <1>5 DEF TypeOK, Commit, End
  <2>3. ASSUME NEW c \in Backends \ {b}, Rates(c), step[c] >= 2
        PROVE  Rated(Applied(db', request[c], step[c])) = Rated(Applied(db, request[c], step[c]))
    <3>1. Rated(db') = Rated(db) /\ db' \in Database /\ db \in Database
      BY <1>5, <2>3, RatedKept DEF TypeOK
    <3> QED BY <2>3, <3>1, SameRatings DEF TypeOK, Rates, Writes
  <2> QED BY <2>1, <2>2, <2>3 DEF DraftedInTime, Rates, Writes
<1>6. ASSUME NEW b \in Backends, Share(b)
      PROVE  DraftedInTime'
  <2>1. ~Rates(b)
    BY <1>6, ChangesAreNoQueries DEF Share, Reads, Rates, Writes
  <2>2. \A c \in Backends : Rates(c)' <=> Rates(c)
    BY <1>6 DEF Share, Rates, Writes
  <2>3. \A c \in Backends \ {b} : step'[c] = step[c]
    BY <1>6 DEF Share, TypeOK
  <2> QED BY <1>6, <2>1, <2>2, <2>3 DEF DraftedInTime, Share
<1>7. ASSUME NEW b \in Backends, Answer(b) \/ Rollback(b)
      PROVE  DraftedInTime'
  BY <1>1, <1>7 DEF Answer, Rollback
<1>8. CASE UNCHANGED vars
  BY <1>8 DEF vars, DraftedInTime, Rates, Writes
<1> QED BY <1>2, <1>3, <1>4, <1>5, <1>6, <1>7, <1>8 DEF Next

\* A vote locks neither ratings nor the list of who teaches what.
LEMMA VotesElsewhere ==
  ASSUME TypeOK, NEW b \in Backends, Writes(b), ~Rates(b)
  PROVE  Locked(b) \subseteq {"course_review_rating", "prof_review_rating"}
<1>1. request[b] \in Change /\ request[b].op = "vote"
  BY DEF Rates, Writes
<1>2. Plan(request[b]) = <<"course_review_rating">> \/ Plan(request[b]) = <<"prof_review_rating">>
  BY <1>1, RatingsFirst
<1>3. step[b] \in 1..11 /\ step[b] <= Len(Plan(request[b])) + 1
  BY DEF TypeOK
<1>4. CASE Plan(request[b]) = <<"course_review_rating">>
  <2>1. step[b] \in 1..2
    BY <1>3, <1>4
  <2> QED BY <1>4, <2>1 DEF Locked
<1>5. CASE Plan(request[b]) = <<"prof_review_rating">>
  <2>1. step[b] \in 1..2
    BY <1>3, <1>5
  <2> QED BY <1>5, <2>1 DEF Locked
<1> QED BY <1>2, <1>4, <1>5

LEMMA StepCourseRating == CourseInv /\ [Next]_vars => CourseRatingMissesOnlyOvertaken'
<1> SUFFICES ASSUME CourseInv, [Next]_vars PROVE CourseRatingMissesOnlyOvertaken'
  OBVIOUS
<1> USE DEF CourseInv, RatingInv, tables
<1>1. ASSUME NEW b \in Backends, Commit(b)
      PROVE  CourseRatingMissesOnlyOvertaken'
  <2>1. /\ request[b] \in Change /\ step[b] \in 1..11 /\ step[b] \in Nat /\ Writes(b)
        /\ db \in Database /\ db' = Applied(db, request[b], step[b])
    BY <1>1 DEF TypeOK, Commit, Writes
  <2>2. /\ view'["course_rating"] = IF "course_rating" \in Locked(b) THEN draft[b]["course_rating"] ELSE view["course_rating"]
        /\ missed' = (missed \ Locked(b)) \cup late[b]
    BY <1>1 DEF Commit, Views
  <2>3. CASE Rates(b)
    <3>1. step[b] >= 3
      BY <1>1, <2>3, RatersEnd DEF Commit
    <3>2. step[b] >= 2
      BY <2>1, <3>1
    <3>3. "course_rating" \in Locked(b)
      BY <2>3, <3>2, RatersLock
    <3> QED BY <2>1, <2>2, <2>3, <3>2, <3>3 DEF DraftedInTime, CourseRatingMissesOnlyOvertaken
  <2>4. CASE ~Rates(b)
    <3>1. "course_rating" \notin Locked(b)
      BY <2>1, <2>4, VotesElsewhere
    <3>2. Rated(db') = Rated(db)
      BY <2>1, <2>4, RatedByChange DEF Rates
    <3> QED BY <2>2, <3>1, <3>2 DEF CourseRatingMissesOnlyOvertaken
  <2> QED BY <2>3, <2>4
<1>2. ASSUME NEW b \in Backends, NEW q \in Requests, Begin(b, q)
      PROVE  CourseRatingMissesOnlyOvertaken'
  BY <1>2 DEF CourseRatingMissesOnlyOvertaken, Begin
<1>3. ASSUME NEW b \in Backends, Snapshot(b) \/ Fill(b) \/ Share(b) \/ Answer(b) \/ Rollback(b)
      PROVE  CourseRatingMissesOnlyOvertaken'
  BY <1>3 DEF CourseRatingMissesOnlyOvertaken, Snapshot, Fill, Share, Answer, Rollback
<1>4. CASE UNCHANGED vars
  BY <1>4 DEF vars, CourseRatingMissesOnlyOvertaken
<1> QED BY <1>1, <1>2, <1>3, <1>4 DEF Next

LEMMA InitCourseRating == Init => CourseInv
<1> SUFFICES ASSUME Init PROVE CourseInv
  OBVIOUS
<1>1. DraftedInTime
  BY IdleIsNoRequest DEF Init, DraftedInTime, Rates, Writes
<1>2. CourseRatingMissesOnlyOvertaken
  BY DEF Init, CourseRatingMissesOnlyOvertaken, Blank, EmptyView, FirstDatabase, Rated, Views
<1> QED BY <1>1, <1>2, InitRatings DEF CourseInv

LEMMA CourseInvAlways == Spec => []CourseInv
<1>1. CourseInv /\ [Next]_vars => CourseInv'
  BY StepTyped, StepExclusive, StepHeldStill, StepProfRating, StepDrafted, StepCourseRating DEF CourseInv, RatingInv
<1> QED BY <1>1, InitCourseRating, PTL DEF Spec

\* The ratings of courses are those of the committed reviews unless a refresh
\* waited while a review was committed.
THEOREM CourseRatingElseCurrent == Spec => []CourseRatingMissesOnlyOvertaken
<1>1. CourseInv => CourseRatingMissesOnlyOvertaken
  BY DEF CourseInv
<1> QED BY <1>1, CourseInvAlways, PTL

-----------------------------------------------------------------------------
(* The dump.  From its first answer on it holds the views it was read from. *)
DumpHolds ==
  /\ DOMAIN seen = Backends
  /\ \A b \in Backends : request[b].op = "dump" /\ step[b] >= 3 =>
       /\ seen[b].taught = view["prof_teaches_course"]
       /\ ~seen[b].missed => seen[b].ratings = Rated(db)

LEMMA DumpLocks ==
  ASSUME TypeOK, NEW b \in Backends, request[b].op = "dump", step[b] >= 3
  PROVE  /\ Reads(b)
         /\ "course_rating" \in Locked(b) /\ "prof_teaches_course" \in Locked(b)
<1>1. request[b] \in Query /\ step[b] \in 1..11
  BY DEF TypeOK, Idle, Change, ReviewWrite, Vote, AccountEnd, Import, Vacuum
<1>2. Plan(request[b])[1] = "course_rating" /\ Plan(request[b])[2] = "prof_teaches_course"
  BY <1>1 DEF Plan
<1>3. 1 \in 1..(step[b] - 1) /\ 2 \in 1..(step[b] - 1)
  BY <1>1
<1> QED BY <1>1, <1>2, <1>3 DEF Locked, Reads

LEMMA StepDump == CourseInv /\ DumpHolds /\ [Next]_vars => DumpHolds'
<1> SUFFICES ASSUME CourseInv, DumpHolds, [Next]_vars PROVE DumpHolds'
  OBVIOUS
<1> USE DEF CourseInv, RatingInv, tables
<1>1. ASSUME NEW b \in Backends, End(b), UNCHANGED tables
      PROVE  DumpHolds'
  <2>1. request'[b].op # "dump"
    BY <1>1 DEF TypeOK, End, Idle
  <2>2. /\ DOMAIN seen' = DOMAIN seen
        /\ \A c \in Backends \ {b} : request'[c] = request[c] /\ step'[c] = step[c] /\ seen'[c] = seen[c]
    BY <1>1 DEF TypeOK, End, DumpHolds
  <2> QED BY <1>1, <2>1, <2>2 DEF DumpHolds
<1>2. ASSUME NEW b \in Backends, NEW q \in Requests, Begin(b, q)
      PROVE  DumpHolds'
  <2>1. step[b] = 1 /\ step' = step
    <3>1. step[b] <= Len(Plan(Idle)) + 1 /\ step[b] \in 1..11
      BY <1>2 DEF TypeOK, Begin
    <3> QED BY <1>2, <3>1, IdlePlan DEF Begin
  <2>2. \A c \in Backends \ {b} : request'[c] = request[c]
    BY <1>2 DEF TypeOK, Begin
  <2> QED BY <1>2, <2>1, <2>2 DEF DumpHolds, Begin
<1>3. ASSUME NEW b \in Backends, Snapshot(b)
      PROVE  DumpHolds'
  BY <1>3 DEF DumpHolds, Snapshot
<1>4. ASSUME NEW b \in Backends, Fill(b)
      PROVE  DumpHolds'
  <2>1. request[b].op # "dump"
    BY <1>4 DEF Fill, Writes, Change, ReviewWrite, Vote, AccountEnd, Import, Vacuum
  <2>2. \A c \in Backends \ {b} : step'[c] = step[c]
    BY <1>4 DEF Fill, TypeOK
  <2> QED BY <1>4, <2>1, <2>2 DEF DumpHolds, Fill
<1>5. ASSUME NEW b \in Backends, Commit(b)
      PROVE  DumpHolds'
  <2>1. request'[b].op # "dump"
    BY <1>5 DEF TypeOK, Commit, End, Idle
  <2>2. /\ DOMAIN seen' = DOMAIN seen
        /\ \A c \in Backends \ {b} : request'[c] = request[c] /\ step'[c] = step[c] /\ seen'[c] = seen[c]
    BY <1>5 DEF TypeOK, Commit, End, DumpHolds
  <2>3. ASSUME NEW c \in Backends \ {b}, request[c].op = "dump", step[c] >= 3
        PROVE  view'["prof_teaches_course"] = view["prof_teaches_course"] /\ Rated(db') = Rated(db)
    <3>1. "course_rating" \in Locked(c) /\ "prof_teaches_course" \in Locked(c)
      BY <2>3, DumpLocks
    <3>2. "prof_teaches_course" \notin Locked(b)
      BY <1>5, <3>1 DEF Exclusive, Commit
    <3>3. view'["prof_teaches_course"] = view["prof_teaches_course"]
      BY <1>5, <3>2 DEF Commit, Views
    <3>4. Rated(db') = Rated(db)
      BY <1>5, <3>1, RatedKept
    <3> QED BY <3>3, <3>4
  <2> QED BY <2>1, <2>2, <2>3 DEF DumpHolds
<1>6. ASSUME NEW b \in Backends, Share(b)
      PROVE  DumpHolds'
  <2>1. DOMAIN seen' = Backends /\ \A c \in Backends \ {b} : step'[c] = step[c] /\ seen'[c] = seen[c]
    BY <1>6 DEF Share, TypeOK, DumpHolds
  <2>2. request' = request /\ db' = db /\ view' = view /\ step'[b] = step[b] + 1 /\ step[b] \in 1..11
    BY <1>6 DEF Share, TypeOK
  <2>3. ASSUME request[b].op = "dump", step'[b] >= 3
        PROVE  /\ seen'[b].taught = view["prof_teaches_course"]
               /\ ~seen'[b].missed => seen'[b].ratings = Rated(db)
    <3>1. CASE step[b] = 2
      <4>1. seen'[b] = [ratings |-> view["course_rating"], missed |-> "course_rating" \in missed,
                          taught |-> view["prof_teaches_course"]]
        BY <1>6, <2>3, <3>1 DEF Share, DumpHolds
      <4> DEFINE m == "course_rating" \in missed
                 s == seen'[b]
      <4>2. s = [ratings |-> view["course_rating"], missed |-> m, taught |-> view["prof_teaches_course"]]
        BY <4>1
      <4> HIDE DEF m, s
      <4>3. s.missed = m /\ s.ratings = view["course_rating"] /\ s.taught = view["prof_teaches_course"]
        BY <4>2, Zenon
      <4>4. ~m => view["course_rating"] = Rated(db)
        BY DEF m, CourseRatingMissesOnlyOvertaken
      <4>5. s.taught = view["prof_teaches_course"] /\ (~s.missed => s.ratings = Rated(db))
        BY <4>3, <4>4, Zenon
      <4> QED BY <4>5 DEF s
    <3>2. CASE step[b] # 2
      <4>1. step[b] >= 3
        BY <2>2, <2>3, <3>2
      <4>2. seen'[b] = seen[b]
        BY <1>6, <3>2 DEF Share, DumpHolds
      <4> QED BY <2>3, <4>1, <4>2 DEF DumpHolds
    <3> QED BY <3>1, <3>2
  <2> QED BY <2>1, <2>2, <2>3 DEF DumpHolds
<1>7. ASSUME NEW b \in Backends, Answer(b) \/ Rollback(b)
      PROVE  DumpHolds'
  BY <1>1, <1>7 DEF Answer, Rollback
<1>8. CASE UNCHANGED vars
  BY <1>8 DEF vars, DumpHolds
<1> QED BY <1>2, <1>3, <1>4, <1>5, <1>6, <1>7, <1>8 DEF Next

\* The dump's two queries always answer for one moment, as far as the course
\* ratings were not overtaken.
THEOREM DumpsAnswerForOneMoment == Spec => []DumpIsOneMoment
<1>1. Init => DumpHolds
  BY DEF Init, DumpHolds
<1>2. TypeOK /\ DumpHolds /\ ProfRatingCurrent => DumpIsOneMoment
  <2> SUFFICES ASSUME TypeOK, DumpHolds, ProfRatingCurrent, NEW b \in Backends, request[b].op = "dump", step[b] = 5
               PROVE  /\ seen[b].taught = view["prof_teaches_course"]
                      /\ ~seen[b].missed => seen[b].ratings = view["prof_rating"]
    BY DEF DumpIsOneMoment
  <2>1. step[b] >= 3
    OBVIOUS
  <2> QED BY <2>1 DEF DumpHolds, ProfRatingCurrent
<1>3. CourseInv => TypeOK /\ ProfRatingCurrent
  BY DEF CourseInv, RatingInv
<1> QED BY <1>1, <1>2, <1>3, StepDump, CourseInvAlways, PTL DEF Spec

-----------------------------------------------------------------------------
(* The timetable.  A transaction that changes it holds course_rating from   *)
(* its second view on, so the classes and the ratings stand still for it,   *)
(* and each view copies the ones before it in the same statement.           *)
Timetables(b) == Writes(b) /\ request[b].op \in {"import", "vacuum_sections", "vacuum_profs"}

\* The classes as b's statement at place k of its plan leaves them.
Stands(b, k) == Applied(db, request[b], k).classes

Listed(b) ==
  /\ step[b] >= 2 /\ snapshot[b] # None => snapshot[b].classes = db.classes
  /\ step[b] >= 4 => draft[b]["prof_teaches_course"] = Stands(b, IF step[b] >= 9 THEN 8 ELSE 3)
  /\ step[b] >= 5 => /\ draft[b]["course_search_index"].taught = Stands(b, IF step[b] >= 10 THEN 9 ELSE 4)
                     /\ draft[b]["course_search_index"].offered = Stands(b, IF step[b] >= 10 THEN 9 ELSE 4)
  /\ step[b] >= 6 => draft[b]["prof_search_index"].taught = Stands(b, IF step[b] >= 11 THEN 10 ELSE 5)

Repairs(b) ==
  request[b].op = "import" =>
    /\ step[b] >= 7 => draft[b]["course_rating"] = Rated(db)
    /\ step[b] >= 10 => draft[b]["course_search_index"].ratings = Rated(db)
    /\ step[b] >= 11 => draft[b]["prof_search_index"].ratings = Rated(db)

InOrder(b) == Timetables(b) => Listed(b) /\ Repairs(b)

TimetableInv == CourseInv /\ (\A b \in Backends : InOrder(b)) /\ IndexesFollowTimetable

LEMMA ClassesByChange ==
  ASSUME NEW d \in Database, NEW e \in Database, NEW q \in Change, NEW i \in Nat, NEW j \in Nat,
         d.classes = e.classes
  PROVE  /\ q.op # "import" => Applied(d, q, i).classes = d.classes
         /\ (i <= 5 <=> j <= 5) => Applied(d, q, i).classes = Applied(e, q, j).classes
<1>1. q.op \in {"review", "vote", "account", "import", "vacuum_sections", "vacuum_profs"}
  BY DEF Change, ReviewWrite, Vote, AccountEnd, Import, Vacuum
<1>2. ASSUME q.op # "import", NEW f \in Database, NEW k \in Nat
      PROVE  Applied(f, q, k).classes = f.classes
  BY <1>1, <1>2 DEF Applied, Database
<1>3. ASSUME q.op = "import", NEW f \in Database, NEW k \in Nat
      PROVE  /\ k <= 5 => Applied(f, q, k).classes = IF q.first THEN f.classes \cup {q.class} ELSE f.classes \ {q.class}
             /\ ~(k <= 5) => Applied(f, q, k).classes = IF q.last THEN f.classes \cup {q.class} ELSE f.classes \ {q.class}
  <2>1. Len(OnSection) = 5
    BY DEF OnSection
  <2>2. Applied(f, q, k) =
          LET there == IF k <= 5 THEN q.first ELSE q.last IN
          [f EXCEPT !.classes = IF there THEN @ \cup {q.class} ELSE @ \ {q.class}]
    BY <1>3, <2>1 DEF Applied
  <2> QED BY <2>2 DEF Database
<1>4. q.op = "import" /\ (i <= 5 <=> j <= 5) => Applied(d, q, i).classes = Applied(e, q, j).classes
  <2>1. CASE q.op = "import" /\ i <= 5 /\ j <= 5
    BY <1>3, <2>1
  <2>2. CASE q.op = "import" /\ ~(i <= 5) /\ ~(j <= 5)
    BY <1>3, <2>2
  <2> QED BY <2>1, <2>2
<1>5. q.op # "import" => Applied(d, q, i).classes = Applied(e, q, j).classes
  BY <1>2
<1> QED BY <1>2, <1>4, <1>5

LEMMA TimetablesRate == ASSUME NEW b \in Backends, Timetables(b) PROVE Rates(b)
  BY DEF Timetables, Rates

LEMMA StandsFacts ==
  ASSUME TypeOK, NEW b \in Backends, Timetables(b)
  PROVE  /\ \A i, j \in Nat : (i <= 5 <=> j <= 5) => Stands(b, i) = Stands(b, j)
         /\ request[b].op # "import" => \A i \in Nat : Stands(b, i) = db.classes
<1>1. request[b] \in Change /\ db \in Database
  BY DEF TypeOK, Timetables, Writes
<1> QED BY <1>1, ClassesByChange DEF Stands

\* The views such a transaction has locked, and the one it wants.
LEMMA TimetablePlan ==
  ASSUME TypeOK, NEW b \in Backends, Timetables(b)
  PROVE  /\ Len(Plan(request[b])) \in {5, 7, 10} /\ step[b] \in 1..11
         /\ request[b].op = "import" => Len(Plan(request[b])) = 10
         /\ Len(Plan(request[b])) = 10 => request[b].op = "import"
         /\ step[b] <= Len(Plan(request[b])) =>
              /\ Wanted(b) = "course_rating" <=> step[b] \in {1, 6}
              /\ Wanted(b) = "prof_rating" <=> step[b] \in {2, 7}
              /\ Wanted(b) = "prof_teaches_course" <=> step[b] \in {3, 8}
              /\ Wanted(b) = "course_search_index" <=> step[b] \in {4, 9}
              /\ Wanted(b) = "prof_search_index" <=> step[b] \in {5, 10}
         /\ step[b] >= 6 => {"prof_teaches_course", "course_search_index", "prof_search_index"} \subseteq Locked(b)
<1> DEFINE q == request[b]
<1>1. q.op \in {"import", "vacuum_sections", "vacuum_profs"} /\ step[b] \in 1..11
  BY DEF TypeOK, Timetables
<1>2. /\ q.op = "vacuum_sections" => Plan(q) = Five
      /\ q.op = "vacuum_profs" => Plan(q) = Seven
      /\ q.op = "import" => Plan(q) = Ten
  <2>1. q.op = "vacuum_sections" => Plan(q) = Five
    BY DEF Plan, OnSection, Five
  <2>2. q.op = "vacuum_profs" => Plan(q) = Seven
    BY Concat5And2 DEF Plan, OnSection, OnReview, Seven
  <2>3. q.op = "import" => Plan(q) = Ten
    BY Concat5And5 DEF Plan, OnSection, Ten
  <2> QED BY <2>1, <2>2, <2>3
<1> HIDE DEF q
<1>3. Wanted(b) = Plan(q)[step[b]] /\ Locked(b) = {Plan(q)[i] : i \in 1..(step[b] - 1)}
  BY DEF Wanted, Locked, q
<1>4. CASE Plan(q) = Five /\ q.op = "vacuum_sections"
  BY <1>1, <1>3, <1>4 DEF Five, q
<1>5. CASE Plan(q) = Seven /\ q.op = "vacuum_profs"
  BY <1>1, <1>3, <1>5 DEF Seven, q
<1>6. CASE Plan(q) = Ten /\ q.op = "import"
  BY <1>1, <1>3, <1>6 DEF Ten, q
<1> QED BY <1>1, <1>2, <1>4, <1>5, <1>6

\* Other changes have none of these views and leave the classes alone.
LEMMA NoTimetable ==
  ASSUME TypeOK, NEW b \in Backends, Writes(b), ~Timetables(b)
  PROVE  /\ Locked(b) \cap {"prof_teaches_course", "course_search_index", "prof_search_index"} = {}
         /\ Applied(db, request[b], step[b]).classes = db.classes
<1>1. request[b] \in Change /\ db \in Database /\ step[b] \in 1..11 /\ step[b] <= Len(Plan(request[b])) + 1
  BY DEF TypeOK, Writes
<1>2. request[b].op \in {"review", "account", "vote"}
  BY <1>1 DEF Change, ReviewWrite, Vote, AccountEnd, Import, Vacuum, Timetables, Writes
<1>3. \/ Plan(request[b]) = <<"course_rating", "prof_rating">>
      \/ Plan(request[b]) = <<"course_rating", "prof_rating", "course_review_rating", "prof_review_rating">>
      \/ Plan(request[b]) = <<"course_review_rating">>
      \/ Plan(request[b]) = <<"prof_review_rating">>
  BY <1>2, ReviewPlans, VotePlans
<1>4. \A i \in 1..Len(Plan(request[b])) :
        Plan(request[b])[i] \in {"course_rating", "prof_rating", "course_review_rating", "prof_review_rating"}
  <2>1. CASE Plan(request[b]) = <<"course_rating", "prof_rating">>
    BY <2>1
  <2>2. CASE Plan(request[b]) = <<"course_rating", "prof_rating", "course_review_rating", "prof_review_rating">>
    BY <2>2
  <2>3. CASE Plan(request[b]) = <<"course_review_rating">> \/ Plan(request[b]) = <<"prof_review_rating">>
    BY <2>3
  <2> QED BY <1>3, <2>1, <2>2, <2>3
<1>5. \A v \in Locked(b) : v \in {"course_rating", "prof_rating", "course_review_rating", "prof_review_rating"}
  <2>1. \A i \in 1..(step[b] - 1) : i \in 1..Len(Plan(request[b]))
    <3>1. Len(Plan(request[b])) \in 0..10
      BY <1>1, PlanTyped DEF Kinds
    <3> QED BY <1>1, <3>1
  <2> QED BY <1>4, <2>1 DEF Locked
<1>6. Applied(db, request[b], step[b]).classes = db.classes
  BY <1>1, <1>2, ClassesByChange
<1> QED BY <1>5, <1>6

LEMMA InOrderFrame ==
  ASSUME TypeOK, TypeOK', NEW b \in Backends, InOrder(b),
         request'[b] = request[b], step'[b] = step[b], snapshot'[b] = snapshot[b], draft'[b] = draft[b],
         Timetables(b) /\ step[b] >= 2 => db'.classes = db.classes /\ Rated(db') = Rated(db)
  PROVE  InOrder(b)'
<1> SUFFICES ASSUME Timetables(b)' PROVE Listed(b)' /\ Repairs(b)'
  BY DEF InOrder
<1>1. Timetables(b) /\ Listed(b) /\ Repairs(b) /\ step[b] \in 1..11
  BY DEF InOrder, Timetables, Writes, TypeOK
<1>2. CASE step[b] >= 2
  <2>1. db \in Database /\ db' \in Database /\ request[b] \in Change /\ db'.classes = db.classes
    BY <1>1, <1>2 DEF TypeOK, Timetables, Writes
  <2>2. \A k \in Nat : Stands(b, k)' = Stands(b, k)
    BY <2>1, ClassesByChange DEF Stands
  <2> HIDE DEF Stands
  <2>3. Listed(b)'
    BY <1>1, <1>2, <2>1, <2>2 DEF Listed
  <2>4. Repairs(b)'
    BY <1>1, <1>2 DEF Repairs
  <2> QED BY <2>3, <2>4
<1>3. CASE step[b] = 1
  BY <1>3 DEF Listed, Repairs
<1> QED BY <1>1, <1>2, <1>3

LEMMA FillInOrder ==
  ASSUME TimetableInv, TypeOK', NEW b \in Backends, Fill(b), Timetables(b)
  PROVE  Listed(b)' /\ Repairs(b)'
<1> USE DEF TimetableInv, CourseInv, RatingInv, tables
<1> DEFINE i == step[b]
           w == draft[b]
           x == draft'[b]
           then == Applied(snapshot[b], request[b], step[b])
<1>1. /\ request' = request /\ db' = db /\ step'[b] = i + 1 /\ snapshot'[b] = None
      /\ x = [w EXCEPT ![Wanted(b)] = Content(Wanted(b), then, w)]
      /\ i <= Len(Plan(request[b]))
  BY DEF Fill, TypeOK, More
<1>2. /\ DOMAIN w = Views /\ request[b] \in Change /\ db \in Database /\ snapshot[b] \in Database
  BY DEF TypeOK, Shown, Fill, Timetables, Writes
<1>3. /\ i \in 1..10
      /\ Wanted(b) = "course_rating" <=> i \in {1, 6}
      /\ Wanted(b) = "prof_rating" <=> i \in {2, 7}
      /\ Wanted(b) = "prof_teaches_course" <=> i \in {3, 8}
      /\ Wanted(b) = "course_search_index" <=> i \in {4, 9}
      /\ Wanted(b) = "prof_search_index" <=> i \in {5, 10}
  <2>1. i \in 1..10
    <3> DEFINE n == Len(Plan(request[b]))
    <3>1. i \in 1..11 /\ i <= n /\ n \in {5, 7, 10}
      BY <1>1, TimetablePlan
    <3> HIDE DEF i, n
    <3> QED BY <3>1
  <2>2. step[b] <= Len(Plan(request[b]))
    BY <1>1
  <2>3. TypeOK
    OBVIOUS
  <2> HIDE DEF TimetableInv, i
  <2>4. /\ Wanted(b) = "course_rating" <=> step[b] \in {1, 6}
        /\ Wanted(b) = "prof_rating" <=> step[b] \in {2, 7}
        /\ Wanted(b) = "prof_teaches_course" <=> step[b] \in {3, 8}
        /\ Wanted(b) = "course_search_index" <=> step[b] \in {4, 9}
        /\ Wanted(b) = "prof_search_index" <=> step[b] \in {5, 10}
    BY <2>2, <2>3, TimetablePlan
  <2> QED BY <2>1, <2>4 DEF i
<1>4. i >= 2 => then.classes = Stands(b, i)
  <2>1. SUFFICES ASSUME i >= 2 PROVE then.classes = Stands(b, i)
    OBVIOUS
  <2>2. snapshot[b].classes = db.classes
    BY <2>1 DEF InOrder, Listed, Fill
  <2> QED BY <1>2, <1>3, <2>2, ClassesByChange DEF Stands
<1>5. i >= 2 => Rated(then) = Rated(Applied(db, request[b], i))
  <2>1. SUFFICES ASSUME i >= 2 PROVE Rated(then) = Rated(Applied(db, request[b], i))
    OBVIOUS
  <2>2. Rated(snapshot[b]) = Rated(db)
    BY <2>1, TimetablesRate DEF HeldStill, Fill
  <2> QED BY <1>2, <1>3, <2>2, SameRatings
<1>6. request[b].op = "import" => \A k \in Nat : Rated(Applied(db, request[b], k)) = Rated(db)
  BY <1>2, RatedByChange
<1>7. /\ Content("course_rating", then, w) = Rated(then)
      /\ Content("prof_teaches_course", then, w) = then.classes
      /\ Content("course_search_index", then, w) =
           [ratings |-> w["course_rating"], taught |-> w["prof_teaches_course"], offered |-> then.classes]
      /\ Content("prof_search_index", then, w) =
           [ratings |-> w["prof_rating"], taught |-> w["prof_teaches_course"], offered |-> {}]
  BY DEF Content
<1>8. i >= 3 => w["prof_rating"] = Rated(Applied(db, request[b], i))
  BY TimetablesRate DEF HeldStill
<1>9. Listed(b) /\ Repairs(b)
  BY DEF InOrder
<1>10. \A k \in Nat : Stands(b, k)' = Stands(b, k)
  BY <1>1 DEF Stands
<1>11. /\ \A k, n \in Nat : (k <= 5 <=> n <= 5) => Stands(b, k) = Stands(b, n)
  BY StandsFacts
<1> HIDE DEF then, x, w, i
<1>12. /\ x["course_rating"] = IF i \in {1, 6} THEN Rated(then) ELSE w["course_rating"]
       /\ x["prof_teaches_course"] = IF i \in {3, 8} THEN then.classes ELSE w["prof_teaches_course"]
       /\ i \notin {4, 9} => x["course_search_index"] = w["course_search_index"]
       /\ i \notin {5, 10} => x["prof_search_index"] = w["prof_search_index"]
  <2>1. \A v \in Views : x[v] = IF v = Wanted(b) THEN Content(Wanted(b), then, w) ELSE w[v]
    BY <1>1, <1>2
  <2>2. x["course_rating"] = IF i \in {1, 6} THEN Rated(then) ELSE w["course_rating"]
    BY <1>3, <1>7, <2>1 DEF Views
  <2>3. x["prof_teaches_course"] = IF i \in {3, 8} THEN then.classes ELSE w["prof_teaches_course"]
    BY <1>3, <1>7, <2>1 DEF Views
  <2>4. i \notin {4, 9} => x["course_search_index"] = w["course_search_index"]
    BY <1>3, <2>1 DEF Views
  <2>5. i \notin {5, 10} => x["prof_search_index"] = w["prof_search_index"]
    BY <1>3, <2>1 DEF Views
  <2> QED BY <2>2, <2>3, <2>4, <2>5
<1>13. i \in {4, 9} => /\ x["course_search_index"].ratings = w["course_rating"]
                       /\ x["course_search_index"].taught = w["prof_teaches_course"]
                       /\ x["course_search_index"].offered = then.classes
  BY <1>1, <1>2, <1>3, <1>7 DEF Views
<1>14. i \in {5, 10} => /\ x["prof_search_index"].ratings = w["prof_rating"]
                        /\ x["prof_search_index"].taught = w["prof_teaches_course"]
  BY <1>1, <1>2, <1>3, <1>7 DEF Views
<1>15. /\ i >= 4 => w["prof_teaches_course"] = Stands(b, IF i >= 9 THEN 8 ELSE 3)
       /\ i >= 5 => /\ w["course_search_index"].taught = Stands(b, IF i >= 10 THEN 9 ELSE 4)
                    /\ w["course_search_index"].offered = Stands(b, IF i >= 10 THEN 9 ELSE 4)
       /\ i >= 6 => w["prof_search_index"].taught = Stands(b, IF i >= 11 THEN 10 ELSE 5)
  BY <1>9 DEF Listed, w, i
<1>16. Stands(b, 3) = Stands(b, 4) /\ Stands(b, 3) = Stands(b, 5) /\ Stands(b, 8) = Stands(b, 9) /\ Stands(b, 8) = Stands(b, 10)
  BY <1>11
<1>17. /\ i + 1 >= 4 => x["prof_teaches_course"] = Stands(b, IF i + 1 >= 9 THEN 8 ELSE 3)
       /\ i + 1 >= 5 => /\ x["course_search_index"].taught = Stands(b, IF i + 1 >= 10 THEN 9 ELSE 4)
                        /\ x["course_search_index"].offered = Stands(b, IF i + 1 >= 10 THEN 9 ELSE 4)
       /\ i + 1 >= 6 => x["prof_search_index"].taught = Stands(b, IF i + 1 >= 11 THEN 10 ELSE 5)
  <2>1. i + 1 >= 4 => x["prof_teaches_course"] = Stands(b, IF i + 1 >= 9 THEN 8 ELSE 3)
    BY <1>3, <1>4, <1>12, <1>15, <1>16
  <2>2. i + 1 >= 5 => x["course_search_index"].taught = Stands(b, IF i + 1 >= 10 THEN 9 ELSE 4)
    BY <1>3, <1>12, <1>13, <1>15, <1>16
  <2>3. i + 1 >= 5 => x["course_search_index"].offered = Stands(b, IF i + 1 >= 10 THEN 9 ELSE 4)
    BY <1>3, <1>4, <1>12, <1>13, <1>15, <1>16
  <2>4. i + 1 >= 6 => x["prof_search_index"].taught = Stands(b, IF i + 1 >= 11 THEN 10 ELSE 5)
    BY <1>3, <1>12, <1>14, <1>15, <1>16
  <2> QED BY <2>1, <2>2, <2>3, <2>4
<1>18. Listed(b)'
  BY <1>1, <1>10, <1>17 DEF Listed, x
<1>19. Repairs(b)'
  <2> SUFFICES ASSUME request[b].op = "import"
               PROVE  /\ i + 1 >= 7 => x["course_rating"] = Rated(db)
                      /\ i + 1 >= 10 => x["course_search_index"].ratings = Rated(db)
                      /\ i + 1 >= 11 => x["prof_search_index"].ratings = Rated(db)
    BY <1>1 DEF Repairs, x
  <2>1. /\ i >= 7 => w["course_rating"] = Rated(db)
        /\ i >= 10 => w["course_search_index"].ratings = Rated(db)
    BY <1>9 DEF Repairs, w, i
  <2>2. i >= 3 => w["prof_rating"] = Rated(db) /\ Rated(then) = Rated(db)
    <3>1. i \in Nat
      BY <1>3
    <3> QED BY <1>3, <1>5, <1>6, <1>8, <3>1
  <2>3. i + 1 >= 7 => x["course_rating"] = Rated(db)
    BY <1>3, <1>12, <2>1, <2>2
  <2>4. i + 1 >= 10 => x["course_search_index"].ratings = Rated(db)
    BY <1>3, <1>12, <1>13, <2>1
  <2>5. i + 1 >= 11 => x["prof_search_index"].ratings = Rated(db)
    BY <1>3, <1>14, <2>2
  <2> QED BY <2>3, <2>4, <2>5
<1> QED BY <1>18, <1>19

LEMMA StepInOrder == TimetableInv /\ TypeOK' /\ [Next]_vars => \A b \in Backends : InOrder(b)'
<1> SUFFICES ASSUME TimetableInv, TypeOK', [Next]_vars PROVE \A b \in Backends : InOrder(b)'
  OBVIOUS
<1> USE DEF TimetableInv, CourseInv, RatingInv, tables
<1>1. ASSUME NEW b \in Backends, End(b), UNCHANGED db
      PROVE  \A c \in Backends : InOrder(c)'
  <2>1. ~Timetables(b)'
    BY <1>1, IdleIsNoRequest DEF TypeOK, End, Writes, Timetables
  <2>2. \A c \in Backends \ {b} : /\ request'[c] = request[c] /\ step'[c] = step[c] /\ snapshot'[c] = snapshot[c]
                                  /\ draft'[c] = draft[c]
    BY <1>1 DEF TypeOK, End
  <2>3. \A c \in Backends \ {b} : InOrder(c)'
    BY <1>1, <2>2, InOrderFrame
  <2> QED BY <2>1, <2>3 DEF InOrder
<1>2. ASSUME NEW b \in Backends, NEW q \in Requests, Begin(b, q)
      PROVE  \A c \in Backends : InOrder(c)'
  <2>1. step[b] = 1 /\ step' = step /\ snapshot' = snapshot /\ draft' = draft /\ db' = db
    <3>1. step[b] <= Len(Plan(Idle)) + 1 /\ step[b] \in 1..11
      BY <1>2 DEF TypeOK, Begin
    <3> QED BY <1>2, <3>1, IdlePlan DEF Begin
  <2>2. \A c \in Backends \ {b} : request'[c] = request[c]
    BY <1>2 DEF TypeOK, Begin
  <2>3. \A c \in Backends \ {b} : InOrder(c)'
    BY <2>1, <2>2, InOrderFrame
  <2>4. InOrder(b)'
    BY <2>1 DEF InOrder, Listed, Repairs
  <2> QED BY <2>3, <2>4
<1>3. ASSUME NEW b \in Backends, Snapshot(b)
      PROVE  \A c \in Backends : InOrder(c)'
  <2>1. request' = request /\ step' = step /\ draft' = draft /\ db' = db /\ snapshot'[b] = db
    BY <1>3 DEF Snapshot, TypeOK
  <2>2. \A c \in Backends \ {b} : snapshot'[c] = snapshot[c]
    BY <1>3 DEF Snapshot, TypeOK
  <2>3. \A c \in Backends \ {b} : InOrder(c)'
    BY <2>1, <2>2, InOrderFrame
  <2>4. InOrder(b)'
    BY <2>1 DEF InOrder, Timetables, Writes, Listed, Repairs, Stands
  <2> QED BY <2>3, <2>4
<1>4. ASSUME NEW b \in Backends, Fill(b)
      PROVE  \A c \in Backends : InOrder(c)'
  <2>1. request' = request /\ db' = db
    BY <1>4 DEF Fill
  <2>2. \A c \in Backends \ {b} : step'[c] = step[c] /\ snapshot'[c] = snapshot[c] /\ draft'[c] = draft[c]
    BY <1>4 DEF Fill, TypeOK
  <2>3. \A c \in Backends \ {b} : InOrder(c)'
    BY <2>1, <2>2, InOrderFrame
  <2>4. InOrder(b)'
    BY <1>4, <2>1, FillInOrder DEF InOrder, Timetables, Writes
  <2> QED BY <2>3, <2>4
<1>5. ASSUME NEW b \in Backends, Commit(b)
      PROVE  \A c \in Backends : InOrder(c)'
  <2>1. ~Timetables(b)'
    BY <1>5, IdleIsNoRequest DEF TypeOK, Commit, End, Writes, Timetables
  <2>2. \A c \in Backends \ {b} : /\ request'[c] = request[c] /\ step'[c] = step[c] /\ snapshot'[c] = snapshot[c]
                                  /\ draft'[c] = draft[c]
    BY <1>5 DEF TypeOK, Commit, End
  <2>3. ASSUME NEW c \in Backends \ {b}, Timetables(c), step[c] >= 2
        PROVE  db'.classes = db.classes /\ Rated(db') = Rated(db)
    <3>1. Rated(db') = Rated(db)
      BY <1>5, <2>3, RatedKept, TimetablesRate
    <3>2. ~Timetables(b)
      <4>1. SUFFICES ASSUME Timetables(b) PROVE FALSE
        OBVIOUS
      <4>2. step[b] \in 1..11 /\ step[b] >= 3
        BY <1>5, <4>1, RatersEnd, TimetablesRate DEF TypeOK, Commit
      <4>3. step[b] >= 2
        BY <4>2
      <4> QED BY <2>3, <4>1, <4>3, OneRater, TimetablesRate
    <3>3. db'.classes = db.classes
      BY <1>5, <3>2, NoTimetable DEF Commit
    <3> QED BY <3>1, <3>3
  <2>4. \A c \in Backends \ {b} : InOrder(c)'
    BY <2>2, <2>3, InOrderFrame
  <2> QED BY <2>1, <2>4 DEF InOrder
<1>6. ASSUME NEW b \in Backends, Share(b)
      PROVE  \A c \in Backends : InOrder(c)'
  <2>1. request' = request /\ snapshot' = snapshot /\ draft' = draft /\ db' = db
    BY <1>6 DEF Share
  <2>2. \A c \in Backends \ {b} : step'[c] = step[c]
    BY <1>6 DEF Share, TypeOK
  <2>3. \A c \in Backends \ {b} : InOrder(c)'
    BY <2>1, <2>2, InOrderFrame
  <2>4. ~Timetables(b)'
    BY <1>6, <2>1, ChangesAreNoQueries DEF Share, Reads, Timetables, Writes
  <2> QED BY <2>3, <2>4 DEF InOrder
<1>7. ASSUME NEW b \in Backends, Answer(b) \/ Rollback(b)
      PROVE  \A c \in Backends : InOrder(c)'
  BY <1>1, <1>7 DEF Answer, Rollback
<1>8. CASE UNCHANGED vars
  BY <1>8, InOrderFrame DEF vars
<1> QED BY <1>2, <1>3, <1>4, <1>5, <1>6, <1>7, <1>8 DEF Next

\* What a change of the timetable leaves in the views when it commits.
LEMMA CommitTimetable ==
  ASSUME TimetableInv, NEW b \in Backends, Commit(b), Timetables(b)
  PROVE  /\ view'["prof_teaches_course"] = db'.classes
         /\ view'["course_search_index"].taught = db'.classes /\ view'["course_search_index"].offered = db'.classes
         /\ view'["prof_search_index"].taught = db'.classes
         /\ request[b].op = "import" =>
              /\ view'["course_rating"] = Rated(db') /\ view'["course_search_index"].ratings = Rated(db')
              /\ view'["prof_search_index"].ratings = Rated(db')
<1> USE DEF TimetableInv, CourseInv, RatingInv, tables
<1> DEFINE n == Len(Plan(request[b]))
           i == step[b]
<1>1. TypeOK /\ InOrder(b) /\ request[b] \in Change /\ db \in Database
  BY DEF TypeOK, Timetables, Writes
<1>2. i <= n + 1 /\ ~(i <= n)
  BY DEF TypeOK, Commit, More
<1>3. i \in 1..11 /\ n \in {5, 7, 10} /\ (request[b].op = "import" <=> n = 10)
  BY TimetablePlan
<1>4. i \in {6, 8, 11} /\ (request[b].op = "import" <=> i = 11)
  <2> HIDE DEF i, n, TimetableInv
  <2> QED BY <1>2, <1>3
<1>5. step[b] >= 2 /\ step[b] >= 6
  BY <1>4
<1>6. {"course_rating", "prof_teaches_course", "course_search_index", "prof_search_index"} \subseteq Locked(b)
  BY <1>1, <1>5, TimetablePlan, RatersLock, TimetablesRate
<1>7. \A v \in Locked(b) \cap Views : view'[v] = draft[b][v]
  BY DEF Commit
<1>8. /\ view'["prof_teaches_course"] = draft[b]["prof_teaches_course"]
      /\ view'["course_search_index"] = draft[b]["course_search_index"]
      /\ view'["prof_search_index"] = draft[b]["prof_search_index"]
      /\ view'["course_rating"] = draft[b]["course_rating"]
  BY <1>6, <1>7 DEF Views
<1>9. db'.classes = Stands(b, i)
  BY DEF Commit, Stands
<1>10. Listed(b) /\ Repairs(b)
  BY <1>1 DEF InOrder
<1>11. /\ \A k, m \in Nat : (k <= 5 <=> m <= 5) => Stands(b, k) = Stands(b, m)
       /\ request[b].op # "import" => \A k \in Nat : Stands(b, k) = db.classes
  BY <1>1, StandsFacts
<1>12. request[b].op = "import" => Rated(db') = Rated(db)
  BY <1>1, <1>3, RatedByChange DEF Commit
<1> HIDE DEF i, n, TimetableInv
<1>13. /\ draft[b]["prof_teaches_course"] = Stands(b, IF i >= 9 THEN 8 ELSE 3)
       /\ draft[b]["course_search_index"].taught = Stands(b, IF i >= 10 THEN 9 ELSE 4)
       /\ draft[b]["course_search_index"].offered = Stands(b, IF i >= 10 THEN 9 ELSE 4)
       /\ draft[b]["prof_search_index"].taught = Stands(b, IF i >= 11 THEN 10 ELSE 5)
  BY <1>4, <1>10 DEF Listed, i
<1>14. Stands(b, i) = Stands(b, IF i >= 9 THEN 8 ELSE 3) /\ Stands(b, i) = Stands(b, IF i >= 10 THEN 9 ELSE 4)
       /\ Stands(b, i) = Stands(b, IF i >= 11 THEN 10 ELSE 5)
  <2>1. CASE i = 11
    BY <1>11, <2>1
  <2>2. CASE i \in {6, 8}
    BY <1>4, <1>11, <2>2
  <2> QED BY <1>4, <2>1, <2>2
<1>15. request[b].op = "import" => /\ draft[b]["course_rating"] = Rated(db)
                                   /\ draft[b]["course_search_index"].ratings = Rated(db)
                                   /\ draft[b]["prof_search_index"].ratings = Rated(db)
  BY <1>4, <1>10 DEF Repairs, i
<1> QED BY <1>8, <1>9, <1>12, <1>13, <1>14, <1>15

LEMMA StepIndexes == TimetableInv /\ [Next]_vars => IndexesFollowTimetable'
<1> SUFFICES ASSUME TimetableInv, [Next]_vars PROVE IndexesFollowTimetable'
  OBVIOUS
<1> USE DEF TimetableInv, CourseInv, RatingInv, tables
<1>1. ASSUME NEW b \in Backends, Commit(b)
      PROVE  IndexesFollowTimetable'
  <2>1. CASE Timetables(b)
    BY <1>1, <2>1, CommitTimetable DEF IndexesFollowTimetable
  <2>2. CASE ~Timetables(b)
    <3>1. Locked(b) \cap {"prof_teaches_course", "course_search_index", "prof_search_index"} = {}
          /\ db'.classes = db.classes
      BY <1>1, <2>2, NoTimetable DEF Commit
    <3>2. \A v \in {"prof_teaches_course", "course_search_index", "prof_search_index"} : view'[v] = view[v]
      BY <1>1, <3>1 DEF Commit, Views
    <3> QED BY <3>1, <3>2 DEF IndexesFollowTimetable
  <2> QED BY <2>1, <2>2
<1>2. ASSUME NEW b \in Backends, NEW q \in Requests, Begin(b, q)
      PROVE  IndexesFollowTimetable'
  BY <1>2 DEF IndexesFollowTimetable, Begin
<1>3. ASSUME NEW b \in Backends, Snapshot(b) \/ Fill(b) \/ Share(b) \/ Answer(b) \/ Rollback(b)
      PROVE  IndexesFollowTimetable'
  BY <1>3 DEF IndexesFollowTimetable, Snapshot, Fill, Share, Answer, Rollback
<1>4. CASE UNCHANGED vars
  BY <1>4 DEF vars, IndexesFollowTimetable
<1> QED BY <1>1, <1>2, <1>3, <1>4 DEF Next

LEMMA TimetableInvAlways == Spec => []TimetableInv
<1>1. Init => TimetableInv
  <2> SUFFICES ASSUME Init PROVE TimetableInv
    OBVIOUS
  <2>1. \A b \in Backends : InOrder(b)
    BY IdleIsNoRequest DEF Init, InOrder, Timetables, Writes
  <2>2. IndexesFollowTimetable
    BY DEF Init, IndexesFollowTimetable, Blank, EmptyView, FirstDatabase, Views
  <2> QED BY <2>1, <2>2, InitCourseRating DEF TimetableInv
<1>2. TimetableInv /\ [Next]_vars => TimetableInv'
  <2> SUFFICES ASSUME TimetableInv, [Next]_vars PROVE TimetableInv'
    OBVIOUS
  <2>1. CourseInv' /\ TypeOK'
    BY StepTyped, StepExclusive, StepHeldStill, StepProfRating, StepDrafted, StepCourseRating
    DEF TimetableInv, CourseInv, RatingInv
  <2> QED BY <2>1, StepInOrder, StepIndexes DEF TimetableInv
<1> QED BY <1>1, <1>2, PTL DEF Spec

\* Both search indexes and the list of who teaches what always follow one
\* committed timetable.
THEOREM IndexesAlwaysFollow == Spec => []IndexesFollowTimetable
<1>1. TimetableInv => IndexesFollowTimetable
  BY DEF TimetableInv
<1> QED BY <1>1, TimetableInvAlways, PTL

RepairStep ==
  \A b \in Backends :
    request[b].op = "import" /\ Commit(b) =>
      /\ view'["course_rating"] = Rated(db') /\ view'["course_search_index"].ratings = Rated(db')
      /\ view'["prof_search_index"].ratings = Rated(db')

\* Each import leaves the ratings of courses and both indexes with all reviews
\* that are committed when it commits.
THEOREM ImportsRepair == Spec => ImportRepairs
<1>1. TimetableInv /\ [Next]_vars => RepairStep
  <2> SUFFICES ASSUME TimetableInv, NEW b \in Backends, request[b].op = "import", Commit(b)
               PROVE  /\ view'["course_rating"] = Rated(db') /\ view'["course_search_index"].ratings = Rated(db')
                      /\ view'["prof_search_index"].ratings = Rated(db')
    BY DEF RepairStep
  <2>1. Timetables(b)
    BY DEF Timetables, Commit
  <2> QED BY <2>1, CommitTimetable
<1>2. TimetableInv /\ [Next]_vars => [RepairStep]_vars
  BY <1>1
<1> QED BY <1>2, TimetableInvAlways, PTL DEF Spec, ImportRepairs, RepairStep

-----------------------------------------------------------------------------
(* The counts of votes.  Rows that are written, or refer to one that is     *)
(* deleted, keep their transactions apart, so a review that appears while   *)
(* a count is refreshed has no votes.                                       *)
Counted(s) == IF s = "course" THEN "course_review_rating" ELSE "prof_review_rating"

RowsApart ==
  /\ \A b, c \in Backends : b # c /\ request[c].op = "review" =>
       /\ request[b].op = "review" => request[b].review # request[c].review
       /\ request[b].op = "vote" /\ request[c].to = "absent" => request[b].vote[1] # request[c].review
  /\ \A b \in Backends : request[b].op = "vote" => request[b].vote[1] \in Present(db)
  /\ \A s \in Sides : \A v \in db.votes[s] : v[1] \in Present(db)

\* w counts the votes of d on side s.
Agrees(w, d, s) ==
  /\ DOMAIN w \subseteq Present(d)
  /\ \A r \in Present(d) : VotesOf(d, s, r) = IF r \in DOMAIN w THEN w[r] ELSE {}

CountsDrafted ==
  \A b \in Backends, s \in Sides : Writes(b) /\ Counted(s) \in Locked(b) /\ Counted(s) \notin late[b] =>
    Agrees(draft[b][Counted(s)], Applied(db, request[b], step[b]), s)

VotesInv == TypeOK /\ Exclusive /\ RowsApart /\ CountsDrafted /\ CountsAreVotes

Voted(q, s, V) ==
  IF q.op = "review" THEN IF q.to = "absent" THEN {v \in V : v[1] # q.review} ELSE V
  ELSE IF q.op = "vote" /\ q.side = s THEN IF q.given THEN V \cup {q.vote} ELSE V \ {q.vote}
  ELSE IF q.op = "account" THEN {v \in V : v[2] # q.voter} ELSE V

LEMMA RowsByChange ==
  ASSUME NEW d \in Database, NEW q \in Change, NEW i \in Nat
  PROVE  /\ \A r \in Reviews : Applied(d, q, i).review[r] = IF q.op = "review" /\ r = q.review THEN q.to ELSE d.review[r]
         /\ \A s \in Sides : Applied(d, q, i).votes[s] = Voted(q, s, d.votes[s])
<1>1. CASE q \in ReviewWrite
  <2>1. q.op = "review" /\ q.review \in Reviews /\ q.to \in States
    BY <1>1 DEF ReviewWrite
  <2>2. Applied(d, q, i).review = [d.review EXCEPT ![q.review] = q.to]
    BY <2>1 DEF Applied, Database
  <2>3. Applied(d, q, i).votes = [s \in Sides |-> IF q.to # "absent" THEN d.votes[s] ELSE {v \in d.votes[s] : v[1] # q.review}]
    BY <2>1 DEF Applied, Database
  <2>4. \A s \in Sides : Applied(d, q, i).votes[s] = Voted(q, s, d.votes[s])
    BY <2>1, <2>3 DEF Voted
  <2> QED BY <2>1, <2>2, <2>4 DEF Database
<1>2. CASE q \in Vote
  <2>1. q.op = "vote" /\ q.side \in Sides
    BY <1>2 DEF Vote
  <2> DEFINE new == IF q.given THEN d.votes[q.side] \cup {q.vote} ELSE d.votes[q.side] \ {q.vote}
  <2>2. Applied(d, q, i) = [d EXCEPT !.votes[q.side] = new]
    BY <2>1 DEF Applied
  <2>3. \A s \in Sides : s = q.side => Voted(q, s, d.votes[s]) = new
    BY <2>1 DEF Voted
  <2>4. \A s \in Sides : s # q.side => Voted(q, s, d.votes[s]) = d.votes[s]
    BY <2>1 DEF Voted
  <2> HIDE DEF new
  <2>5. Applied(d, q, i).votes = [d.votes EXCEPT ![q.side] = new] /\ Applied(d, q, i).review = d.review
    BY <2>2 DEF Database
  <2>6. d.votes \in [Sides -> SUBSET (Reviews \X Voters)]
    BY DEF Database
  <2>7. \A s \in Sides : Applied(d, q, i).votes[s] = Voted(q, s, d.votes[s])
    BY <2>1, <2>3, <2>4, <2>5, <2>6
  <2> QED BY <2>1, <2>5, <2>7
<1>3. CASE q \in AccountEnd
  <2>1. q.op = "account"
    BY <1>3 DEF AccountEnd
  <2>2. Applied(d, q, i).votes = [s \in Sides |-> {v \in d.votes[s] : v[2] # q.voter}] /\ Applied(d, q, i).review = d.review
    BY <2>1 DEF Applied, Database
  <2>3. \A s \in Sides : Applied(d, q, i).votes[s] = Voted(q, s, d.votes[s])
    BY <2>1, <2>2 DEF Voted
  <2> QED BY <2>1, <2>2, <2>3
<1>4. CASE q \in Import \cup Vacuum
  <2>1. q.op \in {"import", "vacuum_sections", "vacuum_profs"}
    BY <1>4 DEF Import, Vacuum
  <2>2. Applied(d, q, i).votes = d.votes /\ Applied(d, q, i).review = d.review
    BY <2>1 DEF Applied, Database
  <2> QED BY <2>1, <2>2 DEF Voted
<1> QED BY <1>1, <1>2, <1>3, <1>4 DEF Change

LEMMA CountedIsView ==
  ASSUME NEW s \in Sides
  PROVE  Counted(s) \in Views /\ \A t \in Sides : t # s => Counted(t) # Counted(s)
  BY DEF Counted, Views, Sides

\* A view that is filled counts the votes it is computed from.
LEMMA FilledAgrees ==
  ASSUME NEW d \in Database, NEW s \in Sides, NEW w
  PROVE  Agrees(Content(Counted(s), d, w), d, s)
<1>1. Content(Counted(s), d, w) = [r \in Present(d) |-> VotesOf(d, s, r)]
  BY DEF Counted, Content, Sides
<1> QED BY <1>1 DEF Agrees

\* What commits without a lock on the counts.
LEMMA CommitsUncounted ==
  ASSUME TypeOK, NEW b \in Backends, Commit(b), NEW s \in Sides, Counted(s) \notin Locked(b)
  PROVE  /\ db'.votes[s] = db.votes[s]
         /\ request[b].op = "review" => request[b].to # "absent"
<1> DEFINE q == request[b]
           n == Len(Plan(q))
<1>1. q \in Change /\ step[b] \in 1..11 /\ db \in Database /\ db' = Applied(db, q, step[b])
  BY DEF TypeOK, Commit, Writes
<1>2. n \in 0..10 /\ step[b] = n + 1
  <2>1. n \in 0..10
    BY <1>1, PlanTyped DEF Kinds
  <2>2. step[b] <= n + 1 /\ ~(step[b] <= n)
    BY DEF TypeOK, Commit, More
  <2> HIDE DEF n
  <2> QED BY <1>1, <2>1, <2>2
<1>3. \A k \in 1..n : Plan(q)[k] # Counted(s)
  <2>1. \A k \in 1..n : k \in 1..(step[b] - 1)
    <3> HIDE DEF n
    <3> QED BY <1>2
  <2> QED BY <2>1 DEF Locked
<1>4. q.op # "account" /\ (q.op = "review" => q.to # "absent")
  <2>1. SUFFICES ASSUME q.op = "account" \/ (q.op = "review" /\ q.to = "absent") PROVE FALSE
    OBVIOUS
  <2>2. Plan(q) = OnReview \o OnVote("course") \o OnVote("prof")
    BY <2>1 DEF Plan
  <2>3. OnReview \o OnVote("course") \o OnVote("prof") =
          <<"course_rating", "prof_rating", "course_review_rating", "prof_review_rating">>
    <3>1. OnVote("course") = <<"course_review_rating">> /\ OnVote("prof") = <<"prof_review_rating">>
      BY DEF OnVote
    <3>2. OnReview \o <<"course_review_rating">> = <<"course_rating", "prof_rating", "course_review_rating">>
      BY Concat2And1 DEF OnReview
    <3> QED BY <3>1, <3>2, Concat3And1
  <2>4. n = 4 /\ Plan(q)[3] = "course_review_rating" /\ Plan(q)[4] = "prof_review_rating"
    <3>1. Plan(q) = <<"course_rating", "prof_rating", "course_review_rating", "prof_review_rating">>
      BY <2>2, <2>3
    <3> QED BY <3>1
  <2>5. 3 \in 1..n /\ 4 \in 1..n
    <3> HIDE DEF n
    <3> QED BY <2>4
  <2> QED BY <1>3, <2>4, <2>5 DEF Counted
<1>5. ~(q.op = "vote" /\ q.side = s)
  <2>1. SUFFICES ASSUME q.op = "vote", q.side = s PROVE FALSE
    OBVIOUS
  <2>2. Plan(q) = <<Counted(s)>>
    BY <2>1 DEF Plan, OnVote, Counted
  <2>3. n = 1 /\ Plan(q)[1] = Counted(s)
    BY <2>2
  <2>4. 1 \in 1..n
    <3> HIDE DEF n
    <3> QED BY <2>3
  <2> QED BY <1>3, <2>3, <2>4
<1>6. Voted(q, s, db.votes[s]) = db.votes[s]
  BY <1>4, <1>5 DEF Voted
<1>7. Applied(db, q, step[b]).votes[s] = Voted(q, s, db.votes[s])
  BY <1>1, RowsByChange
<1> QED BY <1>1, <1>4, <1>6, <1>7

LEMMA StepRows == TypeOK /\ RowsApart /\ [Next]_vars => RowsApart'
<1> SUFFICES ASSUME TypeOK, RowsApart, [Next]_vars PROVE RowsApart'
  OBVIOUS
<1> USE DEF tables
<1>1. ASSUME NEW b \in Backends, End(b), UNCHANGED db
      PROVE  RowsApart'
  <2>1. request'[b].op = "idle"
    BY <1>1 DEF TypeOK, End, Idle
  <2>2. \A c \in Backends \ {b} : request'[c] = request[c]
    BY <1>1 DEF TypeOK, End
  <2> QED BY <1>1, <2>1, <2>2 DEF RowsApart, Present
<1>2. ASSUME NEW b \in Backends, NEW q \in Requests, Begin(b, q)
      PROVE  RowsApart'
  <2>1. request'[b] = q /\ db' = db /\ \A c \in Backends \ {b} : request'[c] = request[c]
    BY <1>2 DEF TypeOK, Begin
  <2>2. CASE q \in Change
    <3>1. \A c \in Backends : ~SameRows(q, request[c]) /\ ~SameRows(request[c], q)
      BY <1>2, <2>2 DEF Begin
    <3>2. \A c \in Backends \ {b} :
            /\ q.op = "review" /\ request[c].op = "review" => q.review # request[c].review
            /\ q.op = "vote" /\ request[c].op = "review" /\ request[c].to = "absent" => q.vote[1] # request[c].review
            /\ request[c].op = "vote" /\ q.op = "review" /\ q.to = "absent" => request[c].vote[1] # q.review
      BY <3>1 DEF SameRows
    <3>3. q.op = "vote" => q.vote[1] \in Present(db)
      <4>1. SUFFICES ASSUME q.op = "vote" PROVE q.vote[1] \in Present(db)
        OBVIOUS
      <4>2. q.vote \in Reviews \X Voters
        BY <2>2, <4>1 DEF Change, ReviewWrite, Vote, AccountEnd, Import, Vacuum
      <4>3. db.review[q.vote[1]] # "absent"
        BY <1>2, <2>2, <4>1 DEF Begin, Allowed
      <4> QED BY <4>2, <4>3 DEF Present
    <3> QED BY <2>1, <3>2, <3>3 DEF RowsApart, Present
  <2>3. CASE q \in Query
    <3>1. q.op \notin {"review", "vote"}
      BY <2>3 DEF Query
    <3> QED BY <2>1, <3>1 DEF RowsApart, Present
  <2> QED BY <2>2, <2>3, RatingAssumption
<1>3. ASSUME NEW b \in Backends, Commit(b)
      PROVE  RowsApart'
  <2>1. request'[b].op = "idle"
    BY <1>3 DEF TypeOK, Commit, End, Idle
  <2>2. \A c \in Backends \ {b} : request'[c] = request[c]
    BY <1>3 DEF TypeOK, Commit, End
  <2>3. request[b] \in Change /\ step[b] \in Nat /\ db \in Database /\ db' = Applied(db, request[b], step[b])
    BY <1>3 DEF TypeOK, Commit, Writes
  <2>4. \A r \in Reviews : db'.review[r] = IF request[b].op = "review" /\ r = request[b].review THEN request[b].to ELSE db.review[r]
    BY <2>3, RowsByChange
  <2>5. \A s \in Sides : db'.votes[s] = Voted(request[b], s, db.votes[s])
    BY <2>3, RowsByChange
  <2>6. \A c \in Backends \ {b} : request[c].op = "vote" => request[c].vote[1] \in Present(db')
    BY <2>4 DEF RowsApart, Present
  <2>7. ASSUME NEW s \in Sides, NEW v \in db'.votes[s]
        PROVE  v[1] \in Present(db')
    <3>1. v \in Voted(request[b], s, db.votes[s])
      BY <2>5
    <3>2. v[1] \in Present(db) /\ (request[b].op = "review" /\ request[b].to = "absent" => v[1] # request[b].review)
      <4>1. CASE request[b].op = "review"
        BY <3>1, <4>1 DEF Voted, RowsApart
      <4>2. CASE request[b].op = "vote"
        BY <3>1, <4>2 DEF Voted, RowsApart
      <4>3. CASE request[b].op \notin {"review", "vote"}
        BY <3>1, <4>3 DEF Voted, RowsApart
      <4> QED BY <4>1, <4>2, <4>3
    <3> QED BY <2>4, <3>2 DEF Present
  <2> QED BY <2>1, <2>2, <2>6, <2>7 DEF RowsApart, Present
<1>4. ASSUME NEW b \in Backends, Snapshot(b) \/ Fill(b) \/ Share(b)
      PROVE  RowsApart'
  BY <1>4 DEF RowsApart, Present, Snapshot, Fill, Share
<1>5. ASSUME NEW b \in Backends, Answer(b) \/ Rollback(b)
      PROVE  RowsApart'
  BY <1>1, <1>5 DEF Answer, Rollback
<1>6. CASE UNCHANGED vars
  BY <1>6 DEF vars, RowsApart, Present
<1> QED BY <1>2, <1>3, <1>4, <1>5, <1>6 DEF Next

\* A commit without that lock leaves counts right, for whoever has changes of
\* its own pending and for the committed view.
LEMMA AgreesKept ==
  ASSUME TypeOK, RowsApart, NEW b \in Backends, Commit(b), NEW s \in Sides, Counted(s) \notin Locked(b), NEW w
  PROVE  /\ Agrees(w, db, s) => Agrees(w, db', s)
         /\ \A c \in Backends \ {b} : Writes(c) /\ Agrees(w, Applied(db, request[c], step[c]), s) =>
              Agrees(w, Applied(db', request[c], step[c]), s)
<1> DEFINE p == request[b]
<1>1. p \in Change /\ step[b] \in Nat /\ db \in Database /\ db' = Applied(db, p, step[b]) /\ db' \in Database
  <2>1. step[b] \in Nat /\ db \in Database
    BY DEF TypeOK
  <2>2. p \in Change /\ db' = Applied(db, p, step[b])
    BY DEF Commit, Writes
  <2> QED BY <2>1, <2>2, AppliedTyped
<1>2. db'.votes[s] = db.votes[s] /\ (p.op = "review" => p.to # "absent")
  BY CommitsUncounted
<1>3. \A r \in Reviews : db'.review[r] = IF p.op = "review" /\ r = p.review THEN p.to ELSE db.review[r]
  BY <1>1, RowsByChange
<1>4. ASSUME NEW d, NEW e, d.votes[s] = e.votes[s], Present(d) \subseteq Present(e),
             \A r \in Present(e) \ Present(d) : \A v \in d.votes[s] : v[1] # r,
             Agrees(w, d, s)
      PROVE  Agrees(w, e, s)
  BY <1>4 DEF Agrees, VotesOf
<1>5. ASSUME Agrees(w, db, s)
      PROVE  Agrees(w, db', s)
  <2>1. Present(db) \subseteq Present(db')
    BY <1>2, <1>3 DEF Present
  <2>2. \A v \in db.votes[s] : v[1] \in Present(db)
    BY DEF RowsApart
  <2> QED BY <1>2, <1>4, <1>5, <2>1, <2>2
<1>6. ASSUME NEW c \in Backends \ {b}, Writes(c), Agrees(w, Applied(db, request[c], step[c]), s)
      PROVE  Agrees(w, Applied(db', request[c], step[c]), s)
  <2> DEFINE q == request[c]
             d == Applied(db, q, step[c])
             e == Applied(db', q, step[c])
  <2>1. q \in Change /\ step[c] \in Nat
    BY <1>6 DEF TypeOK, Writes
  <2>2. /\ \A r \in Reviews : d.review[r] = IF q.op = "review" /\ r = q.review THEN q.to ELSE db.review[r]
        /\ \A r \in Reviews : e.review[r] = IF q.op = "review" /\ r = q.review THEN q.to ELSE db'.review[r]
        /\ d.votes[s] = Voted(q, s, db.votes[s]) /\ e.votes[s] = Voted(q, s, db'.votes[s])
    BY <1>1, <2>1, RowsByChange
  <2>3. d.votes[s] = e.votes[s]
    BY <1>2, <2>2
  <2>4. Present(d) \subseteq Present(e)
    BY <1>2, <1>3, <2>2 DEF Present
  <2>5. ASSUME NEW r \in Present(e) \ Present(d), NEW v \in d.votes[s]
        PROVE  v[1] # r
    <3>1. p.op = "review" /\ r = p.review /\ r \in Reviews /\ r \notin Present(db)
      BY <1>2, <1>3, <2>2, <2>5 DEF Present
    <3>2. v \in Voted(q, s, db.votes[s])
      BY <2>2, <2>5
    <3>3. v \in db.votes[s] \/ (q.op = "vote" /\ v = q.vote)
      BY <3>2 DEF Voted
    <3>4. v[1] \in Present(db)
      BY <3>3 DEF RowsApart
    <3> QED BY <3>1, <3>4
  <2> HIDE DEF d, e
  <2>6. Agrees(w, d, s)
    BY <1>6 DEF d
  <2>7. Agrees(w, e, s)
    BY <1>4, <2>3, <2>4, <2>5, <2>6
  <2> QED BY <2>7 DEF e
<1> QED BY <1>5, <1>6

LEMMA AgreesLater ==
  ASSUME NEW d \in Database, NEW q \in Change, NEW i \in Nat, NEW j \in Nat, NEW s \in Sides, NEW w,
         Agrees(w, Applied(d, q, i), s)
  PROVE  Agrees(w, Applied(d, q, j), s)
<1> DEFINE e == Applied(d, q, i)
           f == Applied(d, q, j)
<1>1. e.votes[s] = f.votes[s] /\ \A r \in Reviews : e.review[r] = f.review[r]
  <2>1. e.votes[s] = Voted(q, s, d.votes[s]) /\ f.votes[s] = Voted(q, s, d.votes[s])
    BY RowsByChange
  <2>2. /\ \A r \in Reviews : e.review[r] = IF q.op = "review" /\ r = q.review THEN q.to ELSE d.review[r]
        /\ \A r \in Reviews : f.review[r] = IF q.op = "review" /\ r = q.review THEN q.to ELSE d.review[r]
    BY RowsByChange
  <2> HIDE DEF e, f
  <2> QED BY <2>1, <2>2
<1> HIDE DEF e, f
<1>2. Agrees(w, e, s)
  BY DEF e
<1>3. Agrees(w, f, s)
  BY <1>1, <1>2 DEF Agrees, Present, VotesOf
<1> QED BY <1>3 DEF f

LEMMA StepCounts == VotesInv /\ [Next]_vars => CountsDrafted'
<1> SUFFICES ASSUME VotesInv, [Next]_vars PROVE CountsDrafted'
  OBVIOUS
<1> USE DEF VotesInv, tables
<1>1. ASSUME NEW b \in Backends, End(b), UNCHANGED db
      PROVE  CountsDrafted'
  <2>1. ~Writes(b)'
    BY <1>1, IdleIsNoRequest DEF TypeOK, End, Writes
  <2>2. \A c \in Backends \ {b} : /\ request'[c] = request[c] /\ step'[c] = step[c]
                                  /\ draft'[c] = draft[c] /\ late'[c] = late[c]
    BY <1>1 DEF TypeOK, End
  <2>3. \A c \in Backends \ {b} : Locked(c)' = Locked(c) /\ (Writes(c)' <=> Writes(c))
    BY <2>2, Untouched
  <2> QED BY <1>1, <2>1, <2>2, <2>3 DEF CountsDrafted
<1>2. ASSUME NEW b \in Backends, NEW q \in Requests, Begin(b, q)
      PROVE  CountsDrafted'
  <2>1. step[b] = 1
    <3>1. step[b] <= Len(Plan(Idle)) + 1 /\ step[b] \in 1..11
      BY <1>2 DEF TypeOK, Begin
    <3> QED BY <3>1, IdlePlan
  <2>2. Locked(b)' = {}
    BY <1>2, <2>1 DEF Begin, Locked
  <2>3. db' = db /\ draft' = draft /\ late' = late /\ step' = step /\ \A c \in Backends \ {b} : request'[c] = request[c]
    BY <1>2 DEF TypeOK, Begin
  <2>4. \A c \in Backends \ {b} : Locked(c)' = Locked(c) /\ (Writes(c)' <=> Writes(c))
    BY <2>3, Untouched
  <2> QED BY <2>2, <2>3, <2>4 DEF CountsDrafted
<1>3. ASSUME NEW b \in Backends, Snapshot(b)
      PROVE  CountsDrafted'
  BY <1>3 DEF CountsDrafted, Snapshot, Locked, Writes
<1>4. ASSUME NEW b \in Backends, Fill(b)
      PROVE  CountsDrafted'
  <2>1. \A c \in Backends : Locked(c)' = IF c = b THEN Locked(b) \cup {Wanted(b)} ELSE Locked(c)
    BY <1>4, LockedGrows DEF Fill
  <2>2. request' = request /\ db' = db /\ step'[b] = step[b] + 1
    BY <1>4 DEF Fill, TypeOK
  <2>3. \A c \in Backends \ {b} : step'[c] = step[c] /\ late'[c] = late[c] /\ draft'[c] = draft[c]
    BY <1>4 DEF Fill, TypeOK
  <2>4. \A c \in Backends : Writes(c)' <=> Writes(c)
    BY <2>2 DEF Writes
  <2>5. ASSUME NEW s \in Sides, Counted(s) \in Locked(b)', Counted(s) \notin late'[b]
        PROVE  Agrees(draft'[b][Counted(s)], Applied(db', request'[b], step'[b]), s)
    <3> DEFINE v == Counted(s)
               then == Applied(snapshot[b], request[b], step[b])
               now == Applied(db, request[b], step[b])
    <3>1. /\ request[b] \in Change /\ step[b] \in 1..11 /\ db \in Database
          /\ v \in Views /\ DOMAIN draft[b] = Views
      BY <1>4, CountedIsView DEF Fill, Writes, TypeOK, Shown
    <3>2. /\ draft'[b] = [draft[b] EXCEPT ![Wanted(b)] = Content(Wanted(b), then, draft[b])]
          /\ late'[b] = IF Content(Wanted(b), then, draft[b]) = Content(Wanted(b), now, draft[b])
                        THEN late[b] \ {Wanted(b)} ELSE late[b] \cup {Wanted(b)}
      BY <1>4 DEF Fill, TypeOK
    <3>3. now \in Database
      BY <3>1, AppliedTyped
    <3> HIDE DEF then, now, v
    <3>4. Agrees(draft'[b][v], now, s)
      <4>1. CASE Wanted(b) = v
        <5>1. draft'[b][v] = Content(v, then, draft[b])
          BY <3>1, <3>2, <4>1
        <5>2. Content(v, then, draft[b]) = Content(v, now, draft[b])
          BY <2>5, <3>2, <4>1 DEF v
        <5>3. Agrees(Content(v, now, draft[b]), now, s)
          BY <3>3, FilledAgrees DEF v
        <5> QED BY <5>1, <5>2, <5>3
      <4>2. CASE Wanted(b) # v
        <5>1. draft'[b][v] = draft[b][v] /\ v \notin late[b] /\ v \in Locked(b)
          BY <2>1, <2>5, <3>1, <3>2, <4>2 DEF v
        <5>2. Writes(b)
          BY <1>4 DEF Fill
        <5>3. Agrees(draft[b][v], now, s)
          BY <5>1, <5>2 DEF CountsDrafted, v, now
        <5> QED BY <5>1, <5>3
      <4> QED BY <4>1, <4>2
    <3>5. Agrees(draft'[b][v], Applied(db, request[b], step[b] + 1), s)
      <4>1. step[b] \in Nat /\ step[b] + 1 \in Nat
        BY <3>1
      <4>2. Agrees(draft'[b][v], Applied(db, request[b], step[b]), s)
        BY <3>4 DEF now
      <4> QED BY <3>1, <4>1, <4>2, AgreesLater
    <3> QED BY <2>2, <3>5 DEF v
  <2>6. ASSUME NEW c \in Backends \ {b}, NEW s \in Sides, Writes(c), Counted(s) \in Locked(c), Counted(s) \notin late[c]
        PROVE  Agrees(draft[c][Counted(s)], Applied(db, request[c], step[c]), s)
    BY <2>6 DEF CountsDrafted
  <2> QED BY <2>1, <2>2, <2>3, <2>4, <2>5, <2>6 DEF CountsDrafted
<1>5. ASSUME NEW b \in Backends, Commit(b)
      PROVE  CountsDrafted'
  <2>1. ~Writes(b)'
    BY <1>5, IdleIsNoRequest DEF TypeOK, Commit, End, Writes
  <2>2. \A c \in Backends \ {b} : /\ request'[c] = request[c] /\ step'[c] = step[c]
                                  /\ draft'[c] = draft[c] /\ late'[c] = late[c]
    BY <1>5 DEF TypeOK, Commit, End
  <2>3. \A c \in Backends \ {b} : Locked(c)' = Locked(c) /\ (Writes(c)' <=> Writes(c))
    BY <2>2, Untouched
  <2>4. ASSUME NEW c \in Backends \ {b}, NEW s \in Sides, Writes(c), Counted(s) \in Locked(c), Counted(s) \notin late[c]
        PROVE  Agrees(draft[c][Counted(s)], Applied(db', request[c], step[c]), s)
    <3>1. Counted(s) \notin Locked(b)
      BY <2>4 DEF Exclusive
    <3>2. Agrees(draft[c][Counted(s)], Applied(db, request[c], step[c]), s)
      BY <2>4 DEF CountsDrafted
    <3> QED BY <1>5, <2>4, <3>1, <3>2, AgreesKept
  <2> QED BY <2>1, <2>2, <2>3, <2>4 DEF CountsDrafted
<1>6. ASSUME NEW b \in Backends, Share(b)
      PROVE  CountsDrafted'
  <2>1. ~Writes(b)
    BY <1>6, ChangesAreNoQueries DEF Share, Reads, Writes
  <2>2. request' = request /\ draft' = draft /\ late' = late /\ db' = db /\ \A c \in Backends \ {b} : step'[c] = step[c]
    BY <1>6 DEF Share, TypeOK
  <2>3. ~Writes(b)' /\ \A c \in Backends \ {b} : Locked(c)' = Locked(c) /\ (Writes(c)' <=> Writes(c))
    BY <2>1, <2>2, Untouched DEF Writes
  <2> QED BY <2>2, <2>3 DEF CountsDrafted
<1>7. ASSUME NEW b \in Backends, Answer(b) \/ Rollback(b)
      PROVE  CountsDrafted'
  BY <1>1, <1>7 DEF Answer, Rollback
<1>8. CASE UNCHANGED vars
  BY <1>8 DEF vars, CountsDrafted, Locked, Writes
<1> QED BY <1>2, <1>3, <1>4, <1>5, <1>6, <1>7, <1>8 DEF Next

LEMMA CountsAgree == CountsAreVotes <=> \A s \in Sides : Counted(s) \notin missed => Agrees(view[Counted(s)], db, s)
  BY DEF CountsAreVotes, Agrees, Counted

LEMMA StepVotes == VotesInv /\ [Next]_vars => CountsAreVotes'
<1> SUFFICES ASSUME VotesInv, [Next]_vars PROVE CountsAreVotes'
  OBVIOUS
<1> USE DEF VotesInv, tables
<1>1. ASSUME NEW b \in Backends, Commit(b)
      PROVE  CountsAreVotes'
  <2>1. ASSUME NEW s \in Sides, Counted(s) \notin missed'
        PROVE  Agrees(view'[Counted(s)], db', s)
    <3>1. /\ view'[Counted(s)] = IF Counted(s) \in Locked(b) THEN draft[b][Counted(s)] ELSE view[Counted(s)]
          /\ missed' = (missed \ Locked(b)) \cup late[b] /\ Writes(b) /\ db' = Applied(db, request[b], step[b])
      BY <1>1, CountedIsView DEF Commit
    <3>2. CASE Counted(s) \in Locked(b)
      BY <2>1, <3>1, <3>2 DEF CountsDrafted
    <3>3. CASE Counted(s) \notin Locked(b)
      <4>1. Agrees(view[Counted(s)], db, s)
        BY <2>1, <3>1, <3>3, CountsAgree
      <4>2. Agrees(view[Counted(s)], db', s)
        BY <1>1, <3>3, <4>1, AgreesKept
      <4> QED BY <3>1, <3>3, <4>2
    <3> QED BY <3>2, <3>3
  <2> QED BY <2>1 DEF CountsAreVotes, Agrees, Counted
<1>2. ASSUME NEW b \in Backends, NEW q \in Requests, Begin(b, q)
      PROVE  CountsAreVotes'
  BY <1>2 DEF CountsAreVotes, Present, Begin
<1>3. ASSUME NEW b \in Backends, Snapshot(b) \/ Fill(b) \/ Share(b) \/ Answer(b) \/ Rollback(b)
      PROVE  CountsAreVotes'
  BY <1>3 DEF CountsAreVotes, Present, Snapshot, Fill, Share, Answer, Rollback
<1>4. CASE UNCHANGED vars
  BY <1>4 DEF vars, CountsAreVotes, Present
<1> QED BY <1>1, <1>2, <1>3, <1>4 DEF Next

LEMMA InitVotes == Init => VotesInv
<1> SUFFICES ASSUME Init PROVE VotesInv
  OBVIOUS
<1>1. RowsApart
  BY DEF Init, RowsApart, Idle, FirstDatabase
<1>2. CountsDrafted
  BY IdleIsNoRequest DEF Init, CountsDrafted, Writes
<1>3. CountsAreVotes
  <2>1. \A s \in Sides : DOMAIN view[Counted(s)] = {} /\ \A r \in Reviews : VotesOf(db, s, r) = {}
    BY DEF Init, Counted, Views, Blank, EmptyView, FirstDatabase, VotesOf
  <2>2. \A s \in Sides : Agrees(view[Counted(s)], db, s)
    BY <2>1 DEF Agrees, Present
  <2> QED BY <2>2, CountsAgree
<1> QED BY <1>1, <1>2, <1>3, InitTyped, InitExclusive DEF VotesInv

\* The vote counts that are shown are always those of the committed votes,
\* unless a refresh was overtaken.
THEOREM CountsAlwaysVotes == Spec => []CountsAreVotes
<1>1. VotesInv /\ [Next]_vars => VotesInv'
  BY StepTyped, StepExclusive, StepRows, StepCounts, StepVotes DEF VotesInv
<1>2. VotesInv => CountsAreVotes
  BY DEF VotesInv
<1> QED BY <1>1, <1>2, InitVotes, PTL DEF Spec

-----------------------------------------------------------------------------
(* Deadlocks among the views.                                              *)

\* What stands before a view in the plans that have it.
LEMMA PlanBefore ==
  ASSUME NEW q \in Kinds, NEW i \in 1..Len(Plan(q))
  PROVE  /\ q \in Change /\ Plan(q)[i] = "prof_search_index" => i > 1 /\ Plan(q)[i - 1] = "course_search_index"
         /\ q \in Query /\ Plan(q)[i] \in {"prof_rating", "course_review_rating", "prof_review_rating"} =>
              i > 1 /\ Plan(q)[1] = "course_rating"
<1>1. ASSUME q \in Change, Plan(q)[i] = "prof_search_index"
      PROVE  i > 1 /\ Plan(q)[i - 1] = "course_search_index"
  <2>1. q.op \in {"review", "account", "vote", "import", "vacuum_sections", "vacuum_profs"}
    BY <1>1 DEF Change, ReviewWrite, AccountEnd, Vote, Import, Vacuum
  <2>2. CASE q.op = "vote"
    BY <1>1, <2>2, VotePlans
  <2>3. CASE q.op \in {"review", "account"}
    <3>1. CASE Plan(q) = <<"course_rating", "prof_rating">>
      BY <1>1, <3>1
    <3>2. CASE Plan(q) = <<"course_rating", "prof_rating", "course_review_rating", "prof_review_rating">>
      BY <1>1, <3>2
    <3> QED BY <2>3, <3>1, <3>2, ReviewPlans
  <2>4. CASE q.op \in {"import", "vacuum_sections", "vacuum_profs"}
    <3>1. CASE Plan(q) = Five
      BY <1>1, <3>1 DEF Five
    <3>2. CASE Plan(q) = Seven
      BY <1>1, <3>2 DEF Seven
    <3>3. CASE Plan(q) = Ten
      BY <1>1, <3>3 DEF Ten
    <3> QED BY <2>4, <3>1, <3>2, <3>3, SectionPlans
  <2> QED BY <2>1, <2>2, <2>3, <2>4
<1>2. ASSUME q \in Query, Plan(q)[i] \in {"prof_rating", "course_review_rating", "prof_review_rating"}
      PROVE  i > 1 /\ Plan(q)[1] = "course_rating"
  <2>1. CASE Plan(q) = <<"course_rating", "prof_teaches_course", "prof_rating", "prof_teaches_course">>
    BY <1>2, <2>1
  <2>2. CASE Plan(q) = <<"course_search_index">>
    BY <1>2, <2>2
  <2>3. CASE Plan(q) = <<"course_search_index", "prof_search_index">>
    BY <1>2, <2>3
  <2>4. CASE Plan(q) = <<"prof_search_index", "course_search_index">>
    BY <1>2, <2>4
  <2> QED BY <1>2, <2>1, <2>2, <2>3, <2>4, QueryPlans
<1> QED BY <1>1, <1>2

\* The same of the views a session holds.
LEMMA LockedBefore ==
  ASSUME TypeOK, NEW b \in Backends
  PROVE  /\ Writes(b) /\ "prof_search_index" \in Locked(b) => "course_search_index" \in Locked(b)
         /\ Reads(b) /\ (\E v \in {"prof_rating", "course_review_rating", "prof_review_rating"} : v \in Locked(b)) =>
              "course_rating" \in Locked(b)
<1> DEFINE n == step[b]
           p == Plan(request[b])
<1>1. n \in 1..11 /\ n <= Len(p) + 1 /\ Len(p) \in 0..10 /\ request[b] \in Kinds
  BY PlanTyped DEF TypeOK, Kinds
<1>2. Locked(b) = {p[i] : i \in 1..(n - 1)}
  BY DEF Locked
<1>3. ASSUME NEW i \in 1..(n - 1)
      PROVE  /\ Writes(b) /\ p[i] = "prof_search_index" => i > 1 /\ p[i - 1] = "course_search_index"
             /\ Reads(b) /\ p[i] \in {"prof_rating", "course_review_rating", "prof_review_rating"} =>
                  i > 1 /\ p[1] = "course_rating"
  <2>1. i \in 1..Len(p)
    <3> HIDE DEF n, p
    <3> QED BY <1>1
  <2> QED BY <1>1, <2>1, PlanBefore DEF Writes, Reads
<1> HIDE DEF n, p
<1>4. ASSUME Writes(b), "prof_search_index" \in Locked(b)
      PROVE  "course_search_index" \in Locked(b)
  <2>1. PICK i \in 1..(n - 1) : p[i] = "prof_search_index"
    BY <1>2, <1>4
  <2>2. i - 1 \in 1..(n - 1) /\ p[i - 1] = "course_search_index"
    BY <1>1, <1>3, <1>4, <2>1
  <2> QED BY <1>2, <2>2
<1>5. ASSUME Reads(b), NEW v \in {"prof_rating", "course_review_rating", "prof_review_rating"}, v \in Locked(b)
      PROVE  "course_rating" \in Locked(b)
  <2>1. PICK i \in 1..(n - 1) : p[i] = v
    BY <1>2, <1>5
  <2>2. 1 \in 1..(n - 1) /\ p[1] = "course_rating"
    BY <1>1, <1>3, <1>5, <2>1
  <2> QED BY <1>2, <2>2
<1> QED BY <1>4, <1>5

\* A change that holds a view and wants another holds the ratings of courses.
LEMMA HoldsRatings ==
  ASSUME TypeOK, NEW b \in Backends, Writes(b), Locked(b) # {}, More(b)
  PROVE  Rates(b) /\ step[b] >= 2 /\ "course_rating" \in Locked(b)
<1> DEFINE n == step[b]
<1>1. n \in 1..11 /\ n # 1
  BY FirstStepLocksNothing DEF TypeOK
<1>2. n >= 2
  <2> HIDE DEF n
  <2> QED BY <1>1
<1>3. request[b].op # "vote"
  <2>1. ASSUME request[b].op = "vote"
        PROVE  FALSE
    <3>1. Plan(request[b]) = <<"course_review_rating">> \/ Plan(request[b]) = <<"prof_review_rating">>
      BY <2>1, VotePlans
    <3>2. Len(Plan(request[b])) = 1
      BY <3>1
    <3>3. n <= 1
      BY <3>2 DEF More
    <3> HIDE DEF n
    <3> QED BY <1>1, <1>2, <3>3
  <2> QED BY <2>1
<1> QED BY <1>2, <1>3, RatersLock DEF Rates

(* In a deadlock every session is waited for: it holds a view and wants    *)
(* another.  A change that does holds course_rating, alone.                *)
LEMMA NoDeadlock == TypeOK /\ Exclusive => DeadlockIsSearch
<1> SUFFICES ASSUME TypeOK, Exclusive, NEW S \in SUBSET Backends, Deadlocked(S), NEW b \in S
             PROVE  request[b].op \in {"search_profs", "import", "vacuum_sections", "vacuum_profs"}
  BY DEF DeadlockIsSearch
<1>1. PICK a \in S : WaitsFor(a, b)
  <2>1. ASSUME \A a \in S : ~WaitsFor(a, b)
        PROVE  FALSE
    <3>1. PICK c \in S : WaitsFor(b, c)
      BY DEF Deadlocked, Waiting
    <3>2. c \in S \ {b}
      BY <3>1 DEF WaitsFor
    <3>3. \A d \in S \ {b} : \E e \in S \ {b} : WaitsFor(d, e)
      BY <2>1 DEF Deadlocked, Waiting
    <3>4. S \ {b} \in (SUBSET S) \ {S}
      <4>1. S \ {b} \subseteq S /\ b \notin S \ {b}
        OBVIOUS
      <4>2. S \ {b} # S
        BY <4>1
      <4> QED BY <4>1, <4>2
    <3> QED BY <3>2, <3>3, <3>4 DEF Deadlocked, Waiting
  <2> QED BY <2>1
<1>2. PICK c \in S : WaitsFor(b, c)
  BY DEF Deadlocked, Waiting
<1>3. More(c)
  BY DEF Deadlocked, Waiting, WaitsFor
<1>4. /\ a \in Backends /\ b \in Backends /\ c \in Backends /\ b # c /\ More(b)
      /\ Locked(b) # {} /\ Wanted(b) \in Locked(c) /\ ~(Reads(b) /\ Reads(c))
  BY <1>1, <1>2 DEF WaitsFor
<1>5. \A d \in Backends : More(d) => Reads(d) \/ Writes(d)
  <2>1. \A d \in Backends : step[d] \in 1..11 /\ request[d] \in Change \cup Query \cup {Idle}
    BY DEF TypeOK
  <2> QED BY <2>1, IdlePlan DEF More, Reads, Writes
<1>6. Writes(c) => "course_rating" \in Locked(c)
  BY <1>3, <1>4, HoldsRatings
<1>7. CASE Writes(b)
  <2>1. Rates(b) /\ step[b] >= 2 /\ "course_rating" \in Locked(b)
    BY <1>4, <1>7, HoldsRatings
  <2>2. "course_rating" \notin Locked(c)
    BY <1>4, <1>7, <2>1 DEF Exclusive
  <2>3. Reads(c)
    BY <1>3, <1>4, <1>5, <1>6, <2>2
  <2>4. Wanted(b) \notin {"prof_rating", "course_review_rating", "prof_review_rating"}
    BY <1>4, <2>2, <2>3, LockedBefore
  <2>5. request[b].op \notin {"review", "account"}
    <3>1. ASSUME request[b].op \in {"review", "account"}
          PROVE  Wanted(b) \in {"prof_rating", "course_review_rating", "prof_review_rating"}
      <4> DEFINE n == step[b]
                 p == Plan(request[b])
      <4>1. n \in 1..11 /\ n >= 2 /\ n <= Len(p) /\ Wanted(b) = p[n]
        BY <1>4, <2>1 DEF TypeOK, More, Wanted
      <4>2. \/ p = <<"course_rating", "prof_rating">>
            \/ p = <<"course_rating", "prof_rating", "course_review_rating", "prof_review_rating">>
        BY <3>1, ReviewPlans
      <4> HIDE DEF n, p
      <4>3. CASE p = <<"course_rating", "prof_rating">>
        BY <4>1, <4>3
      <4>4. CASE p = <<"course_rating", "prof_rating", "course_review_rating", "prof_review_rating">>
        BY <4>1, <4>4
      <4> QED BY <4>2, <4>3, <4>4
    <3> QED BY <2>4, <3>1
  <2> QED BY <1>7, <2>1, <2>5 DEF Rates, Writes, Change, ReviewWrite, AccountEnd, Vote, Import, Vacuum
<1>8. CASE Reads(b)
  <2>1. Writes(c)
    BY <1>3, <1>4, <1>5, <1>8
  <2> DEFINE n == step[b]
             p == Plan(request[b])
  <2>2. n \in 1..11 /\ n # 1 /\ n <= Len(p) /\ Wanted(b) = p[n] /\ Locked(b) = {p[i] : i \in 1..(n - 1)}
    BY <1>4, FirstStepLocksNothing DEF TypeOK, More, Wanted, Locked
  <2>3. \/ p = <<"course_rating", "prof_teaches_course", "prof_rating", "prof_teaches_course">>
        \/ p = <<"course_search_index">>
        \/ p = <<"course_search_index", "prof_search_index">>
        \/ request[b].op = "search_profs"
    BY <1>8, QueryPlans DEF Reads
  <2> HIDE DEF n, p
  <2>4. 1 \in 1..(n - 1) /\ p[1] \in Locked(b)
    BY <2>2
  <2>5. p[1] \notin Locked(c)
    BY <1>4, <2>1, <2>4 DEF Exclusive
  <2>6. CASE p = <<"course_rating", "prof_teaches_course", "prof_rating", "prof_teaches_course">>
    BY <1>6, <2>1, <2>5, <2>6
  <2>7. CASE p = <<"course_search_index">>
    BY <2>2, <2>7
  <2>8. CASE p = <<"course_search_index", "prof_search_index">>
    <3>1. n = 2
      BY <2>2, <2>8
    <3>2. Wanted(b) = "prof_search_index" /\ p[1] = "course_search_index"
      BY <2>2, <2>8, <3>1
    <3> QED BY <1>4, <2>1, <2>5, <3>2, LockedBefore
  <2> QED BY <2>3, <2>6, <2>7, <2>8
<1> QED BY <1>4, <1>5, <1>7, <1>8

(* However many sessions there are, only searches for professors and       *)
(* changes of the timetable are in a deadlock among the views.             *)
THEOREM OnlySearchesDeadlock == Spec => []DeadlockIsSearch
<1>1. Init => TypeOK /\ Exclusive
  BY InitTyped, InitExclusive
<1>2. TypeOK /\ Exclusive /\ [Next]_vars => (TypeOK /\ Exclusive)'
  BY StepTyped, StepExclusive
<1>3. TypeOK /\ Exclusive => DeadlockIsSearch
  BY NoDeadlock
<1> QED BY <1>1, <1>2, <1>3, PTL DEF Spec
=============================================================================
