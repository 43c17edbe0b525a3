-------------------------- MODULE EnrolmentsProofs --------------------------
(***************************************************************************)
(* What holds of uploads (Enrolments) for every value of the constants.    *)
(*                                                                         *)
(* The keys are unique because whoever inserts a key has waited for        *)
(* everyone who deleted or inserted it (KeysApart).  A transcript finds    *)
(* the table cleared because rows written after its DELETE began come from *)
(* schedules alone: other transcripts wait for it at the user's row        *)
(* (Alone, Leftovers).                                                     *)
(*                                                                         *)
(* That uploads implement Replacement adds to this what an upload has      *)
(* looked up so far (Answers): a course that is not its own to write was   *)
(* written by somebody who was committed since it began.                   *)
(***************************************************************************)
EXTENDS Enrolments, TLAPS

Steps == {"idle", "program", "delete_taken", "scan_taken", "delete_schedule", "scan_schedule",
          "course", "section", "taken", "commit", "done", "refused", "conflict", "failed"}

Row == {Taken(c, t, u) : c \in Catalogue, t \in Terms, u \in Uploads \cup {Before}}
       \cup {Scheduled(s, t, u) : s \in Sections, t \in Terms, u \in Uploads}

Typed ==
  /\ rows \in SUBSET Row
  /\ course \in [Sections -> Catalogue \cup {NoCourse}]
  /\ pc \in [Uploads -> Steps]
  /\ file \in [Uploads -> Files \cup {NoFile}]
  /\ at \in [Uploads -> Nat \ {0}]
  /\ scan \in [Uploads -> SUBSET Row] /\ gone \in [Uploads -> SUBSET Row]
  /\ new \in [Uploads -> SUBSET Row] /\ base \in [Uploads -> SUBSET Row]
  /\ moves \in 0..MaxMoves /\ faults \in 0..MaxFaults

\* Where an upload is fits what it uploads.
Placed ==
  \A u \in Uploads :
    /\ pc[u] = "idle" => file[u] = NoFile /\ at[u] = 1
    /\ pc[u] # "idle" => file[u] \in Files
    /\ Running(u) => ~Unwanted(file[u])
    /\ pc[u] \in {"program", "course"} => file[u].kind = "transcript"
    /\ pc[u] \in {"delete_schedule", "scan_schedule", "section", "taken"} => file[u].kind = "schedule"
    /\ pc[u] \in {"program", "delete_taken", "scan_taken", "delete_schedule", "scan_schedule"} => at[u] = 1
    /\ pc[u] \in {"course", "section", "taken"} => at[u] <= Len(file[u].items)
    /\ pc[u] = "commit" => at[u] = Len(file[u].items) + 1
    /\ at[u] <= Len(file[u].items) + 1

\* Only a running upload has anything pending, and scans only in a DELETE.
Quiet ==
  \A u \in Uploads : /\ ~Running(u) => gone[u] = {} /\ new[u] = {}
                     /\ pc[u] \notin {"scan_taken", "scan_schedule"} => scan[u] = {}

\* Rows that are, or were, committed were written by who has ended.
Origins ==
  /\ \A r \in rows : r.by = Before \/ pc[r.by] = "done"
  /\ \A u \in Uploads : /\ \A r \in base[u] \cup scan[u] : r.by = Before \/ pc[r.by] = "done"
                        /\ \A r \in new[u] : r.by = u

\* The terms that an upload speaks of.
Spoken(u, t) == t = file[u].term \/ (file[u].kind = "transcript" /\ t < file[u].term)

InTerms == \A u \in Uploads : \A r \in scan[u] \cup gone[u] \cup new[u] : Spoken(u, r.term)

\* Each upload sees a table of unique keys, and no two touch the same key.
KeysApart ==
  /\ \A r, q \in rows : SameKey(r, q) => r = q
  /\ \A u \in Uploads :
       /\ gone[u] \subseteq rows
       /\ \A r \in new[u] : \A q \in (rows \ gone[u]) \cup new[u] : SameKey(r, q) => r = q
       /\ \A v \in Uploads \ {u} : /\ gone[u] \cap gone[v] = {}
                                   /\ \A r \in new[u] : \A q \in new[v] \cup gone[v] : ~SameKey(r, q)

Holding(u) == Running(u) /\ file[u].kind = "transcript" /\ pc[u] # "program"

\* At most one transcript is past its UPDATE of the user's row.
Alone == \A u, v \in Uploads : Holding(u) /\ Holding(v) => u = v

\* v is a schedule that was committed since u began.
Meanwhile(u, v) ==
  /\ v \in Uploads /\ pc[v] = "done" /\ file[v].kind = "schedule"
  /\ \A b \in base[u] : b.by # v

\* r is one of the rows that u has begun to delete, or would have.
Cleared(u, r) ==
  \/ /\ file[u].kind = "transcript" /\ pc[u] \in {"scan_taken", "course", "commit"}
     /\ r.table = "taken" /\ r.term <= file[u].term
  \/ /\ file[u].kind = "schedule" /\ pc[u] \in {"scan_schedule", "section", "taken", "commit"}
     /\ r.table = "schedule" /\ r.term = file[u].term

Leftovers ==
  \A u \in Uploads : \A r \in rows \ (gone[u] \cup scan[u]) : Cleared(u, r) => Meanwhile(u, r.by)

\* The item m of its file made u write r.
Source(u, m, r) ==
  IF file[u].kind = "transcript"
  THEN r = Taken(file[u].items[m].course, file[u].items[m].term, u)
  ELSE r.table = "schedule" => r = Scheduled(file[u].items[m], file[u].term, u)

\* What an upload has inserted are the items it is past.
Listed ==
  \A u \in Uploads :
    /\ \A r \in new[u] : \E m \in DOMAIN file[u].items :
         (m < at[u] \/ (m = at[u] /\ pc[u] = "taken")) /\ Source(u, m, r)
    /\ file[u].kind = "transcript" /\ Running(u) =>
         \A m \in DOMAIN file[u].items :
           m < at[u] /\ file[u].items[m].course \in Catalogue =>
             Taken(file[u].items[m].course, file[u].items[m].term, u) \in new[u]

Repeats(f) == \E m, n \in DOMAIN f.items : m # n /\ f.items[m] = f.items[n]

Excused(u) == Repeats(file[u]) \/ \E v \in Uploads \ {u} : Meanwhile(u, v)

Explained == \A u \in Uploads : pc[u] = "conflict" => Excused(u)

Inv == /\ Typed /\ Placed /\ Quiet /\ Origins /\ InTerms /\ KeysApart /\ Alone
       /\ Leftovers /\ Listed /\ Explained

-----------------------------------------------------------------------------
(* Rows and files.                                                         *)

\* Terms are compared as numbers.
LEMMA TermsAreNumbers == Terms \subseteq Nat /\ CurrentTerm \in Terms
BY EnrolmentsAssumption

\* What a row looks like.
LEMMA RowFacts ==
  \A r \in Row : /\ r.table \in {"taken", "schedule"} /\ r.term \in Nat
                 /\ r.by \in Uploads \cup {Before}
                 /\ r.table = "schedule" => r.by \in Uploads
BY EnrolmentsAssumption DEF Row, Taken, Scheduled

\* What a file looks like.
LEMMA FileFacts ==
  ASSUME NEW f \in Files
  PROVE  /\ f.term \in Nat /\ f.kind \in {"transcript", "schedule"} /\ Len(f.items) \in Nat
         /\ DOMAIN f.items = 1..Len(f.items)
         /\ f.kind = "transcript" => \A m \in DOMAIN f.items : /\ f.items[m].term \in Terms
                                                               /\ f.items[m].term <= f.term
                                                               /\ f.items[m] \in [course: Courses, term: Terms]
         /\ f.kind = "schedule" => \A m \in DOMAIN f.items : f.items[m] \in Sections
         /\ f.kind = "schedule" /\ ~Unwanted(f) => f.term \in Terms /\ f.items # <<>>
<1>. DEFINE S == [course: Courses, term: {t \in Terms : t <= f.term}]
<1>1. f.term \in Nat /\ f.term \in Terms \cup {0}
  <2>1. f.term \in Terms \cup {0}
    BY EnrolmentsAssumption, Zenon
  <2>2. 0 \in Nat /\ Terms \subseteq Nat
    BY TermsAreNumbers
  <2>. QED BY <2>1, <2>2, Zenon
<1>2. \/ f.kind = "transcript" /\ f.items \in Seq(S)
      \/ f.kind = "schedule" /\ f.items \in Seq(Sections)
  BY EnrolmentsAssumption
<1>3. CASE f.kind = "schedule" /\ f.items \in Seq(Sections)
  <2>1. ~Unwanted(f) => f.term \in Terms /\ f.items # <<>>
    BY <1>1, <1>3, TermsAreNumbers DEF Unwanted
  <2>. QED BY <1>1, <1>3, <2>1
<1>4. CASE f.kind = "transcript" /\ f.items \in Seq(S)
  <2>1. \A m \in DOMAIN f.items : f.items[m] \in S
    <3>. HIDE DEF S
    <3>. QED BY <1>4
  <2>2. \A i \in S : i.term \in Terms /\ i.term <= f.term /\ i \in [course: Courses, term: Terms]
    OBVIOUS
  <2>3. Len(f.items) \in Nat /\ DOMAIN f.items = 1..Len(f.items)
    <3>. HIDE DEF S
    <3>. QED BY <1>4
  <2>. HIDE DEF S
  <2>. QED BY <1>1, <1>4, <2>1, <2>2, <2>3
<1>. QED BY <1>2, <1>3, <1>4

\* The row that an INSERT would write is one, of its upload and its terms,
\* and stems from the item at hand.
LEMMA WantedFacts ==
  ASSUME Inv, NEW u \in Uploads, NEW q \in Wanted(u)
  PROVE  /\ q \in Row /\ q.by = u /\ Spoken(u, q.term) /\ Running(u)
         /\ pc[u] \in {"course", "section", "taken"} /\ at[u] \in DOMAIN file[u].items
         /\ Source(u, at[u], q) /\ \A p \in Wanted(u) : p = q
         /\ pc[u] = "course" => q.table = "taken" /\ q.term <= file[u].term
         /\ pc[u] = "section" => q.table = "schedule" /\ q.term = file[u].term
         /\ pc[u] = "taken" => q.table = "taken"
<1>1. pc[u] \in {"course", "section", "taken"}
  BY DEF Wanted
<1>2. /\ file[u] \in Files /\ at[u] \in DOMAIN file[u].items /\ Running(u) /\ ~Unwanted(file[u])
      /\ pc[u] = "course" => file[u].kind = "transcript"
      /\ pc[u] # "course" => file[u].kind = "schedule"
  <2>1. file[u] \in Files /\ Running(u) /\ at[u] \in Nat \ {0} /\ at[u] <= Len(file[u].items)
    BY <1>1 DEF Inv, Typed, Placed, Running
  <2>. QED BY <1>1, <2>1, FileFacts DEF Inv, Placed
<1>3. CASE pc[u] = "course"
  <2>1. /\ file[u].items[at[u]].course \in Catalogue
        /\ q = Taken(file[u].items[at[u]].course, file[u].items[at[u]].term, u)
        /\ \A p \in Wanted(u) : p = q
    BY <1>3 DEF Wanted
  <2>2. file[u].items[at[u]].term \in Terms /\ file[u].items[at[u]].term <= file[u].term /\ file[u].term \in Nat
    BY <1>2, <1>3, FileFacts
  <2>3. q \in Row
    BY <2>1, <2>2 DEF Row
  <2>4. q.by = u /\ q.table = "taken" /\ q.term = file[u].items[at[u]].term
    BY <2>1 DEF Taken
  <2>5. q.term \in Nat /\ q.term <= file[u].term
    BY <2>2, <2>4, TermsAreNumbers
  <2>6. Spoken(u, q.term)
    BY <1>2, <1>3, <2>2, <2>5 DEF Spoken
  <2>. QED BY <1>2, <1>3, <2>1, <2>3, <2>4, <2>5, <2>6 DEF Source
<1>4. CASE pc[u] = "section"
  <2>1. q = Scheduled(file[u].items[at[u]], file[u].term, u) /\ \A p \in Wanted(u) : p = q
    BY <1>4 DEF Wanted
  <2>2. file[u].items[at[u]] \in Sections /\ file[u].term \in Terms
    BY <1>2, <1>4, FileFacts
  <2>3. q \in Row
    BY <2>1, <2>2 DEF Row
  <2>. QED BY <1>2, <1>4, <2>1, <2>2, <2>3 DEF Scheduled, Spoken, Source
<1>5. CASE pc[u] = "taken"
  <2>1. /\ q = Taken(course[file[u].items[at[u]]], file[u].term, u) /\ \A p \in Wanted(u) : p = q
        /\ course[file[u].items[at[u]]] # NoCourse
    BY <1>5 DEF Wanted
  <2>2. file[u].items[at[u]] \in Sections /\ file[u].term \in Terms
    BY <1>2, <1>5, FileFacts
  <2>3. q \in Row
    BY <2>1, <2>2 DEF Row, Inv, Typed
  <2>. QED BY <1>2, <1>5, <2>1, <2>2, <2>3 DEF Taken, Spoken, Source
<1>. QED BY <1>1, <1>3, <1>4, <1>5

-----------------------------------------------------------------------------
\* The invariant holds at the start.
LEMMA InitInv == Init => Inv
<1>. SUFFICES ASSUME Init PROVE Inv
  OBVIOUS
<1>1. \A r \in rows : r \in Row /\ r.by = Before /\ r.table = "taken" /\ r.of \in Catalogue /\ r.term \in Terms
  <2>1. \A i \in OldItems : i.course \in Catalogue /\ i.term \in Terms
    BY EnrolmentsAssumption
  <2>. QED BY <2>1 DEF Init, Taken, Row
<1>2. \A r, q \in rows : SameKey(r, q) => r = q
  <2>1. \A r \in rows : r = Taken(r.of, r.term, Before)
    BY DEF Init, Taken
  <2>. QED BY <2>1 DEF SameKey
<1>3. NoFile.items = <<>> /\ DOMAIN NoFile.items = {} /\ Len(NoFile.items) = 0
  BY DEF NoFile
<1>4. Typed
  BY <1>1, EnrolmentsAssumption DEF Init, Typed, Steps
<1>5. Placed
  BY <1>3 DEF Init, Placed, Running
<1>6. Quiet /\ Origins /\ InTerms /\ KeysApart
  BY <1>1, <1>2 DEF Init, Quiet, Origins, InTerms, KeysApart, Running
<1>7. Alone /\ Leftovers /\ Listed /\ Explained
  BY <1>3 DEF Init, Alone, Holding, Running, Leftovers, Cleared, Listed, Explained
<1>. QED BY <1>4, <1>5, <1>6, <1>7 DEF Inv

-----------------------------------------------------------------------------
(* Every step keeps the invariant.                                         *)

\* A file is chosen, and read by nothing yet.
LEMMA UploadInv == ASSUME Inv, NEW u \in Uploads, NEW f \in Files, Upload(u, f) PROVE Inv'
<1>1. /\ pc[u] = "idle" /\ file' = [file EXCEPT ![u] = f] /\ base' = [base EXCEPT ![u] = rows]
      /\ pc' = [pc EXCEPT ![u] = IF Unwanted(f) THEN "refused"
                                 ELSE IF f.kind = "transcript" THEN "program" ELSE "delete_taken"]
      /\ UNCHANGED <<rows, course, at, scan, gone, new, moves, faults>>
  BY DEF Upload, Go, tx
<1>2. pc'[u] \in {"refused", "program", "delete_taken"} /\ file'[u] = f /\ at[u] = 1
      /\ \A v \in Uploads \ {u} : pc'[v] = pc[v] /\ file'[v] = file[v] /\ base'[v] = base[v]
  BY <1>1 DEF Inv, Typed, Placed
<1>3. scan[u] = {} /\ gone[u] = {} /\ new[u] = {}
  BY <1>1 DEF Inv, Quiet, Running
<1>4. Typed'
  BY <1>1 DEF Inv, Typed, Steps
<1>5. Placed'
  <2>1. Len(f.items) \in Nat /\ (pc'[u] = "program" => f.kind = "transcript")
    BY <1>1, <1>4, FileFacts DEF Inv, Typed
  <2>2. pc'[u] # "refused" => ~Unwanted(f)
    BY <1>1 DEF Inv, Typed
  <2>. QED BY <1>1, <1>2, <2>1, <2>2 DEF Inv, Placed, Running
<1>6. Quiet'
  BY <1>1, <1>2, <1>3 DEF Inv, Quiet, Running
<1>7. Origins'
  <2>1. \A v \in Uploads : pc[v] = "done" => pc'[v] = "done"
    BY <1>1, <1>2
  <2>2. \A r \in rows : r.by = Before \/ r.by \in Uploads
    BY RowFacts DEF Inv, Typed
  <2>3. base'[u] = rows
    BY <1>1 DEF Inv, Typed
  <2>4. \A v \in Uploads : \A r \in base[v] \cup scan[v] : r.by = Before \/ r.by \in Uploads
    BY RowFacts DEF Inv, Typed
  <2>. QED BY <1>1, <1>2, <2>1, <2>2, <2>3, <2>4 DEF Inv, Origins
<1>8. InTerms'
  BY <1>1, <1>2, <1>3 DEF Inv, InTerms, Spoken
<1>9. KeysApart'
  BY <1>1 DEF Inv, KeysApart
<1>10. Alone'
  <2>1. ~Holding(u)'
    BY <1>1, <1>2, <1>4, FileFacts DEF Holding, Running, Inv, Typed
  <2>2. \A v \in Uploads \ {u} : Holding(v)' <=> Holding(v)
    BY <1>2 DEF Holding, Running
  <2>. QED BY <2>1, <2>2 DEF Inv, Alone
<1>11. Leftovers'
  <2>1. \A r : ~Cleared(u, r)'
    BY <1>2 DEF Cleared
  <2>2. \A v \in Uploads \ {u} : \A r : Cleared(v, r)' <=> Cleared(v, r)
    BY <1>2 DEF Cleared
  <2>3. \A v \in Uploads \ {u} : \A w : Meanwhile(v, w) => Meanwhile(v, w)'
    BY <1>1, <1>2 DEF Meanwhile
  <2>. QED BY <1>1, <2>1, <2>2, <2>3 DEF Inv, Leftovers
<1>12. Listed'
  <2>1. \A v \in Uploads \ {u} : \A m, r : Source(v, m, r)' <=> Source(v, m, r)
    BY <1>2 DEF Source
  <2>2. DOMAIN f.items = 1..Len(f.items) /\ Len(f.items) \in Nat
    BY FileFacts
  <2>. QED BY <1>1, <1>2, <1>3, <2>1, <2>2 DEF Inv, Listed, Running
<1>13. Explained'
  <2>1. \A v \in Uploads \ {u} : Excused(v) => Excused(v)'
    <3>1. \A v \in Uploads \ {u} : \A w : Meanwhile(v, w) => Meanwhile(v, w)'
      BY <1>1, <1>2 DEF Meanwhile
    <3>. QED BY <1>2, <3>1 DEF Excused, Repeats
  <2>. QED BY <1>2, <2>1 DEF Inv, Explained
<1>. QED BY <1>4, <1>5, <1>6, <1>7, <1>8, <1>9, <1>10, <1>11, <1>12, <1>13 DEF Inv

\* A running upload takes a step of its own.
Moves(u) ==
  /\ Running(u) /\ pc' = [pc EXCEPT ![u] = pc'[u]] /\ pc'[u] \in Steps \ {"idle"}
  /\ UNCHANGED <<course, file, base>>

\* What that leaves as it is.
LEMMA MoveFacts ==
  ASSUME Inv, NEW u \in Uploads, Moves(u)
  PROVE  /\ pc' \in [Uploads -> Steps]
         /\ \A v \in Uploads \ {u} : /\ pc'[v] = pc[v] /\ (Running(v)' <=> Running(v))
                                     /\ (Holding(v)' <=> Holding(v))
                                     /\ \A r : Cleared(v, r)' <=> Cleared(v, r)
         /\ \A v \in Uploads : /\ pc[v] = "done" => pc'[v] = "done"
                               /\ \A w : Meanwhile(v, w) => Meanwhile(v, w)'
                               /\ \A m, r : Source(v, m, r)' <=> Source(v, m, r)
                               /\ \A s : Spoken(v, s)' <=> Spoken(v, s)
                               /\ Excused(v) => Excused(v)'
<1>1. pc' \in [Uploads -> Steps] /\ \A v \in Uploads \ {u} : pc'[v] = pc[v]
  BY DEF Inv, Typed, Moves
<1>2. file' = file /\ base' = base
  BY DEF Moves
<1>3. \A v \in Uploads : pc[v] = "done" => pc'[v] = "done"
  BY <1>1 DEF Moves, Running
<1>4. \A v \in Uploads : \A w : Meanwhile(v, w) => Meanwhile(v, w)'
  BY <1>2, <1>3 DEF Meanwhile
<1>5. \A v \in Uploads \ {u} : (Running(v)' <=> Running(v)) /\ (Holding(v)' <=> Holding(v))
  BY <1>1, <1>2 DEF Running, Holding
<1>6. \A v \in Uploads \ {u} : \A r : Cleared(v, r)' <=> Cleared(v, r)
  BY <1>1, <1>2 DEF Cleared
<1>7. \A v \in Uploads : /\ \A m, r : Source(v, m, r)' <=> Source(v, m, r)
                         /\ \A s : Spoken(v, s)' <=> Spoken(v, s)
  BY <1>2 DEF Source, Spoken
<1>8. \A v \in Uploads : Excused(v) => Excused(v)'
  BY <1>2, <1>4 DEF Excused
<1>. QED BY <1>1, <1>3, <1>4, <1>5, <1>6, <1>7, <1>8

\* What only the step of an upload changes, when it changes no rows but its own.
LEMMA MoveInv ==
  ASSUME Inv, NEW u \in Uploads, Moves(u),
         Holding(u)' => Holding(u) \/ \A v \in Uploads \ {u} : ~Holding(v),
         pc'[u] = "conflict" => Excused(u)
  PROVE  Alone' /\ Explained'
<1>1. Alone'
  BY MoveFacts DEF Inv, Alone
<1>2. Explained'
  BY MoveFacts DEF Inv, Explained
<1>. QED BY <1>1, <1>2

\* An upload that ends without a commit leaves nothing behind.
LEMMA ForgetInv ==
  ASSUME Inv, NEW u \in Uploads, Running(u), NEW s \in {"failed", "conflict"},
         Go(u, s), Forget(u), UNCHANGED <<rows, course, file, at, base, moves>>,
         faults' \in 0..MaxFaults,
         s = "conflict" => Excused(u)
  PROVE  Inv'
<1>1. /\ Moves(u) /\ pc'[u] = s /\ pc[u] \notin {"idle", "done"}
      /\ scan' = [scan EXCEPT ![u] = {}] /\ gone' = [gone EXCEPT ![u] = {}] /\ new' = [new EXCEPT ![u] = {}]
  BY DEF Inv, Typed, Moves, Go, Running, Forget, Steps
<1>2. scan'[u] = {} /\ gone'[u] = {} /\ new'[u] = {}
      /\ \A v \in Uploads \ {u} : scan'[v] = scan[v] /\ gone'[v] = gone[v] /\ new'[v] = new[v]
  BY <1>1 DEF Inv, Typed
<1>3. ~Running(u)' /\ ~Holding(u)' /\ \A r : ~Cleared(u, r)'
  BY <1>1 DEF Running, Holding, Cleared
<1>4. Typed'
  BY <1>1, MoveFacts DEF Inv, Typed
<1>5. Placed'
  BY <1>1, <1>3, MoveFacts DEF Inv, Placed
<1>6. Quiet'
  BY <1>1, <1>2, <1>3, MoveFacts DEF Inv, Quiet
<1>7. Origins'
  <2>1. \A r \in rows : r.by = Before \/ r.by \in Uploads
    BY RowFacts DEF Inv, Typed
  <2>2. \A v \in Uploads : \A r \in base[v] \cup scan[v] : r.by = Before \/ r.by \in Uploads
    BY RowFacts DEF Inv, Typed
  <2>. QED BY <1>1, <1>2, <2>1, <2>2, MoveFacts DEF Inv, Origins
<1>8. InTerms'
  BY <1>1, <1>2, MoveFacts DEF Inv, InTerms
<1>9. KeysApart'
  BY <1>2 DEF Inv, KeysApart
<1>10. Alone' /\ Explained'
  BY <1>1, <1>3, MoveInv
<1>11. Leftovers'
  BY <1>1, <1>2, <1>3, MoveFacts DEF Inv, Leftovers
<1>12. Listed'
  <2>1. \A v \in Uploads \ {u} : \A r \in new'[v] : \E m \in DOMAIN file[v].items :
           (m < at[v] \/ (m = at[v] /\ pc'[v] = "taken")) /\ Source(v, m, r)'
    BY <1>1, <1>2, MoveFacts DEF Inv, Listed
  <2>. QED BY <1>1, <1>2, <1>3, <2>1, MoveFacts DEF Inv, Listed
<1>. QED BY <1>4, <1>5, <1>6, <1>7, <1>8, <1>9, <1>10, <1>11, <1>12 DEF Inv

\* The update of the user's row waits for every other transcript.
LEMMA UpdateProgramInv == ASSUME Inv, NEW u \in Uploads, UpdateProgram(u) PROVE Inv'
<1>1. /\ pc[u] = "program" /\ WaitsFor(u) = {} /\ pc' = [pc EXCEPT ![u] = "delete_taken"]
      /\ UNCHANGED <<rows, course, file, at, scan, gone, new, base, moves, faults>>
  BY DEF UpdateProgram, Go, tx
<1>2. Moves(u) /\ pc'[u] = "delete_taken" /\ Running(u)'
  BY <1>1 DEF Inv, Typed, Moves, Running, Steps
<1>3. \A v \in Uploads \ {u} : ~Holding(v)
  BY <1>1 DEF WaitsFor, ProgramHolders, Holding
<1>4. \A r : ~Cleared(u, r)'
  <2>1. file[u].kind # "schedule"
    BY <1>1 DEF Inv, Placed
  <2>. QED BY <1>1, <1>2, <2>1 DEF Cleared
<1>5. Typed' /\ Placed'
  <2>1. Typed'
    BY <1>1, <1>2, MoveFacts DEF Inv, Typed
  <2>2. \A v \in Uploads \ {u} : pc'[v] = pc[v] /\ (Running(v)' <=> Running(v))
    BY <1>2, MoveFacts
  <2>3. Running(u) /\ at[u] = 1
    BY <1>1 DEF Running, Inv, Placed
  <2>4. Placed'
    BY <1>1, <1>2, <2>2, <2>3 DEF Inv, Placed
  <2>. QED BY <2>1, <2>4
<1>6. Quiet' /\ InTerms' /\ KeysApart'
  BY <1>1, <1>2, MoveFacts DEF Inv, Quiet, InTerms, KeysApart
<1>7. Origins'
  <2>1. \A r \in rows : r.by = Before \/ r.by \in Uploads
    BY RowFacts DEF Inv, Typed
  <2>2. \A v \in Uploads : \A r \in base[v] \cup scan[v] : r.by = Before \/ r.by \in Uploads
    BY RowFacts DEF Inv, Typed
  <2>. QED BY <1>1, <1>2, <2>1, <2>2, MoveFacts DEF Inv, Origins
<1>8. Alone' /\ Explained'
  BY <1>2, <1>3, MoveInv
<1>9. Leftovers'
  BY <1>1, <1>2, <1>4, MoveFacts DEF Inv, Leftovers
<1>10. Listed'
  BY <1>1, <1>2, MoveFacts DEF Inv, Listed, Running
<1>. QED BY <1>5, <1>6, <1>7, <1>8, <1>9, <1>10 DEF Inv

\* The two DELETEs.
Deletes(u, from, old, during, after) ==
  \/ /\ from = "delete_taken" /\ old = OldTaken(u) /\ during = "scan_taken" /\ after = AfterTaken(u)
  \/ /\ from = "delete_schedule" /\ old = OldSchedule(u) /\ during = "scan_schedule" /\ after = "section"

\* Where a DELETE leads is a place that fits the file.
LEMMA DeleteFacts ==
  ASSUME Inv, NEW u \in Uploads, NEW from, NEW old, NEW during, NEW after,
         Deletes(u, from, old, during, after), pc[u] \in {from, during}
  PROVE  /\ at[u] = 1 /\ file[u] \in Files /\ Running(u)
         /\ {during, after} \subseteq Steps \ {"idle", "program", "done", "refused", "conflict", "failed"}
         /\ after = "course" => file[u].kind = "transcript" /\ file[u].items # <<>>
         /\ after = "section" => file[u].kind = "schedule" /\ file[u].items # <<>>
         /\ after = "commit" => file[u].kind = "transcript" /\ file[u].items = <<>>
         /\ after \in {"course", "section", "commit", "delete_schedule"}
         /\ during = "scan_schedule" => file[u].kind = "schedule" /\ after = "section"
         /\ after = "delete_schedule" => file[u].kind = "schedule"
         /\ pc[u] \in {"delete_taken", "scan_taken", "delete_schedule", "scan_schedule"}
<1>1. pc[u] \in {"delete_taken", "scan_taken", "delete_schedule", "scan_schedule"}
  BY DEF Deletes
<1>2. file[u] \in Files /\ Running(u) /\ at[u] = 1 /\ ~Unwanted(file[u])
  BY <1>1 DEF Inv, Placed, Running
<1>3. file[u].kind \in {"transcript", "schedule"} /\ (file[u].kind = "schedule" => file[u].items # <<>>)
  BY <1>2, FileFacts
<1>4. pc[u] \in {"delete_schedule", "scan_schedule"} => file[u].kind = "schedule"
  BY <1>1 DEF Inv, Placed
<1>. QED BY <1>1, <1>2, <1>3, <1>4 DEF Deletes, AfterTaken, Steps

\* A place that fits the file, and the upload's next statement, keeps Placed.
LEMMA DeletePlaced ==
  ASSUME Inv, NEW u \in Uploads, NEW from, NEW old, NEW during, NEW after,
         Deletes(u, from, old, during, after), pc[u] \in {from, during},
         NEW s \in {during, after}, Go(u, s), UNCHANGED <<course, file, base, at>>
  PROVE  Moves(u) /\ Placed' /\ Running(u)' /\ pc'[u] = s /\ (Holding(u)' <=> Holding(u)) /\ pc'[u] \notin {"done", "conflict"}
<1>1. Moves(u) /\ pc'[u] = s /\ Running(u) /\ Running(u)'
  BY DeleteFacts DEF Inv, Typed, Moves, Running, Go
<1>2. Len(file[u].items) \in Nat /\ (file[u].items = <<>> <=> Len(file[u].items) = 0)
  <2>1. file[u].items \in Seq([course: Courses, term: {t \in Terms : t <= file[u].term}]) \/ file[u].items \in Seq(Sections)
    BY DeleteFacts, EnrolmentsAssumption, Zenon
  <2>. QED BY <2>1
<1>3. Placed'
  <2>1. \A v \in Uploads \ {u} : (Running(v)' <=> Running(v)) /\ pc'[v] = pc[v]
    BY <1>1, MoveFacts
  <2>2. /\ s \in {"scan_taken", "scan_schedule", "course", "section", "commit", "delete_schedule"}
        /\ s = "course" => file[u].kind = "transcript" /\ Len(file[u].items) # 0
        /\ s \in {"section", "delete_schedule", "scan_schedule"} => file[u].kind = "schedule"
        /\ s = "section" => Len(file[u].items) # 0
        /\ s = "commit" => Len(file[u].items) = 0
        /\ at[u] = 1 /\ file[u] \in Files
    <3>1. CASE s = during
      <4>1. s \in {"scan_taken", "scan_schedule"}
        BY <3>1 DEF Deletes
      <4>. QED BY <3>1, <4>1, DeleteFacts
    <3>2. CASE s = after
      <4>1. s \in {"course", "section", "commit", "delete_schedule"}
        BY <3>2, DeleteFacts
      <4>. QED BY <1>2, <3>2, <4>1, DeleteFacts
    <3>. QED BY <3>1, <3>2
  <2>3. ~Unwanted(file[u])
    BY <1>1 DEF Inv, Placed
  <2>. QED BY <1>1, <1>2, <2>1, <2>2, <2>3 DEF Inv, Placed
<1>4. (Holding(u)' <=> Holding(u))
  <2>1. pc[u] # "program" /\ s # "program"
    BY DeleteFacts
  <2>. QED BY <1>1, <2>1 DEF Holding
<1>5. pc'[u] \notin {"done", "conflict"}
  BY <1>1, DeleteFacts
<1>. QED BY <1>1, <1>3, <1>4, <1>5

\* Rows of the table of a DELETE that an upload speaks of are cleared.
LEMMA OldFacts ==
  ASSUME Inv, NEW u \in Uploads, NEW from, NEW old, NEW during, NEW after,
         Deletes(u, from, old, during, after), pc[u] = from
  PROVE  /\ old \in SUBSET rows /\ \A r \in old : Spoken(u, r.term)
         /\ \A r \in rows : r \notin old =>
              /\ during = "scan_taken" /\ file[u].kind = "transcript" =>
                   ~(r.table = "taken" /\ r.term <= file[u].term)
              /\ during = "scan_schedule" => ~(r.table = "schedule" /\ r.term = file[u].term)
<1>1. \A r \in rows : r.term \in Nat
  BY RowFacts DEF Inv, Typed
<1>2. file[u].term \in Nat
  BY DeleteFacts, FileFacts
<1>3. CASE old = OldTaken(u) /\ during = "scan_taken"
  <2>1. old \in SUBSET rows /\ \A r \in old : Spoken(u, r.term)
    BY <1>3 DEF OldTaken, Spoken
  <2>2. \A r \in rows : r.table = "taken" /\ file[u].kind = "transcript" /\ r.term <= file[u].term => r \in old
    BY <1>1, <1>2, <1>3 DEF OldTaken
  <2>. QED BY <1>3, <2>1, <2>2
<1>4. CASE old = OldSchedule(u) /\ during = "scan_schedule"
  BY <1>4 DEF OldSchedule, Spoken
<1>. QED BY <1>3, <1>4 DEF Deletes

\* A DELETE begins with the rows that are committed.
LEMMA BeginDeleteInv ==
  ASSUME Inv, NEW u \in Uploads, NEW from, NEW old, NEW during, NEW after,
         Deletes(u, from, old, during, after), BeginDelete(u, from, old, during, after)
  PROVE  Inv'
<1>1. /\ pc[u] = from /\ scan' = [scan EXCEPT ![u] = old]
      /\ pc' = [pc EXCEPT ![u] = IF old = {} THEN after ELSE during]
      /\ UNCHANGED <<rows, course, file, at, gone, new, base, moves, faults>>
  BY DEF BeginDelete, Go
<1>2. PICK s \in {during, after} : pc' = [pc EXCEPT ![u] = s] /\ (s # during => old = {})
  BY <1>1
<1>3. Moves(u) /\ Placed' /\ Running(u)' /\ pc'[u] = s /\ (Holding(u)' <=> Holding(u)) /\ pc'[u] \notin {"done", "conflict"}
  <2>1. pc[u] \in {from, during} /\ Go(u, s) /\ UNCHANGED <<course, file, base, at>>
    BY <1>1, <1>2 DEF Go
  <2>. QED BY <2>1, DeletePlaced, Zenon
<1>4. old \in SUBSET rows /\ \A r \in old : Spoken(u, r.term)
  BY <1>1, OldFacts
<1>5. scan'[u] = old /\ \A v \in Uploads \ {u} : scan'[v] = scan[v]
  BY <1>1 DEF Inv, Typed
<1>6. Typed'
  BY <1>1, <1>3, <1>4, MoveFacts DEF Inv, Typed
<1>7. Quiet'
  <2>1. s \notin {"scan_taken", "scan_schedule"} => old = {}
    BY <1>2 DEF Deletes
  <2>. QED BY <1>1, <1>3, <1>5, <2>1, MoveFacts DEF Inv, Quiet
<1>8. Origins'
  <2>1. \A r \in rows : r.by = Before \/ r.by \in Uploads
    BY RowFacts DEF Inv, Typed
  <2>2. \A v \in Uploads : \A r \in base[v] \cup scan[v] : r.by = Before \/ r.by \in Uploads
    BY RowFacts DEF Inv, Typed
  <2>. QED BY <1>1, <1>3, <1>4, <1>5, <2>1, <2>2, MoveFacts DEF Inv, Origins
<1>9. InTerms'
  BY <1>1, <1>3, <1>4, <1>5, MoveFacts DEF Inv, InTerms
<1>10. KeysApart'
  BY <1>1 DEF Inv, KeysApart
<1>11. Alone' /\ Explained'
  BY <1>3, MoveInv
<1>12. Leftovers'
  <2>1. \A r \in rows : r \notin old => ~Cleared(u, r)'
    <3>. SUFFICES ASSUME NEW r \in rows, r \notin old, Cleared(u, r)' PROVE FALSE
      OBVIOUS
    <3>1. file' = file
      BY <1>1
    <3>2. CASE during = "scan_taken" /\ file[u].kind = "transcript"
      BY <1>1, <3>1, <3>2, OldFacts DEF Cleared
    <3>3. CASE during = "scan_taken" /\ file[u].kind # "transcript"
      <4>1. after # "section" /\ after # "commit"
        BY <1>1, <3>3, DeleteFacts DEF Deletes, AfterTaken
      <4>. QED BY <1>1, <1>2, <1>3, <3>1, <3>3, <4>1, DeleteFacts DEF Cleared
    <3>4. CASE during = "scan_schedule"
      <4>1. file[u].kind = "schedule"
        BY <1>1, <3>4, DeleteFacts
      <4>2. r.table = "schedule" /\ r.term = file[u].term
        BY <3>1, <4>1 DEF Cleared
      <4>. QED BY <1>1, <3>4, <4>2, OldFacts
    <3>. QED BY <3>2, <3>3, <3>4 DEF Deletes
  <2>. QED BY <1>1, <1>3, <1>5, <2>1, MoveFacts DEF Inv, Leftovers
<1>13. Listed'
  <2>1. pc[u] # "taken" /\ Running(u)
    BY <1>1, DeleteFacts
  <2>. QED BY <1>1, <1>3, <2>1, MoveFacts DEF Inv, Listed, Moves
<1>. QED BY <1>3, <1>6, <1>7, <1>8, <1>9, <1>10, <1>11, <1>12, <1>13 DEF Inv

\* A DELETE takes a row that no other upload is deleting.
LEMMA DeleteRowInv ==
  ASSUME Inv, NEW u \in Uploads, NEW from, NEW old, NEW during, NEW after,
         Deletes(u, from, old, during, after), DeleteRow(u, during, after)
  PROVE  Inv'
<1>1. PICK r \in scan[u] :
        /\ pc[u] = during /\ Deleting(u, r) = {}
        /\ gone' = [gone EXCEPT ![u] = @ \cup ({r} \cap rows)]
        /\ scan' = [scan EXCEPT ![u] = @ \ {r}]
        /\ pc' = [pc EXCEPT ![u] = IF scan[u] = {r} THEN after ELSE during]
        /\ UNCHANGED <<rows, course, file, at, new, base, moves, faults>>
  BY DEF DeleteRow, Go
<1>2. PICK s \in {during, after} : pc' = [pc EXCEPT ![u] = s] /\ (s # during => scan[u] = {r})
  BY <1>1
<1>3. Moves(u) /\ Placed' /\ Running(u)' /\ pc'[u] = s /\ (Holding(u)' <=> Holding(u)) /\ pc'[u] \notin {"done", "conflict"}
  <2>1. pc[u] \in {from, during} /\ Go(u, s) /\ UNCHANGED <<course, file, base, at>>
    BY <1>1, <1>2 DEF Go
  <2>. QED BY <2>1, DeletePlaced, Zenon
<1>4. /\ scan'[u] = scan[u] \ {r} /\ gone'[u] = gone[u] \cup ({r} \cap rows)
      /\ \A v \in Uploads \ {u} : scan'[v] = scan[v] /\ gone'[v] = gone[v]
  BY <1>1 DEF Inv, Typed
<1>5. Typed'
  BY <1>1, <1>3, MoveFacts DEF Inv, Typed
<1>6. Quiet'
  <2>1. s \notin {"scan_taken", "scan_schedule"} => scan'[u] = {}
    BY <1>2, <1>4 DEF Deletes
  <2>. QED BY <1>1, <1>3, <1>4, <2>1, MoveFacts DEF Inv, Quiet
<1>7. Origins'
  <2>1. \A q \in rows : q.by = Before \/ q.by \in Uploads
    BY RowFacts DEF Inv, Typed
  <2>2. \A v \in Uploads : \A q \in base[v] \cup scan[v] : q.by = Before \/ q.by \in Uploads
    BY RowFacts DEF Inv, Typed
  <2>. QED BY <1>1, <1>3, <1>4, <2>1, <2>2, MoveFacts DEF Inv, Origins
<1>8. InTerms'
  BY <1>1, <1>3, <1>4, MoveFacts DEF Inv, InTerms
<1>9. KeysApart'
  <2>1. \A v \in Uploads \ {u} : r \notin gone[v]
    BY <1>1 DEF Deleting
  <2>2. \A v \in Uploads \ {u} : r \in rows => \A q \in new[v] : ~SameKey(q, r)
    <3>. SUFFICES ASSUME NEW v \in Uploads \ {u}, r \in rows, NEW q \in new[v], SameKey(q, r) PROVE FALSE
      OBVIOUS
    <3>1. q = r
      BY <2>1 DEF Inv, KeysApart
    <3>2. q.by = v /\ pc[v] # "done" /\ v # Before
      BY EnrolmentsAssumption DEF Inv, Origins, Quiet, Running
    <3>. QED BY <3>1, <3>2 DEF Inv, Origins
  <2>. QED BY <1>1, <1>4, <2>1, <2>2 DEF Inv, KeysApart
<1>10. Alone' /\ Explained'
  BY <1>3, MoveInv
<1>11. Leftovers'
  <2>1. \A q : Cleared(u, q)' => Cleared(u, q)
    <3>1. file' = file
      BY <1>1
    <3>2. CASE s = during
      BY <1>1, <1>3, <3>1, <3>2 DEF Cleared
    <3>3. CASE s = after
      BY <1>1, <1>3, <3>1, <3>3, DeleteFacts DEF Cleared, Deletes, AfterTaken
    <3>. QED BY <3>2, <3>3
  <2>. QED BY <1>1, <1>3, <1>4, <2>1, MoveFacts DEF Inv, Leftovers
<1>12. Listed'
  <2>1. pc[u] # "taken" /\ Running(u)
    BY <1>1, DeleteFacts
  <2>. QED BY <1>1, <1>3, <2>1, MoveFacts DEF Inv, Listed, Moves
<1>. QED BY <1>3, <1>5, <1>6, <1>7, <1>8, <1>9, <1>10, <1>11, <1>12 DEF Inv

\* A violated constraint has one of two causes.
LEMMA ConflictInv == ASSUME Inv, NEW u \in Uploads, Conflict(u) PROVE Inv'
<1>1. /\ pc[u] \in {"course", "section"} /\ Go(u, "conflict") /\ Forget(u)
      /\ UNCHANGED <<rows, course, file, at, base, moves, faults>>
  BY DEF Conflict
<1>2. PICK q \in Wanted(u), r \in (rows \ gone[u]) \cup new[u] : SameKey(r, q)
  BY DEF Conflict, Present
<1>3. /\ Source(u, at[u], q) /\ at[u] \in DOMAIN file[u].items /\ Running(u) /\ q \in Row
      /\ pc[u] = "course" => q.table = "taken" /\ q.term <= file[u].term
      /\ pc[u] = "section" => q.table = "schedule" /\ q.term = file[u].term
  BY WantedFacts
<1>4. /\ file[u] \in Files /\ pc[u] = "course" => file[u].kind = "transcript"
      /\ pc[u] = "section" => file[u].kind = "schedule"
  BY <1>1 DEF Inv, Placed
<1>5. CASE r \in new[u]
  <2>1. PICK m \in DOMAIN file[u].items : m < at[u] /\ Source(u, m, r)
    BY <1>1, <1>5 DEF Inv, Listed
  <2>2. m # at[u]
    <3>1. at[u] \in Nat
      BY DEF Inv, Typed
    <3>. QED BY <2>1, <3>1
  <2>3. file[u].items[m] = file[u].items[at[u]]
    <3>1. CASE pc[u] = "course"
      <4>1. /\ file[u].items[m] \in [course: Courses, term: Terms]
            /\ file[u].items[at[u]] \in [course: Courses, term: Terms]
        BY <1>1, <1>3, <1>4, <2>1, <3>1, FileFacts DEF Inv, Typed, Placed
      <4>2. /\ r.of = file[u].items[m].course /\ r.term = file[u].items[m].term
            /\ q.of = file[u].items[at[u]].course /\ q.term = file[u].items[at[u]].term
        BY <1>3, <1>4, <2>1, <3>1 DEF Source, Taken, Inv, Placed
      <4>3. file[u].items[m].course = file[u].items[at[u]].course /\ file[u].items[m].term = file[u].items[at[u]].term
        BY <1>2, <4>2 DEF SameKey
      <4>4. \A i, j \in [course: Courses, term: Terms] : i.course = j.course /\ i.term = j.term => i = j
        OBVIOUS
      <4>. QED BY <4>1, <4>3, <4>4
    <3>2. CASE pc[u] = "section"
      <4>1. q.of = file[u].items[at[u]] /\ r.table = "schedule"
        BY <1>2, <1>3, <1>4, <3>2 DEF Source, Scheduled, SameKey
      <4>2. r.of = file[u].items[m]
        BY <1>4, <2>1, <3>2, <4>1 DEF Source, Scheduled
      <4>. QED BY <1>2, <4>1, <4>2 DEF SameKey
    <3>. QED BY <1>1, <3>1, <3>2
  <2>4. Excused(u)
    BY <1>3, <2>2, <2>3 DEF Excused, Repeats
  <2>. QED BY <1>1, <1>3, <2>4, ForgetInv DEF Inv, Typed
<1>6. CASE r \in rows \ gone[u]
  <2>1. scan[u] = {}
    BY <1>1 DEF Inv, Quiet
  <2>2. Cleared(u, r)
    BY <1>1, <1>2, <1>3, <1>4 DEF Cleared, SameKey, Inv, Placed
  <2>3. Meanwhile(u, r.by)
    BY <1>6, <2>1, <2>2 DEF Inv, Leftovers
  <2>4. r.by \in Uploads \ {u}
    BY <1>1, <2>3 DEF Meanwhile
  <2>5. Excused(u)
    BY <2>3, <2>4 DEF Excused
  <2>. QED BY <1>1, <1>3, <2>5, ForgetInv DEF Inv, Typed
<1>. QED BY <1>2, <1>5, <1>6

\* An INSERT of what is not there, by who has waited for everyone who has
\* that key, and its next statement.
Inserts(u) ==
  /\ pc[u] \in {"course", "section", "taken"} /\ WaitsFor(u) = {}
  /\ new' = [new EXCEPT ![u] = @ \cup {q \in Wanted(u) : ~Present(u, q)}]
  /\ pc[u] # "taken" => \A q \in Wanted(u) : ~Present(u, q)
  /\ \/ pc[u] = "section" /\ Go(u, "taken") /\ UNCHANGED at
     \/ pc[u] = "course" /\ NextItem(u, "course")
     \/ pc[u] = "taken" /\ NextItem(u, "section")
  /\ UNCHANGED <<rows, course, file, scan, gone, base, moves, faults>>

\* Both kinds of INSERT are of that form.
LEMMA BothInsert ==
  ASSUME Inv, NEW u \in Uploads, Insert(u) \/ InsertTaken(u) PROVE Inserts(u)
<1>1. CASE Insert(u)
  <2>1. {q \in Wanted(u) : ~Present(u, q)} = Wanted(u)
    BY <1>1 DEF Insert
  <2>. QED BY <1>1, <2>1 DEF Insert, Inserts
<1>2. CASE InsertTaken(u)
  BY <1>2 DEF InsertTaken, Inserts
<1>. QED BY <1>1, <1>2

\* Where an INSERT leads.
LEMMA InsertFacts ==
  ASSUME Inv, NEW u \in Uploads, Inserts(u)
  PROVE  /\ Moves(u) /\ Running(u)' /\ pc'[u] \in {"course", "section", "taken", "commit"}
         /\ at' \in [Uploads -> Nat \ {0}] /\ \A v \in Uploads \ {u} : at'[v] = at[v]
         /\ file[u] \in Files /\ Len(file[u].items) \in Nat /\ at[u] \in 1..Len(file[u].items)
         /\ \/ pc[u] = "section" /\ pc'[u] = "taken" /\ at'[u] = at[u]
            \/ /\ at'[u] = at[u] + 1 /\ pc[u] # "section"
               /\ \/ at[u] = Len(file[u].items) /\ pc'[u] = "commit"
                  \/ at[u] # Len(file[u].items) /\ pc[u] = "course" /\ pc'[u] = "course"
                  \/ at[u] # Len(file[u].items) /\ pc[u] = "taken" /\ pc'[u] = "section"
         /\ file[u].kind = (IF pc[u] = "course" THEN "transcript" ELSE "schedule")
<1>1. /\ pc[u] \in {"course", "section", "taken"} /\ UNCHANGED <<course, file, base>>
  BY DEF Inserts
<1>2. file[u] \in Files /\ at[u] \in Nat \ {0} /\ at[u] <= Len(file[u].items) /\ Running(u)
  BY <1>1 DEF Inv, Typed, Placed, Running
<1>3. Len(file[u].items) \in Nat /\ at[u] \in 1..Len(file[u].items)
  BY <1>2, FileFacts
<1>4. file[u].kind = IF pc[u] = "course" THEN "transcript" ELSE "schedule"
  BY <1>1 DEF Inv, Placed
<1>5. CASE pc[u] = "section"
  <2>1. pc' = [pc EXCEPT ![u] = "taken"] /\ at' = at
    BY <1>5 DEF Inserts, Go
  <2>. QED BY <1>1, <1>2, <1>3, <1>4, <1>5, <2>1 DEF Moves, Inv, Typed, Running, Steps
<1>6. CASE pc[u] # "section"
  <2>1. PICK s \in {"course", "section"} :
          /\ at' = [at EXCEPT ![u] = @ + 1]
          /\ pc' = [pc EXCEPT ![u] = IF at[u] = Len(file[u].items) THEN "commit" ELSE s]
          /\ s = "course" <=> pc[u] = "course"
    BY <1>6 DEF Inserts, NextItem, Go
  <2>. QED BY <1>1, <1>2, <1>3, <1>4, <1>6, <2>1 DEF Moves, Inv, Typed, Running, Steps
<1>. QED BY <1>5, <1>6

\* Who inserts has waited for everyone who has that key.
LEMMA InsertInv == ASSUME Inv, NEW u \in Uploads, Inserts(u) PROVE Inv'
<1>. DEFINE W == {q \in Wanted(u) : ~Present(u, q)}
<1>1. /\ pc[u] \in {"course", "section", "taken"} /\ WaitsFor(u) = {}
      /\ new' = [new EXCEPT ![u] = @ \cup W]
      /\ UNCHANGED <<rows, course, file, scan, gone, base, moves, faults>>
  BY DEF Inserts
<1>2. /\ \A q \in W : q \in Row /\ q.by = u /\ Spoken(u, q.term) /\ Source(u, at[u], q)
      /\ \A p, q \in W : p = q
  BY WantedFacts
<1>3. \A q \in W : KeyHolders(u, q) = {} /\ ~Present(u, q)
  BY <1>1 DEF WaitsFor
<1>. HIDE DEF W
<1>4. Moves(u) /\ Running(u)' /\ pc'[u] \in {"course", "section", "taken", "commit"}
  BY InsertFacts
<1>5. new'[u] = new[u] \cup W /\ \A v \in Uploads \ {u} : new'[v] = new[v] /\ at'[v] = at[v]
  BY <1>1, InsertFacts DEF Inv, Typed
<1>6. Typed'
  BY <1>1, <1>2, <1>4, MoveFacts, InsertFacts DEF Inv, Typed
<1>7. Placed'
  <2>1. \A v \in Uploads \ {u} : pc'[v] = pc[v] /\ (Running(v)' <=> Running(v)) /\ at'[v] = at[v]
    BY <1>4, <1>5, MoveFacts
  <2>2. /\ Running(u) /\ file[u] \in Files
        /\ pc'[u] = "course" => file[u].kind = "transcript"
        /\ pc'[u] \in {"section", "taken"} => file[u].kind = "schedule"
        /\ pc'[u] \in {"course", "section", "taken"} => at'[u] <= Len(file[u].items)
        /\ pc'[u] = "commit" => at'[u] = Len(file[u].items) + 1
        /\ at'[u] <= Len(file[u].items) + 1
    BY <1>4, InsertFacts DEF Moves
  <2>3. ~Unwanted(file[u])
    BY <2>2 DEF Inv, Placed
  <2>. QED BY <1>1, <1>4, <2>1, <2>2, <2>3 DEF Inv, Placed
<1>8. Quiet'
  BY <1>1, <1>4, <1>5, MoveFacts DEF Inv, Quiet
<1>9. Origins'
  <2>1. \A r \in rows : r.by = Before \/ r.by \in Uploads
    BY RowFacts DEF Inv, Typed
  <2>2. \A v \in Uploads : \A r \in base[v] \cup scan[v] : r.by = Before \/ r.by \in Uploads
    BY RowFacts DEF Inv, Typed
  <2>. QED BY <1>1, <1>2, <1>4, <1>5, <2>1, <2>2, MoveFacts DEF Inv, Origins
<1>10. InTerms'
  BY <1>1, <1>2, <1>4, <1>5, MoveFacts DEF Inv, InTerms
<1>11. KeysApart'
  <2>1. \A q \in W : \A v \in Uploads \ {u} : \A r \in new[v] \cup gone[v] : ~SameKey(r, q)
    BY <1>3 DEF KeyHolders
  <2>2. \A q \in W : \A r \in (rows \ gone[u]) \cup new[u] : ~SameKey(r, q)
    BY <1>3 DEF Present
  <2>3. \A p, q : SameKey(p, q) <=> SameKey(q, p)
    BY DEF SameKey
  <2>4. \A r, q \in rows : SameKey(r, q) => r = q
    BY DEF Inv, KeysApart
  <2>5. ASSUME NEW v \in Uploads
        PROVE  /\ gone[v] \subseteq rows
               /\ \A r \in new'[v] : \A q \in (rows \ gone[v]) \cup new'[v] : SameKey(r, q) => r = q
    <3>1. CASE v = u
      BY <1>2, <1>5, <2>2, <2>3, <3>1 DEF Inv, KeysApart
    <3>2. CASE v # u
      BY <1>5, <3>2 DEF Inv, KeysApart
    <3>. QED BY <3>1, <3>2
  <2>6. ASSUME NEW v \in Uploads, NEW w \in Uploads \ {v}
        PROVE  /\ gone[v] \cap gone[w] = {}
               /\ \A r \in new'[v] : \A q \in new'[w] \cup gone[w] : ~SameKey(r, q)
    <3>1. CASE v = u
      BY <1>5, <2>1, <2>3, <3>1 DEF Inv, KeysApart
    <3>2. CASE w = u
      BY <1>5, <2>1, <2>3, <3>2 DEF Inv, KeysApart
    <3>3. CASE v # u /\ w # u
      BY <1>5, <3>3 DEF Inv, KeysApart
    <3>. QED BY <3>1, <3>2, <3>3
  <2>. QED BY <1>1, <2>4, <2>5, <2>6 DEF KeysApart
<1>12. Alone' /\ Explained'
  <2>1. Holding(u)' => Holding(u)
    BY <1>1, <1>4 DEF Holding, Moves
  <2>. QED BY <1>4, <2>1, MoveInv
<1>13. Leftovers'
  <2>1. \A r : Cleared(u, r)' => Cleared(u, r)
    BY <1>1, <1>4, InsertFacts DEF Cleared
  <2>. QED BY <1>1, <1>4, <1>5, <2>1, MoveFacts DEF Inv, Leftovers
<1>14. Listed'
  <2>1. \A v \in Uploads \ {u} : pc'[v] = pc[v] /\ (Running(v)' <=> Running(v))
    BY <1>4, MoveFacts
  <2>2. /\ at[u] \in DOMAIN file[u].items /\ at[u] \in Nat
        /\ at'[u] > at[u] \/ (at'[u] = at[u] /\ pc'[u] = "taken" /\ pc[u] = "section")
    BY InsertFacts, FileFacts
  <2>3. \A r \in new'[u] : \E m \in DOMAIN file[u].items :
          (m < at'[u] \/ (m = at'[u] /\ pc'[u] = "taken")) /\ Source(u, m, r)
    <3>1. \A m \in DOMAIN file[u].items : m \in Nat
      BY InsertFacts, FileFacts
    <3>2. at'[u] \in Nat
      BY InsertFacts
    <3>3. \A r \in new[u] : \E m \in DOMAIN file[u].items :
            (m < at[u] \/ (m = at[u] /\ pc[u] = "taken")) /\ Source(u, m, r)
      BY DEF Inv, Listed
    <3>4. \A m \in Nat : m < at[u] \/ (m = at[u] /\ pc[u] = "taken") =>
            m < at'[u] \/ (m = at'[u] /\ pc'[u] = "taken")
      BY <2>2, <3>2
    <3>5. \A r \in W : (at[u] < at'[u] \/ (at[u] = at'[u] /\ pc'[u] = "taken")) /\ Source(u, at[u], r)
      BY <1>2, <2>2, <3>2
    <3>. QED BY <1>5, <2>2, <3>1, <3>3, <3>4, <3>5
  <2>4. file[u].kind = "transcript" =>
         \A m \in DOMAIN file[u].items :
           m < at'[u] /\ file[u].items[m].course \in Catalogue =>
             Taken(file[u].items[m].course, file[u].items[m].term, u) \in new'[u]
    <3>. SUFFICES ASSUME file[u].kind = "transcript", NEW m \in DOMAIN file[u].items, m < at'[u],
                         file[u].items[m].course \in Catalogue
                  PROVE  Taken(file[u].items[m].course, file[u].items[m].term, u) \in new'[u]
      OBVIOUS
    <3>1. pc[u] = "course" /\ at'[u] = at[u] + 1 /\ Running(u)
      BY InsertFacts DEF Moves
    <3>2. m \in Nat /\ at[u] \in Nat
      BY <2>2, InsertFacts, FileFacts
    <3>3. CASE m < at[u]
      BY <1>5, <3>1, <3>3 DEF Inv, Listed
    <3>4. CASE m = at[u]
      <4>1. Taken(file[u].items[m].course, file[u].items[m].term, u) \in Wanted(u)
        BY <3>1, <3>4 DEF Wanted
      <4>2. \A q \in Wanted(u) : q \in W
        BY <3>1 DEF W, Inserts
      <4>. QED BY <1>5, <4>1, <4>2
    <3>. QED BY <3>1, <3>2, <3>3, <3>4
  <2>5. \A v \in Uploads : \A m, r : Source(v, m, r)' <=> Source(v, m, r)
    BY <1>4, MoveFacts
  <2>. QED BY <1>1, <1>5, <2>1, <2>3, <2>4, <2>5 DEF Inv, Listed
<1>. QED BY <1>6, <1>7, <1>8, <1>9, <1>10, <1>11, <1>12, <1>13, <1>14 DEF Inv

\* What a commit leaves is written by u, or was there and is not deleted by u.
LEMMA CommitInv == ASSUME Inv, NEW u \in Uploads, Commit(u) PROVE Inv'
<1>1. /\ pc[u] = "commit" /\ rows' = (rows \ gone[u]) \cup new[u] /\ Go(u, "done")
      /\ scan' = [scan EXCEPT ![u] = {}] /\ gone' = [gone EXCEPT ![u] = {}] /\ new' = [new EXCEPT ![u] = {}]
      /\ UNCHANGED <<course, file, at, base, moves, faults>>
  BY DEF Commit, Forget, Written
<1>2. Moves(u) /\ pc'[u] = "done" /\ Running(u)
  BY <1>1 DEF Inv, Typed, Moves, Go, Running, Steps
<1>3. scan'[u] = {} /\ gone'[u] = {} /\ new'[u] = {}
      /\ \A v \in Uploads \ {u} : scan'[v] = scan[v] /\ gone'[v] = gone[v] /\ new'[v] = new[v]
  BY <1>1 DEF Inv, Typed
<1>4. ~Running(u)' /\ ~Holding(u)' /\ \A r : ~Cleared(u, r)'
  BY <1>2 DEF Running, Holding, Cleared
<1>5. Typed'
  BY <1>1, <1>2, MoveFacts DEF Inv, Typed
<1>6. Placed'
  BY <1>1, <1>2, <1>4, MoveFacts DEF Inv, Placed
<1>7. Quiet'
  BY <1>2, <1>3, <1>4, MoveFacts DEF Inv, Quiet
<1>8. Origins'
  <2>1. \A r \in rows : r.by = Before \/ r.by \in Uploads
    BY RowFacts DEF Inv, Typed
  <2>2. \A v \in Uploads : \A r \in base[v] \cup scan[v] : r.by = Before \/ r.by \in Uploads
    BY RowFacts DEF Inv, Typed
  <2>3. \A r \in rows' : r.by = Before \/ pc'[r.by] = "done"
    BY <1>1, <1>2, <2>1, MoveFacts DEF Inv, Origins
  <2>. QED BY <1>1, <1>2, <1>3, <2>2, <2>3, MoveFacts DEF Inv, Origins
<1>9. InTerms'
  BY <1>2, <1>3, MoveFacts DEF Inv, InTerms
<1>10. KeysApart'
  <2>1. \A r, q \in rows' : SameKey(r, q) => r = q
    <3>1. \A p, q : SameKey(p, q) <=> SameKey(q, p)
      BY DEF SameKey
    <3>. QED BY <1>1, <3>1 DEF Inv, KeysApart
  <2>2. ASSUME NEW v \in Uploads \ {u}
        PROVE  /\ gone[v] \subseteq rows'
               /\ \A r \in new[v] : \A q \in (rows' \ gone[v]) \cup new[v] : SameKey(r, q) => r = q
    BY <1>1 DEF Inv, KeysApart
  <2>. QED BY <1>3, <2>1, <2>2 DEF Inv, KeysApart
<1>11. Alone' /\ Explained'
  BY <1>2, <1>4, MoveInv
<1>12. Leftovers'
  <2>1. ASSUME NEW v \in Uploads \ {u}, NEW r \in rows' \ (gone[v] \cup scan[v]), Cleared(v, r)
        PROVE  Meanwhile(v, r.by)'
    <3>1. CASE r \in rows
      BY <1>2, <2>1, <3>1, MoveFacts DEF Inv, Leftovers
    <3>2. CASE r \in new[u]
      <4>1. r.by = u /\ u # Before
        BY <3>2, EnrolmentsAssumption DEF Inv, Origins
      <4>2. file[u].kind = "schedule"
        <5>1. file[u] \in Files /\ file[u].kind \in {"transcript", "schedule"}
          BY <1>1, FileFacts DEF Inv, Placed
        <5>2. CASE file[v].kind = "transcript"
          <6>1. Holding(v)
            BY <2>1, <5>2 DEF Cleared, Holding, Running
          <6>2. file[u].kind = "transcript" => Holding(u)
            BY <1>1, <1>2 DEF Holding
          <6>. QED BY <5>1, <6>1, <6>2 DEF Inv, Alone
        <5>3. CASE file[v].kind # "transcript"
          <6>1. r.table = "schedule"
            BY <2>1, <5>3 DEF Cleared
          <6>2. file[u].kind = "transcript" => r.table = "taken"
            BY <3>2 DEF Inv, Listed, Source, Taken
          <6>. QED BY <5>1, <6>1, <6>2
        <5>. QED BY <5>2, <5>3
      <4>3. \A b \in base[v] : b.by # u
        BY <1>1, <4>1 DEF Inv, Origins
      <4>. QED BY <1>1, <1>2, <4>1, <4>2, <4>3 DEF Meanwhile
    <3>. QED BY <1>1, <3>1, <3>2
  <2>2. \A v \in Uploads \ {u} : \A r \in rows' \ (gone'[v] \cup scan'[v]) : Cleared(v, r)' => Meanwhile(v, r.by)'
    BY <1>2, <1>3, <2>1, MoveFacts
  <2>. QED BY <1>4, <2>2 DEF Leftovers
<1>13. Listed'
  <2>1. \A v \in Uploads \ {u} : \A r \in new'[v] : \E m \in DOMAIN file[v].items :
           (m < at[v] \/ (m = at[v] /\ pc'[v] = "taken")) /\ Source(v, m, r)'
    BY <1>2, <1>3, MoveFacts DEF Inv, Listed
  <2>. QED BY <1>1, <1>2, <1>3, <1>4, <2>1, MoveFacts DEF Inv, Listed
<1>. QED BY <1>5, <1>6, <1>7, <1>8, <1>9, <1>10, <1>11, <1>12, <1>13 DEF Inv

\* The importer touches nothing that the invariant speaks of but the type.
LEMMA ImporterInv ==
  ASSUME Inv, NEW s \in Sections, NEW c \in Catalogue, ImportSection(s, c) \/ MoveSection(s, c)
  PROVE  Inv'
<1>1. /\ course' = [course EXCEPT ![s] = c] /\ moves' \in 0..MaxMoves
      /\ UNCHANGED <<rows, pc, file, at, scan, gone, new, base, faults>>
  BY EnrolmentsAssumption DEF ImportSection, MoveSection, tx, Inv, Typed
<1>2. Typed'
  BY <1>1 DEF Inv, Typed
<1>3. Placed' /\ Quiet' /\ Origins'
  BY <1>1 DEF Inv, Placed, Quiet, Origins, Running
<1>4. InTerms' /\ KeysApart' /\ Alone' /\ Leftovers'
  BY <1>1 DEF Inv, InTerms, Spoken, KeysApart, Alone, Holding, Running, Leftovers, Cleared, Meanwhile
<1>5. Listed' /\ Explained'
  BY <1>1 DEF Inv, Listed, Source, Running, Explained, Excused, Meanwhile
<1>. QED BY <1>2, <1>3, <1>4, <1>5 DEF Inv

\* Deadlock breaks cycles of waiting uploads: they are running.
LEMMA WaitersRun == ASSUME Inv, NEW u \in Uploads, InCycle(u) PROVE Running(u)
<1>1. WaitsFor(u) # {}
  BY DEF InCycle
<1>2. CASE pc[u] \in {"program", "scan_taken", "scan_schedule"}
  BY <1>2 DEF Running
<1>3. CASE pc[u] \notin {"program", "scan_taken", "scan_schedule"}
  <2>1. Wanted(u) # {}
    BY <1>1, <1>3 DEF WaitsFor
  <2>. QED BY <2>1, WantedFacts
<1>. QED BY <1>2, <1>3

\* Every step keeps the invariant.
LEMMA NextInv == Inv /\ [Next]_vars => Inv'
<1>. SUFFICES ASSUME Inv, [Next]_vars PROVE Inv'
  OBVIOUS
<1>1. CASE UNCHANGED vars
  <2>1. UNCHANGED <<rows, course, pc, file, at, scan, gone, new, base, moves, faults>>
    BY <1>1 DEF vars
  <2>2. Typed' /\ Placed' /\ Quiet' /\ Origins' /\ InTerms' /\ KeysApart'
    BY <2>1 DEF Inv, Typed, Placed, Quiet, Origins, Running, InTerms, Spoken, KeysApart
  <2>3. Alone' /\ Leftovers' /\ Listed' /\ Explained'
    BY <2>1 DEF Inv, Alone, Holding, Running, Leftovers, Cleared, Meanwhile, Listed, Source, Explained, Excused
  <2>. QED BY <2>2, <2>3 DEF Inv
<1>2. ASSUME NEW u \in Uploads, Step(u) PROVE Inv'
  <2>1. CASE UpdateProgram(u)
    BY <2>1, UpdateProgramInv
  <2>2. CASE DeleteTaken(u)
    <3>1. Deletes(u, "delete_taken", OldTaken(u), "scan_taken", AfterTaken(u))
      BY DEF Deletes
    <3>. QED BY <2>2, <3>1, BeginDeleteInv, DeleteRowInv DEF DeleteTaken
  <2>3. CASE DeleteSchedule(u)
    <3>1. Deletes(u, "delete_schedule", OldSchedule(u), "scan_schedule", "section")
      BY DEF Deletes
    <3>. QED BY <2>3, <3>1, BeginDeleteInv, DeleteRowInv DEF DeleteSchedule
  <2>4. CASE Conflict(u)
    BY <2>4, ConflictInv
  <2>5. CASE Insert(u) \/ InsertTaken(u)
    BY <2>5, BothInsert, InsertInv
  <2>6. CASE Commit(u)
    BY <2>6, CommitInv
  <2>7. CASE Deadlock(u)
    BY <2>7, WaitersRun, ForgetInv DEF Deadlock, Inv, Typed
  <2>. QED BY <1>2, <2>1, <2>2, <2>3, <2>4, <2>5, <2>6, <2>7 DEF Step
<1>3. ASSUME NEW u \in Uploads, Fail(u) PROVE Inv'
  <2>1. faults' \in 0..MaxFaults
    BY <1>3, EnrolmentsAssumption DEF Fail, Inv, Typed
  <2>. QED BY <1>3, <2>1, ForgetInv DEF Fail
<1>. QED BY <1>1, <1>2, <1>3, UploadInv, ImporterInv DEF Next

\* The invariant holds in every reachable state.
LEMMA Safe == Spec => []Inv
BY InitInv, NextInv, PTL DEF Spec

-----------------------------------------------------------------------------
(* The results.                                                            *)

\* An upload becomes done by its commit alone.
LEMMA OnlyCommits ==
  ASSUME Inv, [Next]_vars, NEW u \in Uploads, pc[u] = "commit", pc'[u] = "done" PROVE Commit(u)
<1>1. \A v \in Uploads \ {u} : \A s : Go(v, s) => pc'[u] = pc[u]
  BY DEF Go, Inv, Typed
<1>2. \A s : Go(u, s) => pc'[u] = s
  BY DEF Go, Inv, Typed
<1>3. ~UNCHANGED pc
  OBVIOUS
<1>4. \A v \in Uploads \ {u} : ~Step(v) /\ ~Fail(v) /\ \A f \in Files : ~Upload(v, f)
  BY <1>1 DEF Step, UpdateProgram, DeleteTaken, DeleteSchedule, BeginDelete, DeleteRow, Conflict, Insert,
     InsertTaken, NextItem, Commit, Deadlock, Fail, Upload
<1>5. ~Fail(u) /\ \A f \in Files : ~Upload(u, f)
  BY <1>2 DEF Fail, Upload
<1>6. Step(u)
  BY <1>3, <1>4, <1>5 DEF Next, vars, ImportSection, MoveSection
<1>. QED BY <1>2, <1>6 DEF Step, UpdateProgram, DeleteTaken, DeleteSchedule, BeginDelete, DeleteRow, Conflict,
            Insert, InsertTaken, Deadlock

\* A commit changes only rows of the terms its file speaks of.
OtherTermsKept ==
  [][\A u \in Uploads : pc[u] = "commit" /\ pc'[u] = "done" =>
       \A r \in (rows \ rows') \cup (rows' \ rows) :
         r.term = file[u].term \/ (file[u].kind = "transcript" /\ r.term < file[u].term)]_vars

\* An upload leaves the terms it does not speak of alone (saveTranscript,
\* saveSchedule).
THEOREM OtherTermsStay == Spec => OtherTermsKept
<1>1. Inv /\ [Next]_vars =>
        [\A u \in Uploads : pc[u] = "commit" /\ pc'[u] = "done" =>
           \A r \in (rows \ rows') \cup (rows' \ rows) :
             r.term = file[u].term \/ (file[u].kind = "transcript" /\ r.term < file[u].term)]_vars
  <2>. SUFFICES ASSUME Inv, [Next]_vars, NEW u \in Uploads, pc[u] = "commit", pc'[u] = "done",
                       NEW r \in (rows \ rows') \cup (rows' \ rows)
                PROVE  Spoken(u, r.term)
    BY DEF Spoken
  <2>1. rows' = (rows \ gone[u]) \cup new[u]
    BY OnlyCommits DEF Commit, Written
  <2>2. r \in gone[u] \cup new[u]
    BY <2>1
  <2>. QED BY <2>2 DEF Inv, InTerms
<1>. QED BY <1>1, Safe, PTL DEF Spec, OtherTermsKept

\* A transcript replaces what was there of its terms, whatever transcripts are
\* uploaded at once; only schedules committed meanwhile remain (saveTranscript).
THEOREM TranscriptsReplace == Spec => TranscriptReplaces
<1>1. Inv /\ [Next]_vars =>
        [\A u \in Uploads : file[u].kind = "transcript" /\ pc[u] = "commit" /\ pc'[u] = "done" =>
           /\ \A n \in DOMAIN file[u].items :
                LET i == file[u].items[n] IN i.course \in Catalogue => Taken(i.course, i.term, u) \in rows'
           /\ \A r \in rows' : r.table = "taken" /\ r.term <= file[u].term /\ r.by # u =>
                r \notin base[u] /\ r.by \in Uploads /\ file[r.by].kind = "schedule"]_vars
  <2>. SUFFICES ASSUME Inv, [Next]_vars, NEW u \in Uploads,
                       file[u].kind = "transcript", pc[u] = "commit", pc'[u] = "done"
                PROVE  /\ \A n \in DOMAIN file[u].items :
                            file[u].items[n].course \in Catalogue =>
                              Taken(file[u].items[n].course, file[u].items[n].term, u) \in rows'
                       /\ \A r \in rows' : r.table = "taken" /\ r.term <= file[u].term /\ r.by # u =>
                            r \notin base[u] /\ r.by \in Uploads /\ file[r.by].kind = "schedule"
    OBVIOUS
  <2>1. rows' = (rows \ gone[u]) \cup new[u]
    BY OnlyCommits DEF Commit, Written
  <2>2. \A n \in DOMAIN file[u].items : n < at[u]
    <3>1. file[u] \in Files /\ at[u] = Len(file[u].items) + 1
      BY DEF Inv, Placed
    <3>. QED BY <3>1, FileFacts
  <2>3. \A n \in DOMAIN file[u].items :
          file[u].items[n].course \in Catalogue =>
            Taken(file[u].items[n].course, file[u].items[n].term, u) \in rows'
    BY <2>1, <2>2 DEF Inv, Listed, Running
  <2>4. ASSUME NEW r \in rows', r.table = "taken", r.term <= file[u].term, r.by # u
        PROVE  r \notin base[u] /\ r.by \in Uploads /\ file[r.by].kind = "schedule"
    <3>1. r \in rows \ (gone[u] \cup scan[u])
      BY <2>1, <2>4 DEF Inv, Origins, Quiet
    <3>2. Meanwhile(u, r.by)
      BY <2>4, <3>1 DEF Inv, Leftovers, Cleared
    <3>. QED BY <3>2 DEF Meanwhile
  <2>. QED BY <2>3, <2>4
<1>. QED BY <1>1, Safe, PTL DEF Spec, TranscriptReplaces

\* Only a file that repeats itself, or a schedule committed meanwhile, makes
\* an upload fail on a constraint (insertTranscriptQuery, insertScheduleQuery).
THEOREM ConflictsExplained == Spec => []ConflictNeedsSchedule
<1>1. Inv => ConflictNeedsSchedule
  <2>. SUFFICES ASSUME Inv, NEW u \in Uploads, pc[u] = "conflict"
                PROVE  \/ \E m, n \in DOMAIN file[u].items : m # n /\ file[u].items[m] = file[u].items[n]
                       \/ \E v \in Uploads \ {u} : file[v].kind = "schedule" /\ pc[v] = "done" /\ ~\E r \in base[u] : r.by = v
    BY DEF ConflictNeedsSchedule
  <2>1. Excused(u)
    BY DEF Inv, Explained
  <2>. QED BY <2>1 DEF Excused, Repeats, Meanwhile
<1>. QED BY <1>1, Safe, PTL

-----------------------------------------------------------------------------
(* Uploads implement Replacement.                                          *)

\* v was committed since u began.
Later(u, v) == v \in Uploads \ {u} /\ pc[v] = "done" /\ \A b \in base[u] : b.by # v

\* r is a course of the term of a schedule that has begun to delete those.
ClearedTaken(u, r) ==
  /\ file[u].kind = "schedule"
  /\ pc[u] \in {"scan_taken", "delete_schedule", "scan_schedule", "section", "taken", "commit"}
  /\ r.table = "taken" /\ r.term = file[u].term

InSchedule(u, s) == Scheduled(s, file[u].term, u) \in new[u]

TakenFor(u, s) ==
  \E c \in Catalogue : /\ <<s, c>> \in found[u]
                       /\ Taken(c, file[u].term, u) \in new[u] \/ \E v \in Uploads : Later(u, v)

\* What u has done about the item m of its schedule.
LookedUp(u, m) ==
  LET s == file[u].items[m] IN
  /\ m < at[u] => s \in failed[u] \/ (InSchedule(u, s) /\ TakenFor(u, s))
  /\ m = at[u] /\ pc[u] = "taken" => s \in failed[u] \/ (InSchedule(u, s) /\ course[s] # NoCourse)

\* What an upload is about to answer is so.
Answer(u) ==
  /\ \A r \in rows \ (gone[u] \cup scan[u]) : ClearedTaken(u, r) => Later(u, r.by)
  /\ file[u].kind = "transcript" => \A r \in scan[u] \cup gone[u] : r.table = "taken"
  /\ file[u].kind = "schedule" /\ Running(u) => \A m \in DOMAIN file[u].items : LookedUp(u, m)
  /\ file[u].kind = "schedule" => \A r \in new[u] : r.table = "taken" =>
       \E m \in DOMAIN file[u].items : <<file[u].items[m], r.of>> \in found[u]

Heard == failed \in [Uploads -> SUBSET Sections] /\ found \in [Uploads -> SUBSET (Sections \X Catalogue)]

Answers == Heard /\ \A u \in Uploads : Answer(u)

\* At the start nothing is answered.
LEMMA InitAnswers == Init => Answers
<1>. SUFFICES ASSUME Init PROVE Answers
  OBVIOUS
<1>1. Heard
  BY DEF Init, Heard
<1>2. \A u \in Uploads : file[u].kind = "none"
  BY DEF Init, NoFile
<1>. QED BY <1>1, <1>2 DEF Answers, Answer, ClearedTaken

\* Upload v stays where it is while others write rows after it began.
LEMMA AnswerKept ==
  ASSUME Inv, NEW v \in Uploads, Answer(v),
         UNCHANGED <<file[v], base[v], pc[v], at[v], new[v], gone[v], scan[v], failed[v], found[v]>>,
         \A w \in Uploads : pc[w] = "done" => pc'[w] = "done",
         \A s \in Sections : course[s] # NoCourse => course'[s] # NoCourse,
         \A r \in rows' \ rows : Later(v, r.by)'
  PROVE  Answer(v)'
<1>1. \A w : Later(v, w) => Later(v, w)'
  BY DEF Later
<1>2. \A r : ClearedTaken(v, r)' <=> ClearedTaken(v, r)
  BY DEF ClearedTaken
<1>3. \A r \in rows' \ (gone[v] \cup scan[v]) : ClearedTaken(v, r) => Later(v, r.by)'
  BY <1>1 DEF Answer
<1>4. \A s : (InSchedule(v, s)' <=> InSchedule(v, s)) /\ (TakenFor(v, s) => TakenFor(v, s)')
  BY <1>1 DEF InSchedule, TakenFor
<1>5. ASSUME file[v].kind = "schedule", Running(v), NEW m \in DOMAIN file[v].items
      PROVE  LookedUp(v, m)'
  <2>1. LookedUp(v, m)
    BY <1>5 DEF Answer
  <2>2. file[v].items[m] \in Sections
    <3>1. file[v] \in Files
      BY <1>5 DEF Inv, Placed, Running
    <3>. QED BY <1>5, <3>1, FileFacts
  <2>. QED BY <1>4, <2>1, <2>2 DEF LookedUp
<1>6. Running(v)' <=> Running(v)
  BY DEF Running
<1>. QED BY <1>2, <1>3, <1>5, <1>6 DEF Answer

\* The same of all uploads but u, when u alone moves and writes no rows.
LEMMA OthersKept ==
  ASSUME Inv, Answers, NEW u \in Uploads, Moves(u), rows' = rows,
         \A v \in Uploads \ {u} :
           UNCHANGED <<at[v], new[v], gone[v], scan[v], failed[v], found[v]>>
  PROVE  \A v \in Uploads \ {u} : Answer(v)'
<1>. SUFFICES ASSUME NEW v \in Uploads \ {u} PROVE Answer(v)'
  OBVIOUS
<1>1. /\ pc'[v] = pc[v] /\ file' = file /\ base' = base /\ course' = course
      /\ \A w \in Uploads : pc[w] = "done" => pc'[w] = "done"
  BY MoveFacts DEF Moves
<1>. QED BY <1>1, AnswerKept DEF Answers

\* An upload that begins has answered nothing.
LEMMA UploadAnswers == ASSUME Inv, Answers, NEW u \in Uploads, NEW f \in Files, Upload(u, f) PROVE Answers'
<1>1. /\ pc[u] = "idle" /\ file' = [file EXCEPT ![u] = f] /\ base' = [base EXCEPT ![u] = rows]
      /\ pc' = [pc EXCEPT ![u] = IF Unwanted(f) THEN "refused"
                                 ELSE IF f.kind = "transcript" THEN "program" ELSE "delete_taken"]
      /\ UNCHANGED <<rows, course, at, scan, gone, new, failed, found>>
  BY DEF Upload, Go, tx, looked
<1>2. pc'[u] \in {"refused", "program", "delete_taken"} /\ file'[u] = f /\ at[u] = 1
      /\ \A v \in Uploads \ {u} : pc'[v] = pc[v] /\ file'[v] = file[v] /\ base'[v] = base[v]
  BY <1>1 DEF Inv, Typed, Placed
<1>3. \A v \in Uploads \ {u} : Answer(v)'
  BY <1>1, <1>2, AnswerKept DEF Answers
<1>4. Answer(u)'
  <2>1. new[u] = {} /\ scan[u] = {} /\ gone[u] = {}
    BY <1>1 DEF Inv, Quiet, Running
  <2>2. \A m \in DOMAIN f.items : ~(m < 1)
    BY FileFacts
  <2>. QED BY <1>1, <1>2, <2>1, <2>2 DEF Answer, ClearedTaken, LookedUp
<1>. QED BY <1>1, <1>3, <1>4 DEF Answers, Heard

\* One that ends without a commit answers nothing.
LEMMA ForgetAnswers ==
  ASSUME Inv, Answers, NEW u \in Uploads, Running(u), NEW s \in {"failed", "conflict"},
         Go(u, s), Forget(u), UNCHANGED <<rows, course, file, at, base, failed, found>>
  PROVE  Answers'
<1>1. /\ Moves(u) /\ pc'[u] = s
      /\ scan' = [scan EXCEPT ![u] = {}] /\ gone' = [gone EXCEPT ![u] = {}] /\ new' = [new EXCEPT ![u] = {}]
  BY DEF Inv, Typed, Moves, Go, Running, Forget, Steps
<1>2. new'[u] = {} /\ scan'[u] = {} /\ gone'[u] = {}
      /\ \A v \in Uploads \ {u} : scan'[v] = scan[v] /\ gone'[v] = gone[v] /\ new'[v] = new[v]
  BY <1>1 DEF Inv, Typed
<1>3. \A v \in Uploads \ {u} : Answer(v)'
  BY <1>1, <1>2, OthersKept
<1>4. Answer(u)'
  BY <1>1, <1>2 DEF Answer, ClearedTaken, Running
<1>. QED BY <1>3, <1>4 DEF Answers, Heard

\* A transcript looks nothing up.
LEMMA UpdateProgramAnswers == ASSUME Inv, Answers, NEW u \in Uploads, UpdateProgram(u) PROVE Answers'
<1>1. /\ pc[u] = "program" /\ pc' = [pc EXCEPT ![u] = "delete_taken"]
      /\ UNCHANGED <<rows, course, file, at, scan, gone, new, base, failed, found>>
  BY DEF UpdateProgram, Go, tx, looked
<1>2. Moves(u) /\ file[u].kind = "transcript"
  BY <1>1 DEF Inv, Typed, Placed, Moves, Running, Steps
<1>3. \A v \in Uploads \ {u} : Answer(v)'
  BY <1>1, <1>2, OthersKept
<1>4. Answer(u)'
  BY <1>1, <1>2 DEF Answers, Answer, ClearedTaken
<1>. QED BY <1>1, <1>3, <1>4 DEF Answers, Heard

\* Before the first item, an upload has written nothing.
LEMMA NothingWritten ==
  ASSUME Inv, NEW u \in Uploads, file[u] \in Files, at[u] = 1, pc[u] # "taken"
  PROVE  new[u] = {} /\ \A m \in DOMAIN file[u].items : ~(m < at[u])
<1>1. \A m \in DOMAIN file[u].items : ~(m < at[u])
  BY FileFacts
<1>. QED BY <1>1 DEF Inv, Listed

\* The DELETEs take all rows of the term that were there when they began.
LEMMA DeletesAnswers ==
  ASSUME Inv, Answers, NEW u \in Uploads, NEW from, NEW old, NEW during, NEW after,
         Deletes(u, from, old, during, after),
         BeginDelete(u, from, old, during, after) \/ DeleteRow(u, during, after)
  PROVE  Answers'
<1>1. /\ pc[u] \in {from, during} /\ pc'[u] \in {during, after}
      /\ UNCHANGED <<rows, course, file, at, new, base, failed, found>>
      /\ \A v \in Uploads \ {u} : scan'[v] = scan[v] /\ gone'[v] = gone[v] /\ pc'[v] = pc[v]
      /\ pc' = [pc EXCEPT ![u] = pc'[u]]
  BY DEF BeginDelete, DeleteRow, Go, Inv, Typed, looked
<1>2. /\ at[u] = 1 /\ file[u] \in Files /\ Running(u) /\ pc'[u] \in Steps \ {"idle"} /\ pc'[u] # "taken"
      /\ pc[u] # "taken"
  <2>1. /\ at[u] = 1 /\ file[u] \in Files /\ Running(u)
        /\ {during, after} \subseteq Steps \ {"idle", "program", "done", "refused", "conflict", "failed"}
        /\ after \in {"course", "section", "commit", "delete_schedule"}
        /\ pc[u] \in {"delete_taken", "scan_taken", "delete_schedule", "scan_schedule"}
    BY <1>1, DeleteFacts
  <2>2. during # "taken"
    BY DEF Deletes
  <2>. QED BY <1>1, <2>1, <2>2
<1>3. Moves(u)
  BY <1>1, <1>2 DEF Moves
<1>4. \A v \in Uploads \ {u} : Answer(v)'
  BY <1>1, <1>3, OthersKept
<1>5. new[u] = {} /\ \A m \in DOMAIN file[u].items : ~(m < at[u])
  BY <1>2, NothingWritten
<1>6. ASSUME NEW r \in rows \ (gone'[u] \cup scan'[u]), ClearedTaken(u, r)'
      PROVE  Later(u, r.by)'
  <2>1. \A w : Later(u, w) => Later(u, w)'
    BY <1>1, <1>3, MoveFacts DEF Later
  <2>2. r.table = "taken" /\ r.term = file[u].term /\ file[u].kind = "schedule"
    BY <1>1, <1>6 DEF ClearedTaken
  <2>3. r \in rows \ (gone[u] \cup scan[u]) /\ ~(from = "delete_taken" /\ pc[u] = "delete_taken")
    <3>1. CASE BeginDelete(u, from, old, during, after)
      <4>1. gone' = gone /\ scan'[u] = old /\ pc[u] = from /\ scan[u] = {}
        <5>1. gone' = gone /\ scan'[u] = old /\ pc[u] = from
          BY <3>1 DEF BeginDelete, Inv, Typed
        <5>. QED BY <5>1 DEF Inv, Quiet, Deletes
      <4>2. from # "delete_taken"
        BY <1>6, <2>2, <4>1 DEF Deletes, OldTaken
      <4>. QED BY <4>1, <4>2
    <3>2. CASE DeleteRow(u, during, after)
      <4>1. PICK q \in scan[u] : /\ gone' = [gone EXCEPT ![u] = @ \cup ({q} \cap rows)]
                                 /\ scan' = [scan EXCEPT ![u] = @ \ {q}]
        BY <3>2 DEF DeleteRow
      <4>2. gone'[u] = gone[u] \cup ({q} \cap rows) /\ scan'[u] = scan[u] \ {q}
        BY <4>1 DEF Inv, Typed
      <4>3. pc[u] # "delete_taken"
        BY <3>2 DEF DeleteRow, Deletes
      <4>. QED BY <1>6, <4>2, <4>3
    <3>. QED BY <3>1, <3>2
  <2>4. ClearedTaken(u, r)
    <3>1. pc[u] \in {"delete_taken", "scan_taken", "delete_schedule", "scan_schedule"}
      BY <1>1, DeleteFacts
    <3>2. pc[u] # "delete_taken"
      BY <1>1, <2>3 DEF Deletes
    <3>. QED BY <2>2, <3>1, <3>2 DEF ClearedTaken
  <2>. QED BY <2>1, <2>3, <2>4 DEF Answers, Answer
<1>7. ASSUME file[u].kind = "transcript", NEW r \in scan'[u] \cup gone'[u] PROVE r.table = "taken"
  <2>1. from = "delete_taken" /\ old = OldTaken(u)
    BY <1>1, <1>7 DEF Deletes, Inv, Placed
  <2>2. r \in scan[u] \cup gone[u] \cup OldTaken(u)
    BY <2>1 DEF BeginDelete, DeleteRow, Inv, Typed
  <2>. QED BY <1>7, <2>2 DEF OldTaken, Answers, Answer
<1>8. Answer(u)'
  BY <1>1, <1>2, <1>5, <1>6, <1>7 DEF Answer, LookedUp
<1>. QED BY <1>1, <1>4, <1>8 DEF Answers, Heard

\* What an INSERT reports and finds.
LEMMA InsertLooks ==
  ASSUME Inv, Answers, NEW u \in Uploads, Insert(u) \/ InsertTaken(u)
  PROVE  /\ failed[u] \subseteq failed'[u] /\ found[u] \subseteq found'[u] /\ new[u] \subseteq new'[u]
         /\ \A v \in Uploads \ {u} : UNCHANGED <<at[v], new[v], gone[v], scan[v], failed[v], found[v]>>
         /\ \A q \in Wanted(u) : q \in new'[u] \/ Present(u, q)
         /\ \A q \in new'[u] \ new[u] : q \in Wanted(u)
         /\ pc[u] = "section" => /\ Wanted(u) = {} => file[u].items[at[u]] \in failed'[u]
                                 /\ Wanted(u) \subseteq new'[u]
         /\ pc[u] = "taken" => \A q \in Wanted(u) : <<file[u].items[at[u]], q.of>> \in found'[u]
         /\ Heard'
<1>1. /\ pc[u] \in {"course", "section", "taken"} /\ scan' = scan /\ gone' = gone
      /\ new' = [new EXCEPT ![u] = @ \cup {q \in Wanted(u) : ~Present(u, q)}]
      /\ pc[u] # "taken" => \A q \in Wanted(u) : ~Present(u, q)
  BY BothInsert DEF Inserts
<1>2. /\ \A q \in Wanted(u) : pc[u] = "taken" => q.of \in Catalogue
      /\ pc[u] \in {"section", "taken"} => file[u].items[at[u]] \in Sections
  <2>1. file[u] \in Files /\ at[u] \in 1..Len(file[u].items)
        /\ file[u].kind = (IF pc[u] = "course" THEN "transcript" ELSE "schedule")
    BY BothInsert, InsertFacts
  <2>2. pc[u] \in {"section", "taken"} => file[u].items[at[u]] \in Sections
    BY <2>1, FileFacts
  <2>3. ASSUME NEW q \in Wanted(u), pc[u] = "taken" PROVE q.of \in Catalogue
    <3>1. q = Taken(course[file[u].items[at[u]]], file[u].term, u) /\ course[file[u].items[at[u]]] # NoCourse
      BY <2>3 DEF Wanted
    <3>. QED BY <2>2, <2>3, <3>1 DEF Taken, Inv, Typed
  <2>. QED BY <2>2, <2>3
<1>3. new'[u] = new[u] \cup {q \in Wanted(u) : ~Present(u, q)} /\ \A v \in Uploads \ {u} : new'[v] = new[v]
  BY <1>1 DEF Inv, Typed
<1>4. \A v \in Uploads \ {u} : at'[v] = at[v]
  BY BothInsert, InsertFacts
<1>5. CASE Insert(u)
  <2>1. failed' = [failed EXCEPT ![u] = @ \cup Failed(u)] /\ found' = found
        /\ pc[u] \in {"course", "section"}
    BY <1>5 DEF Insert
  <2>2. Failed(u) \subseteq Sections
    BY <1>2 DEF Failed
  <2>3. /\ failed'[u] = failed[u] \cup Failed(u) /\ \A v \in Uploads \ {u} : failed'[v] = failed[v]
        /\ Heard'
    BY <2>1, <2>2 DEF Answers, Heard
  <2>4. pc[u] = "section" /\ Wanted(u) = {} => file[u].items[at[u]] \in failed'[u]
    BY <2>3 DEF Failed
  <2>. QED BY <1>1, <1>3, <1>4, <2>1, <2>3, <2>4
<1>6. CASE InsertTaken(u)
  <2> DEFINE F == {<<file[u].items[at[u]], q.of>> : q \in Wanted(u)}
  <2>1. found' = [found EXCEPT ![u] = @ \cup F] /\ failed' = failed /\ pc[u] = "taken"
    BY <1>6 DEF InsertTaken
  <2>2. F \subseteq Sections \X Catalogue
    BY <1>2, <2>1
  <2>3. \A q \in Wanted(u) : <<file[u].items[at[u]], q.of>> \in F
    OBVIOUS
  <2> HIDE DEF F
  <2>4. /\ found'[u] = found[u] \cup F /\ \A v \in Uploads \ {u} : found'[v] = found[v]
        /\ Heard'
    BY <2>1, <2>2 DEF Answers, Heard
  <2>. QED BY <1>1, <1>3, <1>4, <2>1, <2>3, <2>4
<1>. QED BY <1>5, <1>6

\* A class that the second look-up finds has its course taken, by u or by who
\* was committed since it began.
LEMMA TakenNow ==
  ASSUME Inv, Answers, NEW u \in Uploads, InsertTaken(u), NEW s, s = file[u].items[at[u]],
         course[s] # NoCourse
  PROVE  TakenFor(u, s)'
<1>1. pc[u] = "taken" /\ Inserts(u)
  BY BothInsert DEF InsertTaken
<1>2. /\ UNCHANGED <<rows, course, file, gone, base>> /\ Moves(u) /\ file[u].kind = "schedule"
      /\ at[u] \in DOMAIN file[u].items /\ file[u] \in Files
  BY <1>1, InsertFacts, FileFacts DEF Inserts
<1>3. s \in Sections /\ course[s] \in Catalogue
  BY <1>2, FileFacts DEF Inv, Typed
<1> DEFINE q == Taken(course[s], file[u].term, u)
<1>4. q \in Wanted(u) /\ q.table = "taken" /\ q.term = file[u].term /\ q.of = course[s]
  BY <1>1 DEF Wanted, Taken
<1>5. <<s, course[s]>> \in found'[u] /\ (q \in new'[u] \/ Present(u, q)) /\ new[u] \subseteq new'[u]
  BY <1>1, <1>4, InsertLooks
<1>6. ASSUME Present(u, q), q \notin new'[u] PROVE \E v \in Uploads : Later(u, v)'
  <2>1. PICK p \in (rows \ gone[u]) \cup new[u] : SameKey(p, q)
    BY <1>6 DEF Present
  <2>2. p.table = "taken" /\ p.of = course[s] /\ p.term = file[u].term
    BY <1>4, <2>1 DEF SameKey
  <2>3. p \notin new[u]
    <3>1. ASSUME p \in new[u] PROVE p = q
      <4>1. p \in Row /\ p.by = u
        BY <3>1 DEF Inv, Typed, Origins
      <4>2. p = Taken(p.of, p.term, p.by)
        BY <2>2, <4>1 DEF Row, Taken, Scheduled
      <4>. QED BY <2>2, <4>1, <4>2
    <3>. QED BY <1>5, <1>6, <3>1
  <2>4. scan[u] = {}
    BY <1>1 DEF Inv, Quiet
  <2>5. ClearedTaken(u, p)
    BY <1>1, <1>2, <2>2 DEF ClearedTaken
  <2>6. Later(u, p.by)
    BY <2>1, <2>3, <2>4, <2>5 DEF Answers, Answer
  <2>7. Later(u, p.by)'
    BY <1>2, <2>6, MoveFacts DEF Later
  <2>. QED BY <2>7 DEF Later
<1>7. (TakenFor(u, s))' <=>
        \E c \in Catalogue : /\ <<s, c>> \in found'[u]
                             /\ Taken(c, file[u].term, u) \in new'[u] \/ \E v \in Uploads : Later(u, v)'
  BY <1>2 DEF TakenFor
<1>. QED BY <1>3, <1>5, <1>6, <1>7

\* Each class is scheduled or reported, and then taken.
LEMMA InsertAnswers == ASSUME Inv, Answers, NEW u \in Uploads, Insert(u) \/ InsertTaken(u) PROVE Answers'
<1>1. /\ Inserts(u) /\ Moves(u) /\ UNCHANGED <<rows, course, file, scan, gone, base>>
      /\ pc[u] \in {"course", "section", "taken"}
  BY BothInsert, InsertFacts DEF Inserts
<1>2. \A v \in Uploads \ {u} : Answer(v)'
  BY <1>1, InsertLooks, OthersKept
<1>3. CASE file[u].kind # "schedule"
  <2>1. Answer(u)'
    BY <1>1, <1>3 DEF Answers, Answer, ClearedTaken
  <2>. QED BY <1>2, <2>1, InsertLooks DEF Answers
<1>4. CASE file[u].kind = "schedule"
  <2>1. /\ pc[u] \in {"section", "taken"} /\ at[u] \in DOMAIN file[u].items /\ at[u] \in Nat
        /\ DOMAIN file[u].items = 1..Len(file[u].items) /\ Len(file[u].items) \in Nat
    BY <1>1, <1>4, InsertFacts, FileFacts
  <2>2. \A w : Later(u, w) => Later(u, w)'
    BY <1>1, MoveFacts DEF Later
  <2>3. \A r \in rows' \ (gone'[u] \cup scan'[u]) : ClearedTaken(u, r)' => Later(u, r.by)'
    <3>1. \A r : ClearedTaken(u, r)' => ClearedTaken(u, r)
      BY <1>1, <1>4, <2>1 DEF ClearedTaken
    <3>. QED BY <1>1, <2>2, <3>1 DEF Answers, Answer
  <2>4. \A t : /\ InSchedule(u, t) => InSchedule(u, t)'
               /\ TakenFor(u, t) => TakenFor(u, t)'
    <3>1. found[u] \subseteq found'[u] /\ new[u] \subseteq new'[u]
      BY InsertLooks
    <3>2. file'[u] = file[u]
      BY <1>1
    <3>. QED BY <2>2, <3>1, <3>2 DEF InSchedule, TakenFor
  <2>5. ASSUME NEW m \in DOMAIN file[u].items, NEW s, s = file[u].items[m] PROVE LookedUp(u, m)'
    <3>0. file'[u].items[m] = s
      BY <1>1, <2>5
    <3>1. LookedUp(u, m) /\ m \in Nat
      <4>1. Running(u)
        BY <1>1 DEF Moves
      <4>. QED BY <1>4, <2>1, <4>1 DEF Answers, Answer
    <3>2. failed[u] \subseteq failed'[u]
      BY InsertLooks
    <3>3. CASE pc[u] = "section"
      <4>1. pc'[u] = "taken" /\ at'[u] = at[u]
        BY <3>3, InsertFacts, <1>1
      <4>2. ASSUME m = at[u] PROVE s \in failed'[u] \/ (InSchedule(u, s)' /\ course'[s] # NoCourse)
        <5>1. CASE course[s] = NoCourse
          <6>1. Wanted(u) = {}
            BY <2>5, <3>3, <4>2, <5>1 DEF Wanted
          <6>. QED BY <2>5, <3>3, <4>2, <6>1, InsertLooks
        <5>2. CASE course[s] # NoCourse
          <6>1. Scheduled(s, file[u].term, u) \in Wanted(u)
            BY <2>5, <3>3, <4>2, <5>2 DEF Wanted
          <6>2. Scheduled(s, file[u].term, u) \in new'[u]
            BY <3>3, <6>1, InsertLooks
          <6>. QED BY <1>1, <5>2, <6>2 DEF InSchedule
        <5>. QED BY <5>1, <5>2
      <4>. QED BY <1>1, <2>4, <2>5, <3>0, <3>1, <3>2, <4>1, <4>2 DEF LookedUp
    <3>4. CASE pc[u] = "taken"
      <4>1. pc'[u] # "taken" /\ at'[u] = at[u] + 1
        BY <3>4, InsertFacts, <1>1, <2>1
      <4>2. ASSUME m = at[u] PROVE s \in failed'[u] \/ (InSchedule(u, s)' /\ TakenFor(u, s)')
        <5>1. s \in failed[u] \/ (InSchedule(u, s) /\ course[s] # NoCourse)
          BY <2>5, <3>1, <3>4, <4>2 DEF LookedUp
        <5>2. InsertTaken(u)
          BY <3>4 DEF Insert
        <5>. QED BY <2>4, <2>5, <3>2, <4>2, <5>1, <5>2, TakenNow
      <4>3. m < at'[u] => m < at[u] \/ m = at[u]
        BY <2>1, <3>1, <4>1
      <4>. QED BY <1>1, <2>4, <2>5, <3>0, <3>1, <3>2, <4>1, <4>2, <4>3 DEF LookedUp
    <3>. QED BY <2>1, <3>3, <3>4
  <2>6. ASSUME NEW r \in new'[u], r.table = "taken"
        PROVE  \E m \in DOMAIN file[u].items : <<file[u].items[m], r.of>> \in found'[u]
    <3>1. CASE r \in new[u]
      <4>1. found[u] \subseteq found'[u]
        BY InsertLooks
      <4>. QED BY <1>4, <2>6, <3>1, <4>1 DEF Answers, Answer
    <3>2. CASE r \notin new[u]
      <4>1. r \in Wanted(u)
        BY <2>6, <3>2, InsertLooks
      <4>2. pc[u] = "taken"
        BY <2>1, <2>6, <4>1, WantedFacts
      <4>3. <<file[u].items[at[u]], r.of>> \in found'[u]
        BY <4>1, <4>2, InsertLooks
      <4>. QED BY <2>1, <4>3
    <3>. QED BY <3>1, <3>2
  <2>7. Answer(u)'
    BY <1>1, <1>4, <2>3, <2>5, <2>6 DEF Answer
  <2>. QED BY <1>2, <2>7, InsertLooks DEF Answers
<1>. QED BY <1>3, <1>4

\* What a commit adds comes later than any upload still running began.
LEMMA CommitAnswers == ASSUME Inv, Answers, NEW u \in Uploads, Commit(u) PROVE Answers'
<1>1. /\ pc[u] = "commit" /\ rows' = (rows \ gone[u]) \cup new[u] /\ pc' = [pc EXCEPT ![u] = "done"]
      /\ scan' = [scan EXCEPT ![u] = {}] /\ gone' = [gone EXCEPT ![u] = {}] /\ new' = [new EXCEPT ![u] = {}]
      /\ UNCHANGED <<course, file, at, base, failed, found>>
  BY DEF Commit, Forget, Written, Go, looked
<1>2. /\ pc'[u] = "done" /\ new'[u] = {} /\ scan'[u] = {} /\ gone'[u] = {}
      /\ \A v \in Uploads \ {u} : pc'[v] = pc[v] /\ scan'[v] = scan[v] /\ gone'[v] = gone[v] /\ new'[v] = new[v]
  BY <1>1 DEF Inv, Typed
<1>3. ASSUME NEW v \in Uploads \ {u} PROVE Answer(v)'
  <2>1. \A b \in base[v] : b.by # u
    BY <1>1, EnrolmentsAssumption DEF Inv, Origins
  <2>2. \A r \in rows' \ rows : r.by = u
    BY <1>1 DEF Inv, Origins
  <2>3. \A r \in rows' \ rows : Later(v, r.by)'
    BY <1>1, <1>2, <2>1, <2>2 DEF Later
  <2>4. \A w \in Uploads : pc[w] = "done" => pc'[w] = "done"
    BY <1>2
  <2>. QED BY <1>1, <1>2, <2>3, <2>4, AnswerKept DEF Answers
<1>4. Answer(u)'
  BY <1>2 DEF Answer, ClearedTaken, Running
<1>. QED BY <1>1, <1>3, <1>4 DEF Answers, Heard

\* Sections that are there do not go.
LEMMA ImporterAnswers ==
  ASSUME Inv, Answers, NEW s \in Sections, NEW c \in Catalogue, ImportSection(s, c) \/ MoveSection(s, c)
  PROVE  Answers'
<1>1. /\ course' = [course EXCEPT ![s] = c]
      /\ UNCHANGED <<rows, pc, file, at, scan, gone, new, base, failed, found>>
  BY DEF ImportSection, MoveSection, tx, looked
<1>2. \A t \in Sections : course[t] # NoCourse => course'[t] # NoCourse
  BY <1>1, EnrolmentsAssumption DEF Inv, Typed
<1>3. \A v \in Uploads : Answer(v)'
  BY <1>1, <1>2, AnswerKept DEF Answers
<1>. QED BY <1>1, <1>3 DEF Answers, Heard

\* Every step keeps what uploads are about to answer true.
LEMMA NextAnswers == Inv /\ Answers /\ [Next]_vars => Answers'
<1>. SUFFICES ASSUME Inv, Answers, [Next]_vars PROVE Answers'
  OBVIOUS
<1>1. CASE UNCHANGED vars
  <2>1. UNCHANGED <<rows, course, pc, file, at, scan, gone, new, base, failed, found>>
    BY <1>1 DEF vars
  <2>2. \A v \in Uploads : Answer(v)'
    BY <2>1, AnswerKept DEF Answers
  <2>. QED BY <2>1, <2>2 DEF Answers, Heard
<1>2. ASSUME NEW u \in Uploads, Step(u) PROVE Answers'
  <2>1. CASE UpdateProgram(u)
    BY <2>1, UpdateProgramAnswers
  <2>2. CASE DeleteTaken(u)
    <3>1. Deletes(u, "delete_taken", OldTaken(u), "scan_taken", AfterTaken(u))
      BY DEF Deletes
    <3>. QED BY <2>2, <3>1, DeletesAnswers DEF DeleteTaken
  <2>3. CASE DeleteSchedule(u)
    <3>1. Deletes(u, "delete_schedule", OldSchedule(u), "scan_schedule", "section")
      BY DEF Deletes
    <3>. QED BY <2>3, <3>1, DeletesAnswers DEF DeleteSchedule
  <2>4. CASE Conflict(u)
    <3>1. Running(u)
      BY <2>4 DEF Conflict, Running
    <3>. QED BY <2>4, <3>1, ForgetAnswers DEF Conflict, looked
  <2>5. CASE Insert(u) \/ InsertTaken(u)
    BY <2>5, InsertAnswers
  <2>6. CASE Commit(u)
    BY <2>6, CommitAnswers
  <2>7. CASE Deadlock(u)
    BY <2>7, WaitersRun, ForgetAnswers DEF Deadlock, looked
  <2>. QED BY <1>2, <2>1, <2>2, <2>3, <2>4, <2>5, <2>6, <2>7 DEF Step
<1>3. ASSUME NEW u \in Uploads, Fail(u) PROVE Answers'
  BY <1>3, ForgetAnswers DEF Fail, looked
<1>. QED BY <1>1, <1>2, <1>3, UploadAnswers, ImporterAnswers DEF Next

\* Uploads answer what is so, in every reachable state.
LEMMA AnswersSafe == Spec => []Answers
BY InitInv, InitAnswers, NextInv, NextAnswers, PTL DEF Spec

\* The stages of all uploads, as Replacement sees them.
Stages == [u \in Uploads |-> Stage(u)]

\* When one upload moves, its stage alone may change.
LEMMA StageMoves ==
  ASSUME Inv, NEW u \in Uploads, \A v \in Uploads \ {u} : pc'[v] = pc[v]
  PROVE  Stages' = [Stages EXCEPT ![u] = Stage(u)']
<1>1. \A v \in Uploads \ {u} : Stage(v)' = Stage(v)
  BY DEF Stage, Running
<1>. QED BY <1>1 DEF Stages

\* A stage says as much as Replacement asks of a place.
LEMMA StageFacts ==
  \A u \in Uploads : /\ Stage(u) = "done" <=> pc[u] = "done"
                     /\ Stage(u) = "idle" <=> pc[u] = "idle"
                     /\ Stage(u) = "open" <=> Running(u)
                     /\ Stages[u] = Stage(u)
BY DEF Stage, Running, Stages

\* An upload that goes on, or is not touched, keeps its stage.
LEMMA StageKept ==
  ASSUME Inv, NEW u \in Uploads, \A v \in Uploads \ {u} : pc'[v] = pc[v], Running(u), Running(u)'
  PROVE  Stages' = Stages
<1>1. \A v \in Uploads : Stage(v)' = Stage(v)
  BY DEF Stage, Running
<1>. QED BY <1>1 DEF Stages

\* What a commit leaves and adds.
LEMMA CommitReplaces == ASSUME Inv, Inv', Answers, NEW u \in Uploads, Commit(u) PROVE R!Replace(u)
<1>1. /\ pc[u] = "commit" /\ rows' = (rows \ gone[u]) \cup new[u] /\ pc' = [pc EXCEPT ![u] = "done"]
      /\ UNCHANGED <<course, file, at, base, failed, found>>
  BY DEF Commit, Forget, Written, Go, looked
<1>2. /\ file[u] \in Files /\ file[u].term \in Nat /\ Running(u) /\ scan[u] = {}
      /\ file[u].kind \in {"transcript", "schedule"}
      /\ \A m \in DOMAIN file[u].items : m < at[u]
  <2>1. file[u] \in Files /\ at[u] = Len(file[u].items) + 1 /\ Running(u) /\ scan[u] = {}
    BY <1>1 DEF Inv, Placed, Quiet, Running
  <2>. QED BY <2>1, FileFacts
<1>3. Stages[u] = "open" /\ Stages' = [Stages EXCEPT ![u] = "done"]
  <2>1. Stage(u)' = "done" /\ \A v \in Uploads \ {u} : pc'[v] = pc[v]
    BY <1>1 DEF Stage, Running, Inv, Typed
  <2>. QED BY <1>2, <2>1, StageMoves, StageFacts
<1>4. \A v : v \in R!Since(u) <=> Later(u, v)
  BY StageFacts DEF R!Since, Later, Stages
<1>5. ASSUME NEW r \in rows \ rows' PROVE R!Speaks(file[u], r)
  <2>1. r \in gone[u] /\ r \in rows
    BY <1>1
  <2>2. Spoken(u, r.term) /\ r \in Row /\ r.term \in Nat
    BY <2>1, RowFacts DEF Inv, InTerms, Typed
  <2>3. file[u].kind = "transcript" => r.table = "taken"
    BY <2>1 DEF Answers, Answer
  <2>. QED BY <1>2, <2>2, <2>3 DEF R!Speaks, Spoken
<1>6. \A r \in rows' \ rows : r.by = u
  BY <1>1 DEF Inv, Origins
<1>7. \A r \in rows' : r.by = u => r \in new[u]
  BY <1>1, EnrolmentsAssumption DEF Inv, Origins
<1>8. ASSUME file[u].kind = "transcript"
      PROVE  /\ IF file[u].kind = "transcript" THEN R!TranscriptWritten(u) ELSE R!ScheduleWritten(u)
             /\ \A r \in rows' : R!Speaks(file[u], r) /\ r.by # u =>
                  r.by \in R!Since(u) /\ (file[u].kind = "transcript" \/ r.table = "schedule" => file[r.by].kind = "schedule")
  <2>1. R!TranscriptWritten(u)
    <3>1. ASSUME NEW m \in DOMAIN file[u].items, file[u].items[m].course \in Catalogue
          PROVE  R!Writes(u, "taken", file[u].items[m].course, file[u].items[m].term)
      <4>1. Taken(file[u].items[m].course, file[u].items[m].term, u) \in new[u]
        BY <1>2, <1>8, <3>1 DEF Inv, Listed
      <4>. QED BY <1>1, <4>1 DEF R!Writes, Taken
    <3>2. ASSUME NEW r \in rows', r.by = u
          PROVE  \E m \in DOMAIN file[u].items :
                   r.table = "taken" /\ r.of = file[u].items[m].course /\ r.term = file[u].items[m].term
      <4>1. PICK m \in DOMAIN file[u].items : Source(u, m, r)
        BY <1>7, <3>2 DEF Inv, Listed
      <4>. QED BY <1>8, <4>1 DEF Source, Taken
    <3>. QED BY <3>1, <3>2 DEF R!TranscriptWritten
  <2>2. ASSUME NEW r \in rows', R!Speaks(file[u], r), r.by # u
        PROVE  r.by \in R!Since(u) /\ file[r.by].kind = "schedule"
    <3>1. r \in rows \ (gone[u] \cup scan[u])
      BY <1>1, <1>2, <2>2 DEF Inv, Origins
    <3>2. Cleared(u, r)
      BY <1>1, <1>8, <2>2 DEF Cleared, R!Speaks
    <3>3. Meanwhile(u, r.by)
      BY <3>1, <3>2 DEF Inv, Leftovers
    <3>. QED BY <1>4, <2>2, <3>3 DEF Meanwhile, Later
  <2>. QED BY <1>8, <2>1, <2>2
<1>9. ASSUME file[u].kind = "schedule"
      PROVE  /\ IF file[u].kind = "transcript" THEN R!TranscriptWritten(u) ELSE R!ScheduleWritten(u)
             /\ \A r \in rows' : R!Speaks(file[u], r) /\ r.by # u =>
                  r.by \in R!Since(u) /\ (file[u].kind = "transcript" \/ r.table = "schedule" => file[r.by].kind = "schedule")
  <2>1. R!ScheduleWritten(u)
    <3>1. ASSUME NEW m \in DOMAIN file[u].items, NEW s, s = file[u].items[m], s \notin failed[u]
          PROVE  /\ R!Writes(u, "schedule", s, file[u].term)
                 /\ \E c \in Catalogue : /\ <<s, c>> \in found[u]
                                         /\ R!Writes(u, "taken", c, file[u].term) \/ R!Since(u) # {}
      <4>1. InSchedule(u, s) /\ TakenFor(u, s)
        BY <1>2, <1>9, <3>1 DEF Answers, Answer, LookedUp
      <4>2. PICK c \in Catalogue : /\ <<s, c>> \in found[u]
                                   /\ Taken(c, file[u].term, u) \in new[u] \/ \E v \in Uploads : Later(u, v)
        BY <4>1 DEF TakenFor
      <4>3. R!Writes(u, "schedule", s, file[u].term)
        BY <1>1, <4>1 DEF InSchedule, Scheduled, R!Writes
      <4>4. R!Writes(u, "taken", c, file[u].term) \/ R!Since(u) # {}
        BY <1>1, <1>4, <4>2 DEF Taken, R!Writes
      <4>. QED BY <4>2, <4>3, <4>4
    <3>2. ASSUME NEW r \in rows', r.by = u
          PROVE  \E m \in DOMAIN file[u].items :
                   /\ r.term = file[u].term
                   /\ IF r.table = "schedule" THEN r.of = file[u].items[m] ELSE <<file[u].items[m], r.of>> \in found[u]
      <4>1. r \in new[u] /\ r \in Row
        BY <1>7, <3>2 DEF Inv, Typed
      <4>2. r.term = file[u].term
        BY <1>9, <4>1 DEF Inv, InTerms, Spoken
      <4>3. CASE r.table = "schedule"
        <5>1. PICK m \in DOMAIN file[u].items : Source(u, m, r)
          BY <4>1 DEF Inv, Listed
        <5>. QED BY <1>9, <4>2, <4>3, <5>1 DEF Source, Scheduled
      <4>4. CASE r.table # "schedule"
        <5>1. r.table = "taken"
          BY <4>1, <4>4, RowFacts
        <5>. QED BY <1>9, <4>1, <4>2, <4>4, <5>1 DEF Answers, Answer
      <4>. QED BY <4>3, <4>4
    <3>. QED BY <3>1, <3>2 DEF R!ScheduleWritten
  <2>2. ASSUME NEW r \in rows', R!Speaks(file[u], r), r.by # u
        PROVE  r.by \in R!Since(u) /\ (r.table = "schedule" => file[r.by].kind = "schedule")
    <3>1. r \in rows \ (gone[u] \cup scan[u]) /\ r.term = file[u].term
      BY <1>1, <1>2, <1>9, <2>2 DEF Inv, Origins, R!Speaks
    <3>2. r.table \in {"taken", "schedule"}
      BY <3>1, RowFacts DEF Inv, Typed
    <3>3. CASE r.table = "taken"
      <4>1. ClearedTaken(u, r)
        BY <1>1, <1>9, <3>1, <3>3 DEF ClearedTaken
      <4>2. Later(u, r.by)
        BY <3>1, <4>1 DEF Answers, Answer
      <4>. QED BY <1>4, <3>3, <4>2
    <3>4. CASE r.table = "schedule"
      <4>1. Cleared(u, r)
        BY <1>1, <1>9, <3>1, <3>4 DEF Cleared
      <4>2. Meanwhile(u, r.by)
        BY <3>1, <4>1 DEF Inv, Leftovers
      <4>. QED BY <1>4, <2>2, <4>2 DEF Meanwhile, Later
    <3>. QED BY <3>2, <3>3, <3>4
  <2>. QED BY <1>9, <2>1, <2>2
<1>10. \A r, q \in rows' : r.table = q.table /\ r.of = q.of /\ r.term = q.term => r = q
  BY DEF Inv, KeysApart, SameKey
<1>11. UNCHANGED <<course, file, base, failed, found>>
  BY <1>1
<1>12. /\ IF file[u].kind = "transcript" THEN R!TranscriptWritten(u) ELSE R!ScheduleWritten(u)
       /\ \A r \in rows' : R!Speaks(file[u], r) /\ r.by # u =>
            r.by \in R!Since(u) /\ (file[u].kind = "transcript" \/ r.table = "schedule" => file[r.by].kind = "schedule")
  BY <1>2, <1>8, <1>9
<1>. QED BY <1>3, <1>5, <1>6, <1>10, <1>11, <1>12 DEF R!Replace, Stages

\* A class that is not there is reported, one that is there has been found.
LEMMA InsertLooksUp ==
  ASSUME Inv, Answers, NEW u \in Uploads, Insert(u) \/ InsertTaken(u)
  PROVE  R!LookUp(u) \/ UNCHANGED R!rvars
<1>1. /\ Inserts(u) /\ UNCHANGED <<rows, course, file, base>> /\ Running(u) /\ Running(u)'
      /\ \A v \in Uploads \ {u} : pc'[v] = pc[v]
      /\ file[u].kind = (IF pc[u] = "course" THEN "transcript" ELSE "schedule")
      /\ pc[u] \in {"course", "section", "taken"}
  BY BothInsert, InsertFacts, MoveFacts DEF Inserts, Moves
<1>2. Stages' = Stages /\ Stages[u] = "open"
  BY <1>1, StageKept, StageFacts
<1>3. at[u] \in DOMAIN file[u].items
  BY <1>1, InsertFacts, FileFacts
<1> DEFINE s == file[u].items[at[u]]
<1>4. CASE Insert(u)
  <2>1. failed' = [failed EXCEPT ![u] = @ \cup Failed(u)] /\ found' = found
    BY <1>4 DEF Insert
  <2>2. CASE Failed(u) = {}
    <3>1. failed' = failed
      BY <2>1, <2>2 DEF Answers, Heard
    <3>. QED BY <1>1, <1>2, <2>1, <3>1 DEF R!rvars, Stages
  <2>3. CASE Failed(u) # {}
    <3>1. Failed(u) = {s} /\ pc[u] = "section" /\ Wanted(u) = {}
      BY <2>3 DEF Failed
    <3>2. course[s] = NoCourse
      BY <3>1 DEF Wanted
    <3>3. failed' = [failed EXCEPT ![u] = @ \cup {s}]
      BY <2>1, <3>1
    <3>. QED BY <1>1, <1>2, <1>3, <2>1, <3>1, <3>2, <3>3 DEF R!LookUp, Stages
  <2>. QED BY <2>2, <2>3
<1>5. CASE InsertTaken(u)
  <2>1. /\ failed' = failed /\ pc[u] = "taken"
        /\ found' = [found EXCEPT ![u] = @ \cup {<<s, q.of>> : q \in Wanted(u)}]
    BY <1>5 DEF InsertTaken
  <2>2. CASE course[s] = NoCourse
    <3>1. Wanted(u) = {}
      BY <2>1, <2>2 DEF Wanted
    <3>2. found' = found
      BY <2>1, <3>1 DEF Answers, Heard
    <3>. QED BY <1>1, <1>2, <2>1, <3>2 DEF R!rvars, Stages
  <2>3. CASE course[s] # NoCourse
    <3>1. Wanted(u) = {Taken(course[s], file[u].term, u)}
      BY <2>1, <2>3 DEF Wanted
    <3>2. {<<s, q.of>> : q \in Wanted(u)} = {<<s, course[s]>>}
      BY <3>1 DEF Taken
    <3>3. found' = [found EXCEPT ![u] = @ \cup {<<s, course[s]>>}]
      BY <2>1, <3>2
    <3>. QED BY <1>1, <1>2, <1>3, <2>1, <2>3, <3>3 DEF R!LookUp, Stages
  <2>. QED BY <2>2, <2>3
<1>. QED BY <1>4, <1>5

\* A step of an upload that writes nothing and ends nothing is not seen.
LEMMA OnTheWay ==
  ASSUME Inv, NEW u \in Uploads, Running(u), Running(u)', NEW s, Go(u, s),
         UNCHANGED <<rows, course, file, base, failed, found>>
  PROVE  UNCHANGED R!rvars
<1>1. \A v \in Uploads \ {u} : pc'[v] = pc[v]
  BY DEF Go, Inv, Typed
<1>2. Stages' = Stages
  BY <1>1, StageKept
<1>. QED BY <1>2 DEF R!rvars, Stages

\* An upload that fails is refused.
LEMMA RefusedThen ==
  ASSUME Inv, NEW u \in Uploads, Running(u), NEW s \in {"failed", "conflict"}, Go(u, s),
         UNCHANGED <<rows, course, file, base, failed, found>>
  PROVE  R!Refuse(u)
<1>1. pc'[u] = s /\ \A v \in Uploads \ {u} : pc'[v] = pc[v]
  BY DEF Go, Inv, Typed
<1>2. Stage(u)' = "refused"
  BY <1>1 DEF Stage, Running
<1>3. Stages[u] = "open" /\ Stages' = [Stages EXCEPT ![u] = "refused"]
  BY <1>1, <1>2, StageMoves, StageFacts
<1>. QED BY <1>3 DEF R!Refuse, Stages

\* A file is chosen, and the rows there are remembered.
LEMMA UploadOpens ==
  ASSUME Inv, NEW u \in Uploads, NEW f \in Files, Upload(u, f) PROVE R!Open(u)
<1>1. /\ pc[u] = "idle" /\ file' = [file EXCEPT ![u] = f] /\ base' = [base EXCEPT ![u] = rows]
      /\ pc' = [pc EXCEPT ![u] = IF Unwanted(f) THEN "refused"
                                 ELSE IF f.kind = "transcript" THEN "program" ELSE "delete_taken"]
      /\ UNCHANGED <<rows, course, failed, found>>
  BY DEF Upload, Go, looked
<1>2. pc'[u] \in {"refused", "program", "delete_taken"} /\ \A v \in Uploads \ {u} : pc'[v] = pc[v]
  BY <1>1 DEF Inv, Typed
<1>3. Stage(u)' \in {"open", "refused"}
  BY <1>2 DEF Stage, Running
<1>4. Stages[u] = "idle" /\ Stages' = [Stages EXCEPT ![u] = Stage(u)']
  BY <1>1, <1>2, StageMoves, StageFacts
<1>. QED BY <1>1, <1>3, <1>4 DEF R!Open, Stages

\* Every step is one of Replacement or changes nothing it sees.
LEMMA ReplacementStep == Inv /\ Inv' /\ Answers /\ [Next]_vars => [R!RNext]_(R!rvars)
<1>. SUFFICES ASSUME Inv, Inv', Answers, [Next]_vars PROVE R!RNext \/ UNCHANGED R!rvars
  OBVIOUS
<1>1. CASE UNCHANGED vars
  BY <1>1 DEF vars, R!rvars, Stage, Running
<1>2. ASSUME NEW u \in Uploads, Step(u) PROVE R!RNext \/ UNCHANGED R!rvars
  <2>1. CASE UpdateProgram(u)
    <3>1. Running(u) /\ Running(u)'
      BY <2>1 DEF UpdateProgram, Go, Running, Inv, Typed
    <3>. QED BY <2>1, <3>1, OnTheWay DEF UpdateProgram, looked
  <2>2. ASSUME NEW from, NEW old, NEW during, NEW after, Deletes(u, from, old, during, after),
               BeginDelete(u, from, old, during, after) \/ DeleteRow(u, during, after)
        PROVE  UNCHANGED R!rvars
    <3>1. pc[u] \in {from, during} /\ UNCHANGED <<rows, course, file, base, failed, found>>
      BY <2>2 DEF BeginDelete, DeleteRow, looked
    <3>2. PICK s \in {during, after} : Go(u, s)
      BY <2>2 DEF BeginDelete, DeleteRow
    <3>3. Running(u) /\ {during, after} \subseteq Steps \ {"idle", "program", "done", "refused", "conflict", "failed"}
      BY <2>2, <3>1, DeleteFacts
    <3>4. Running(u)'
      BY <3>2, <3>3 DEF Go, Running, Inv, Typed
    <3>. QED BY <3>1, <3>2, <3>3, <3>4, OnTheWay
  <2>3. CASE DeleteTaken(u)
    <3>1. Deletes(u, "delete_taken", OldTaken(u), "scan_taken", AfterTaken(u))
      BY DEF Deletes
    <3>. QED BY <2>2, <2>3, <3>1 DEF DeleteTaken
  <2>4. CASE DeleteSchedule(u)
    <3>1. Deletes(u, "delete_schedule", OldSchedule(u), "scan_schedule", "section")
      BY DEF Deletes
    <3>. QED BY <2>2, <2>4, <3>1 DEF DeleteSchedule
  <2>5. CASE Conflict(u)
    <3>1. Running(u)
      BY <2>5 DEF Conflict, Running
    <3>2. R!Refuse(u)
      BY <2>5, <3>1, RefusedThen DEF Conflict, looked
    <3>. QED BY <3>2 DEF R!RNext
  <2>6. CASE Insert(u) \/ InsertTaken(u)
    BY <2>6, InsertLooksUp DEF R!RNext
  <2>7. CASE Commit(u)
    BY <2>7, CommitReplaces DEF R!RNext
  <2>8. CASE Deadlock(u)
    <3>1. R!Refuse(u)
      BY <2>8, WaitersRun, RefusedThen DEF Deadlock, looked
    <3>. QED BY <3>1 DEF R!RNext
  <2>. QED BY <1>2, <2>1, <2>3, <2>4, <2>5, <2>6, <2>7, <2>8 DEF Step
<1>3. ASSUME NEW u \in Uploads, Fail(u) PROVE R!RNext
  <2>1. R!Refuse(u)
    BY <1>3, RefusedThen DEF Fail, looked
  <2>. QED BY <2>1 DEF R!RNext
<1>4. ASSUME NEW u \in Uploads, NEW f \in Files, Upload(u, f) PROVE R!RNext
  BY <1>4, UploadOpens DEF R!RNext
<1>5. ASSUME NEW s \in Sections, NEW c \in Catalogue, ImportSection(s, c) \/ MoveSection(s, c)
      PROVE  R!RNext
  <2>1. /\ course' = [course EXCEPT ![s] = c]
        /\ UNCHANGED <<rows, pc, file, base, failed, found>>
    BY <1>5 DEF ImportSection, MoveSection, looked
  <2>2. Stages' = Stages
    BY <2>1 DEF Stages, Stage, Running
  <2>3. DOMAIN course' = DOMAIN course /\ \A t \in DOMAIN course : course'[t] = course[t] \/ course'[t] \in Catalogue
    BY <2>1 DEF Inv, Typed
  <2>. QED BY <2>1, <2>2, <2>3 DEF R!RNext, R!ChangeSections, Stages
<1>. QED BY <1>1, <1>2, <1>3, <1>4, <1>5 DEF Next

\* Every behaviour of the uploads is one of Replacement: whatever the order of
\* the statements, an upload that is answered has replaced its terms in one
\* step, with every class scheduled and taken, or reported (saveTranscript,
\* saveSchedule).
THEOREM UploadsReplace == Spec => ImplementsReplacement
<1>1. Init => R!RInit
  <2>. SUFFICES ASSUME Init PROVE R!RInit
    OBVIOUS
  <2>1. \A u \in Uploads : Stage(u) = "idle"
    BY DEF Init, Stage, Running
  <2>. QED BY <2>1 DEF Init, R!RInit
<1>. QED BY <1>1, Safe, AnswersSafe, ReplacementStep, PTL DEF Spec, ImplementsReplacement, R!RSpec

\* The tables and uploads keep their types, and nothing is pending for an
\* upload that has ended (parse.go).
THEOREM TypeCorrect == Spec => []TypeOK
<1>1. Inv /\ Answers => TypeOK
  <2>. SUFFICES ASSUME Inv, Answers PROVE TypeOK
    OBVIOUS
  <2>1. \A u \in Uploads : at[u] \in 1..(Len(file[u].items) + 1)
    <3>. SUFFICES ASSUME NEW u \in Uploads PROVE at[u] \in 1..(Len(file[u].items) + 1)
      OBVIOUS
    <3>1. at[u] \in Nat \ {0} /\ at[u] <= Len(file[u].items) + 1
      BY DEF Inv, Typed, Placed
    <3>2. Len(file[u].items) \in Nat
      <4>1. CASE file[u] = NoFile
        BY <4>1 DEF NoFile
      <4>2. CASE file[u] \in Files
        BY <4>2, FileFacts
      <4>. QED BY <4>1, <4>2 DEF Inv, Typed
    <3>. QED BY <3>1, <3>2
  <2>2. \A u \in Uploads : ~Running(u) => scan[u] = {} /\ gone[u] = {} /\ new[u] = {}
    BY DEF Inv, Quiet, Running
  <2>. QED BY <2>1, <2>2 DEF Inv, Typed, Row, KeysApart, Origins, Answers, Heard, TypeOK
<1>. QED BY <1>1, Safe, AnswersSafe, PTL
=============================================================================
