----------------------------- MODULE Replacement -----------------------------
(***************************************************************************)
(* What uploads promise a user, without Postgres: a transcript or schedule *)
(* that is answered replaces, in one step, what the tables said of its     *)
(* terms.  While it is open it may look classes up, one at a time, and     *)
(* what it finds then counts, whatever becomes of the class later.  Rows   *)
(* of others that stay in its terms were written since it began.           *)
(***************************************************************************)
EXTENDS Naturals

CONSTANTS
  Uploads, Files,   \* [kind, term, items]; items are [course, term], or sections
  NoFile,
  Catalogue,        \* the courses there are
  NoCourse          \* of a section that is not there yet

VARIABLES
  rows,      \* [table, of, term, by], by whom they were written
  course,    \* the course of each section
  stage,     \* per upload: "idle", "open", "done" or "refused"
  file,      \* per upload: what is uploaded
  base,      \* per upload: the rows there when it began
  failed,    \* per upload: the sections it reports as not found
  found      \* per upload: the courses it found sections to be of

rvars == <<rows, course, stage, file, base, failed, found>>

RInit ==
  /\ stage = [u \in Uploads |-> "idle"] /\ file = [u \in Uploads |-> NoFile]
  /\ base = [u \in Uploads |-> {}] /\ failed = base /\ found = base

Open(u) ==
  /\ stage[u] = "idle"
  /\ \E f \in Files, s \in {"open", "refused"} :
       file' = [file EXCEPT ![u] = f] /\ stage' = [stage EXCEPT ![u] = s]
  /\ base' = [base EXCEPT ![u] = rows]
  /\ UNCHANGED <<rows, course, failed, found>>

\* A section is reported only when it is not there.
LookUp(u) ==
  /\ stage[u] = "open" /\ file[u].kind = "schedule"
  /\ \E m \in DOMAIN file[u].items :
       LET s == file[u].items[m] IN
       IF course[s] = NoCourse
       THEN failed' = [failed EXCEPT ![u] = @ \cup {s}] /\ UNCHANGED found
       ELSE found' = [found EXCEPT ![u] = @ \cup {<<s, course[s]>>}] /\ UNCHANGED failed
  /\ UNCHANGED <<rows, course, stage, file, base>>

Refuse(u) ==
  /\ stage[u] = "open" /\ stage' = [stage EXCEPT ![u] = "refused"]
  /\ UNCHANGED <<rows, course, file, base, failed, found>>

\* What a file speaks of.
Speaks(f, r) ==
  IF f.kind = "transcript" THEN r.table = "taken" /\ r.term <= f.term ELSE r.term = f.term

\* Uploads answered since u began.
Since(u) == {v \in Uploads \ {u} : stage[v] = "done" /\ \A b \in base[u] : b.by # v}

Writes(u, table, of, term) == [table |-> table, of |-> of, term |-> term, by |-> u] \in rows'

\* All of a transcript is there, as far as the catalogue has its courses.
TranscriptWritten(u) ==
  LET f == file[u] IN
  /\ \A m \in DOMAIN f.items :
       f.items[m].course \in Catalogue => Writes(u, "taken", f.items[m].course, f.items[m].term)
  /\ \A r \in rows' : r.by = u => \E m \in DOMAIN f.items :
       r.table = "taken" /\ r.of = f.items[m].course /\ r.term = f.items[m].term

\* Every class is in the schedule or reported; a class in the schedule has the
\* course it was found with among those taken, unless somebody else's is there.
ScheduleWritten(u) ==
  LET f == file[u] IN
  /\ \A m \in DOMAIN f.items :
       \/ f.items[m] \in failed[u]
       \/ /\ Writes(u, "schedule", f.items[m], f.term)
          /\ \E c \in Catalogue : /\ <<f.items[m], c>> \in found[u]
                                  /\ Writes(u, "taken", c, f.term) \/ Since(u) # {}
  /\ \A r \in rows' : r.by = u => \E m \in DOMAIN f.items :
       /\ r.term = f.term
       /\ IF r.table = "schedule" THEN r.of = f.items[m] ELSE <<f.items[m], r.of>> \in found[u]

Replace(u) ==
  /\ stage[u] = "open" /\ stage' = [stage EXCEPT ![u] = "done"]
  /\ \A r \in rows \ rows' : Speaks(file[u], r)
  /\ \A r \in rows' \ rows : r.by = u
  /\ IF file[u].kind = "transcript" THEN TranscriptWritten(u) ELSE ScheduleWritten(u)
  /\ \A r \in rows' : Speaks(file[u], r) /\ r.by # u =>
       r.by \in Since(u) /\ (file[u].kind = "transcript" \/ r.table = "schedule" => file[r.by].kind = "schedule")
  /\ \A r, q \in rows' : r.table = q.table /\ r.of = q.of /\ r.term = q.term => r = q
  /\ UNCHANGED <<course, file, base, failed, found>>

\* A section that is there has a course, and keeps having one.
ChangeSections ==
  /\ DOMAIN course' = DOMAIN course
  /\ \A s \in DOMAIN course : course'[s] = course[s] \/ course'[s] \in Catalogue
  /\ UNCHANGED <<rows, stage, file, base, failed, found>>

RNext == (\E u \in Uploads : Open(u) \/ LookUp(u) \/ Refuse(u) \/ Replace(u)) \/ ChangeSections

RSpec == RInit /\ [][RNext]_rvars
=============================================================================
