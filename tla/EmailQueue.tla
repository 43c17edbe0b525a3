----------------------------- MODULE EmailQueue -----------------------------
(***************************************************************************)
(* The mail pipeline of the backend: the three tables of schema "queue",   *)
(* the Postgres channel 'queue' on which every INSERT statement into one   *)
(* of them notifies, the writers of those tables (the API, Hasura, and the *)
(* trigger that the importer's UPDATE of course_section fires), and the    *)
(* email service, a single process that serves one notification at a time  *)
(* inside one READ COMMITTED transaction.                                  *)
(*                                                                         *)
(* A row of a queue table is an item; "unseen" and "seen" are the          *)
(* committed rows whose seen_at is NULL and is not NULL.  The marks that   *)
(* the open transaction of the service has written are kept apart in       *)
(* "marked": nobody else sees them, and a row in "marked" is locked, so    *)
(* that a statement which would write it waits until the transaction ends. *)
(***************************************************************************)
EXTENDS Naturals, Sequences, FiniteSets

CONSTANTS
  Users,           \* the accounts
  Sections,        \* the course sections
  Courses,         \* the courses
  Reports,         \* what the university may report of the sections
  NullEmailUsers,  \* the accounts whose "user".email may be set to NULL
  MaxSerial,       \* bound: rows inserted into the queue tables
  MaxChannel,      \* bound: notifications waiting in the channel
  MaxFaults        \* bound: crashes, kills and failed calls

ASSUME EmailQueueAssumption ==
  /\ Reports \subseteq [Sections -> [total : Nat, capacity : Nat, course : Courses]]
  /\ NullEmailUsers \subseteq Users
  /\ MaxSerial \in Nat
  /\ MaxChannel \in Nat
  /\ MaxFaults \in Nat

Reset      == "password_reset"
Subscribed == "section_subscribed"
Vacated    == "section_vacated"
Tables     == {Reset, Subscribed, Vacated}

\* A row of a queue table.  "id" stands for the SERIAL of a subscription, the
\* UPDATE statement that inserted a vacancy, and the random secret_key of a
\* reset; "on" for the sections that a subscription or a vacancy names.
Item == [table : Tables, user : Users, id : Nat, on : SUBSET Sections]

Enrolment == [total : Nat, capacity : Nat]

\* The columns of course_section that a report fills.
Numbers(report) ==
  [s \in Sections |-> [total |-> report[s].total, capacity |-> report[s].capacity]]
Homes(report) == [s \in Sections |-> report[s].course]

VARIABLES
  users,      \* rows of "user"
  address,    \* whether a user's email column is not NULL
  enrolment,  \* the enrolment columns of course_section
  course,     \* the course that a section belongs to (course_id)
  unseen,     \* committed queue rows with seen_at IS NULL
  seen,       \* committed queue rows with seen_at NOT NULL
  serial,     \* the last id given to a row
  channel,    \* notifications the listening connection has not read
  pc,         \* where the email service is
  source,     \* payload of the notification it serves
  items,      \* scanned items it has not tried to send
  inFlight,   \* the item it has sent and not yet marked
  marked,     \* rows its open transaction has marked
  aborted,    \* a statement of its open transaction has failed
  faults,     \* crashes and failed calls so far
  mails,      \* history: the items mailed
  mailedNow,  \* history: the items mailed in the open transaction
  lost,       \* history: the items whose mail was reported as failed, or was
              \* sent in a transaction that rolled back
  missed      \* history: the tables that lost a notification or left an item

tables  == <<users, address, enrolment, course, unseen, seen, serial>>
service == <<pc, source, items, inFlight, marked, aborted>>
history == <<mails, mailedNow, lost, missed>>
vars    == <<tables, channel, service, faults, history>>

Init ==
  /\ users = Users
  /\ address = [u \in Users |-> TRUE]
  /\ \E report \in Reports : enrolment = Numbers(report) /\ course = Homes(report)
  /\ unseen = {}
  /\ seen = {}
  /\ serial = 0
  /\ channel = <<>>
  /\ pc = "wait"
  /\ source = Reset
  /\ items = {}
  /\ inFlight = {}
  /\ marked = {}
  /\ aborted = FALSE
  /\ faults = 0
  /\ mails = {}
  /\ mailedNow = {}
  /\ lost = {}
  /\ missed = {}

-----------------------------------------------------------------------------
(* Writers of the queue tables.                                            *)

Rows == unseen \cup seen

\* The states in which no session listens: the process is gone, or it waits in
\* pool.Close() with the listening connection closed.
Deaf == {"down", "hung"}

\* pg_notify: delivered at commit to a session that listens, to nobody else.
Notify(t) ==
  IF pc \in Deaf
  THEN /\ missed' = missed \cup {t}
       /\ UNCHANGED channel
  ELSE /\ Len(channel) < MaxChannel
       /\ channel' = Append(channel, t)
       /\ UNCHANGED missed

Insert(new, gone) ==
  /\ gone \cap marked = {}
  /\ unseen' = (unseen \ gone) \cup new
  /\ seen' = seen \ gone

Delete(gone) ==
  /\ Insert({}, gone)
  /\ UNCHANGED <<serial, address, enrolment, course, channel, service, faults, history>>

\* auth.SendEmail: the upsert replaces the user's key and clears seen_at.
RequestReset(u) ==
  /\ u \in users
  /\ serial < MaxSerial
  /\ serial' = serial + 1
  /\ Insert({[table |-> Reset, user |-> u, id |-> serial + 1, on |-> {}]},
            {r \in Rows : r.table = Reset /\ r.user = u})
  /\ Notify(Reset)
  /\ UNCHANGED <<users, address, enrolment, course, service, faults, mails,
                 mailedNow, lost>>

\* auth.ResetPassword with a key the user was mailed: the row is deleted.
ResetPassword(r) ==
  /\ r \in Rows \cap mails
  /\ r.table = Reset
  /\ Delete({r})
  /\ UNCHANGED users

\* Hasura inserts the user's own subscription; (section, user) is unique.
Subscribe(u, s) ==
  /\ u \in users
  /\ \A r \in Rows : ~(r.table = Subscribed /\ r.user = u /\ r.on = {s})
  /\ serial < MaxSerial
  /\ serial' = serial + 1
  /\ Insert({[table |-> Subscribed, user |-> u, id |-> serial + 1, on |-> {s}]}, {})
  /\ Notify(Subscribed)
  /\ UNCHANGED <<users, address, enrolment, course, service, faults, mails,
                 mailedNow, lost>>

Unsubscribe(r) ==
  /\ r \in Rows
  /\ r.table = Subscribed
  /\ Delete({r})
  /\ UNCHANGED users

\* auth.DeleteAccount: the queue rows of the user go with the account.
DeleteAccount(u) ==
  /\ u \in users
  /\ users' = users \ {u}
  /\ Delete({r \in Rows : r.user = u})

\* Hasura lets a user overwrite the nullable column "user".email.
ChangeEmail(u) ==
  /\ u \in users \cap NullEmailUsers
  /\ address' = [address EXCEPT ![u] = ~@]
  /\ UNCHANGED <<users, enrolment, course, unseen, seen, serial, channel,
                 service, faults, history>>

\* Faulty variant: a section that was exactly full is not vacated.
VacatedOverfull(new) ==
  {s \in Sections : enrolment[s].total > new[s].capacity /\ new[s].total < new[s].capacity}

\* The sections an UPDATE of course_section vacates.  The trigger compares
\* the OLD total with the NEW capacity.
VacatedSections(new) ==
  {s \in Sections : /\ enrolment[s].total >= new[s].capacity
                    /\ new[s].total < new[s].capacity}

Subscribers(s) ==
  {u \in Users : \E r \in Rows : r.table = Subscribed /\ r.user = u /\ r.on = {s}}

\* insert_course_vacated: one row per user and course, for the users who
\* subscribe to a vacated section of the course, naming all of those sections.
\* A section counts for the course to which the same UPDATE assigns it.
VacatedRows(new, into, n) ==
  LET names(c) == {s \in VacatedSections(new) : into[s] = c}
  IN  {[table |-> Vacated, user |-> uc[1], id |-> n, on |-> names(uc[2])] :
         uc \in {uc \in Users \X Courses : \E s \in names(uc[2]) : uc[1] \in Subscribers(s)}}

\* Faulty variant: a row trigger, which an INSERT of no row does not fire.
NotifyPerRow(rows) == IF rows = {} THEN UNCHANGED <<channel, missed>> ELSE Notify(Vacated)

\* The notify triggers are statement triggers: they fire for an INSERT of no row.
NotifyVacated(rows) == Notify(Vacated)

\* The importer's UPDATE of course_section: new enrolment numbers, and the
\* course whose code the section is now listed under.
ImportSections(new, into) ==
  LET rows == VacatedRows(new, into, serial + 1)
  IN  /\ rows # {} => serial < MaxSerial
      /\ serial' = IF rows = {} THEN serial ELSE serial + 1
      /\ enrolment' = new
      /\ course' = into
      /\ Insert(rows, {})
      /\ NotifyVacated(rows)
      /\ UNCHANGED <<users, address, service, faults, mails, mailedNow, lost>>

Write ==
  \/ \E u \in Users : RequestReset(u)
  \/ \E r \in Rows : ResetPassword(r)
  \/ \E u \in Users, s \in Sections : Subscribe(u, s)
  \/ \E r \in Rows : Unsubscribe(r)
  \/ \E u \in Users : DeleteAccount(u)
  \/ \E u \in Users : ChangeEmail(u)

Import == \E report \in Reports : ImportSections(Numbers(report), Homes(report))

-----------------------------------------------------------------------------
(* The email service.                                                      *)

\* Faulty variant: everything that waits is taken for one notification.
UnreadCoalesced == <<>>

\* WaitForNotification takes one notification off the connection.
Unread == Tail(channel)

\* WaitForNotification returns, a transaction begins, dispatch picks the table.
Receive ==
  /\ pc = "wait"
  /\ channel # <<>>
  /\ source' = Head(channel)
  /\ channel' = Unread
  /\ pc' = IF Head(channel) = Subscribed THEN "merge" ELSE "scan"
  /\ UNCHANGED <<tables, items, inFlight, marked, aborted, faults, history>>

\* The courses that the sections of a row belong to now.
Course(r) == {course[s] : s \in r.on}

\* Two subscriptions of a user to sections that now belong to the same course.
SameCourse(q, r) ==
  /\ q.table = Subscribed /\ r.table = Subscribed
  /\ q.user = r.user
  /\ Course(q) = Course(r)

\* Faulty variant: the UPDATE joins the seen subscriptions on the user alone.
SeenOfUser(r) ==
  r.table = Subscribed /\ \E q \in seen : q.table = Subscribed /\ q.user = r.user

\* The user has a seen subscription to a section of the same course.
SiblingSeen(r) == \E q \in seen : SameCourse(q, r)

\* markQuery of scanSubscribed: the unseen subscriptions of a user to a course
\* for which the user has a seen subscription are marked, and never mailed.
MergeSameCourse ==
  /\ pc = "merge"
  /\ marked' = {r \in unseen : SiblingSeen(r)}
  /\ pc' = "scan"
  /\ UNCHANGED <<tables, channel, source, items, inFlight, aborted, faults, history>>

\* Faulty variant: the scan does not ask for seen_at IS NULL.
EveryRow(t) == {r \in Rows : r.table = t}

\* The rows of a table whose seen_at is NULL for the open transaction.
Unmarked(t) == {r \in unseen \ marked : r.table = t}

\* The scan loads every unseen row, at a later snapshot than markQuery's.
Scan ==
  /\ pc = "scan"
  /\ \A r \in Unmarked(source) : address[r.user]
  /\ items' = Unmarked(source)
  /\ missed' = missed \ {source}
  /\ pc' = "send"
  /\ UNCHANGED <<tables, channel, source, inFlight, marked, aborted, faults,
                 mails, mailedNow, lost>>

\* The listening connection closes: what it did not read is gone, and so is the
\* batch in memory.
Disconnect ==
  /\ channel' = <<>>
  /\ items' = {}
  /\ inFlight' = {}
  /\ aborted' = FALSE
  /\ lost' = lost \cup mailedNow
  /\ mailedNow' = {}
  /\ missed' = Tables
  /\ UNCHANGED <<tables, source, mails>>

\* The process ends with its connections: the transaction rolls back.
Exit ==
  /\ Disconnect
  /\ marked' = {}
  /\ pc' = "down"

\* When dispatch returns an error, listen returns without tx.Rollback: main's
\* deferred pool.Close() waits for ever for the connection of the transaction.
\* The process does not end, so Docker does not restart it.
Hang ==
  /\ Disconnect
  /\ pc' = "hung"

\* rows.Scan cannot load a NULL email into a string.  For Postgres nothing
\* failed: the transaction stays open, and what markQuery wrote stays locked.
ScanNullEmail ==
  /\ pc = "scan"
  /\ \E r \in Unmarked(source) : ~address[r.user]
  /\ Hang
  /\ UNCHANGED <<marked, faults>>

\* markQuery or the scan fails in Postgres, which aborts the transaction.
StatementFails ==
  /\ pc \in {"merge", "scan"}
  /\ faults < MaxFaults
  /\ faults' = faults + 1
  /\ Hang
  /\ marked' = {}

Send(it) ==
  /\ pc = "send"
  /\ it \in items
  /\ items' = items \ {it}
  /\ inFlight' = {it}
  /\ mails' = mails \cup {it}
  /\ mailedNow' = mailedNow \cup {it}
  /\ pc' = "mark"
  /\ UNCHANGED <<tables, channel, source, marked, aborted, faults, lost, missed>>

\* smtp.Send returns an error, before or after the server took the message; it
\* is logged, and the loop continues with the next item.
SendFails(it) ==
  /\ pc = "send"
  /\ it \in items
  /\ faults < MaxFaults
  /\ faults' = faults + 1
  /\ items' = items \ {it}
  /\ \E taken \in {{}, {it}} : mails' = mails \cup taken /\ lost' = lost \cup taken
  /\ missed' = missed \cup {source}
  /\ UNCHANGED <<tables, channel, pc, source, inFlight, marked, aborted, mailedNow>>

\* writeQuery: a reset is marked by its user, whatever key the row now holds;
\* a subscription or a vacancy by its own id.
MarkTargets(it) ==
  {r \in unseen : /\ r.table = it.table
                  /\ r.user = it.user
                  /\ r.table # Reset => r = it}

\* writeQuery is executed; in an aborted transaction it fails and is logged.
Mark ==
  /\ pc = "mark"
  /\ marked' = IF aborted THEN marked
                          ELSE marked \cup UNION {MarkTargets(it) : it \in inFlight}
  /\ inFlight' = {}
  /\ pc' = "send"
  /\ UNCHANGED <<tables, channel, source, items, aborted, faults, history>>

\* writeQuery fails: only logged, but Postgres aborts the transaction, and with
\* it goes what the transaction has marked.
MarkFails ==
  /\ pc = "mark"
  /\ ~aborted
  /\ faults < MaxFaults
  /\ faults' = faults + 1
  /\ aborted' = TRUE
  /\ marked' = {}
  /\ inFlight' = {}
  /\ pc' = "send"
  /\ UNCHANGED <<tables, channel, source, items, history>>

Commit ==
  /\ pc = "send"
  /\ items = {}
  /\ ~aborted
  /\ unseen' = unseen \ marked
  /\ seen' = seen \cup marked
  /\ marked' = {}
  /\ mailedNow' = {}
  /\ pc' = "wait"
  /\ UNCHANGED <<users, address, enrolment, course, serial, channel, source,
                 items, inFlight, aborted, faults, mails, lost, missed>>

\* Commit of an aborted transaction rolls back, releases its connection and
\* reports an error: listen returns it, main logs it and exits.
CommitFails ==
  /\ pc = "send"
  /\ items = {}
  /\ aborted
  /\ Exit
  /\ UNCHANGED faults

\* Any other end of the process, or of its listening connection, at any point;
\* nothing else ends a process that hangs.
Crash ==
  /\ pc # "down"
  /\ faults < MaxFaults
  /\ faults' = faults + 1
  /\ Exit

\* Docker restarts the container; listen starts with LISTEN and no scan.
Restart ==
  /\ pc = "down"
  /\ pc' = "wait"
  /\ UNCHANGED <<tables, channel, source, items, inFlight, marked, aborted,
                 faults, history>>

Serve ==
  \/ Receive
  \/ MergeSameCourse
  \/ Scan
  \/ ScanNullEmail
  \/ \E it \in items : Send(it)
  \/ Mark
  \/ Commit
  \/ CommitFails
  \/ Restart

Fail ==
  \/ \E it \in items : SendFails(it)
  \/ StatementFails
  \/ MarkFails
  \/ Crash

Next == Write \/ Import \/ Serve \/ Fail

Spec == Init /\ [][Next]_vars

\* The process always takes its next step and Docker restarts it when it ends;
\* cron runs the importer again and again.
FairSpec == Spec /\ WF_vars(Serve) /\ SF_vars(Import)

-----------------------------------------------------------------------------
(* Properties.                                                             *)

\* The variables hold what their declarations say: rows are items, the channel
\* carries names of tables, the service is at a known step.
TypeOK ==
  /\ users \subseteq Users
  /\ address \in [Users -> BOOLEAN]
  /\ enrolment \in [Sections -> Enrolment]
  /\ course \in [Sections -> Courses]
  /\ unseen \subseteq Item
  /\ seen \subseteq Item
  /\ serial \in Nat
  /\ channel \in Seq(Tables)
  /\ pc \in {"down", "hung", "wait", "merge", "scan", "send", "mark"}
  /\ source \in Tables
  /\ items \subseteq Item
  /\ inFlight \subseteq Item
  /\ marked \subseteq Item
  /\ aborted \in BOOLEAN
  /\ faults \in Nat
  /\ mails \subseteq Item
  /\ mailedNow \subseteq Item
  /\ lost \subseteq Item
  /\ missed \subseteq Tables

\* A mail about j covers i: it is the same item, or another reset of the user,
\* since both say that a reset was asked for.
Covers(j, i) == i = j \/ (i.table = Reset /\ j.table = Reset /\ i.user = j.user)

\* A row is marked seen only after a mail: a vacancy after its own, a reset after
\* one about a reset of the user, a subscription after a confirmation of some
\* subscription of the user (process marks after smtp.Send, markQuery merges).
SeenWasAnnounced ==
  \A r \in seen \cup marked : \E m \in mails :
    \/ Covers(m, r)
    \/ r.table = Subscribed /\ m.table = Subscribed /\ m.user = r.user

\* The subscriptions that belong together at this moment: sections may move to
\* another course, so this changes with the importer's UPDATE.
Together == {p \in Rows \X Rows : SameCourse(p[2], p[1])}

\* The pipeline implements MailQueue: the queue is the unseen rows, the retired
\* items are the seen rows, the batch is the scanned items, and the settled
\* ones are those that the open transaction has marked.
M == INSTANCE MailQueue WITH
       Items <- Item, Covers <- Covers,
       queued <- unseen, retired <- seen, batch <- items,
       settled <- marked, told <- mails, alike <- Together

\* Refinement: whatever the interleaving, the moves of sections, crashes and
\* failures, items become seen only by a commit of the service that settled them
\* before, after their mail or beside a seen subscription to the same course.
ImplementsMailQueue == M!MSpec

\* Unless a notification of its table was lost or an item of it was left
\* behind, every unseen row will be looked at: its notification is waiting, or
\* its table is about to be scanned, or the row is in the scanned batch, or the
\* transaction that mailed it is bound to roll back.
NoLostWakeup ==
  \A r \in unseen \ marked :
    \/ r.table \in missed
    \/ \E i \in DOMAIN channel : channel[i] = r.table
    \/ source = r.table /\ pc \in {"merge", "scan"}
    \/ r \in items \cup inFlight
    \/ aborted

\* An item is about to be mailed again only if smtp.Send reported its mail as
\* failed, although the server took it, or the transaction that mailed it rolled
\* back: a commit of listen takes every other item it mailed out of the queue.
NoNeedlessResend == items \cap mails \subseteq lost

\* When seats are freed in a full section whose capacity did not grow, every
\* subscriber of the section gets a new row naming it (insert_course_vacated).
FreedSeatsAreQueued ==
  [][\A s \in Sections :
       /\ enrolment[s].total >= enrolment[s].capacity
       /\ enrolment'[s].total < enrolment'[s].capacity
       /\ enrolment'[s].capacity <= enrolment[s].capacity
       => \A u \in Subscribers(s) :
            \E r \in unseen' \ Rows : r.table = Vacated /\ r.user = u /\ s \in r.on]_vars

Pending(t, u, n) == \E r \in unseen : r.table = t /\ r.user = u /\ r.id = n

\* A row whose notification was not lost is mailed and marked seen, merged or
\* deleted, unless the service meets a fault or hangs first (listen keeps
\* receiving).
NotifiedIsServed ==
  \A t \in Tables, u \in Users, n \in 1..MaxSerial, f \in 0..MaxFaults :
    (Pending(t, u, n) /\ t \notin missed /\ ~aborted /\ faults = f)
      ~> (~Pending(t, u, n) \/ faults # f \/ pc = "hung")

\* A vacancy is served even when its notification is lost or its mail fails:
\* every later UPDATE of course_section notifies section_vacated again.  Only a
\* service that hangs leaves it.
VacancyIsServed ==
  \A u \in Users, n \in 1..MaxSerial :
    Pending(Vacated, u, n) ~> (~Pending(Vacated, u, n) \/ pc = "hung")

\* "It ... listens for Postgres notifications on 'queue', generates HTML documents
\* from unseen items from tables in the 'queue' schema, and sends them": where no
\* call ever fails, every vacancy would be served in the end.  It is not so: one
\* user without an address makes the service hang.
UnseenIsSent ==
  \A u \in Users, n \in 1..MaxSerial : Pending(Vacated, u, n) ~> ~Pending(Vacated, u, n)

\* "RowID returns an identifier unique to this item's row": a reset that is seen
\* was mailed, with the key that the row holds.
ResetSeenWasMailed == \A r \in seen : r.table = Reset => r \in mails

=============================================================================
