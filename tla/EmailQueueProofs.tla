-------------------------- MODULE EmailQueueProofs --------------------------
(***************************************************************************)
(* Proofs about EmailQueue, for every set of users, sections and courses,  *)
(* every enrolment data and every bound.                                   *)
(***************************************************************************)
EXTENDS EmailQueue, TLAPS

\* What the program counter of the service says of its transaction.
ServiceInv ==
  /\ pc \notin {"send", "mark"} => items = {} /\ ~aborted /\ mailedNow = {}
  /\ pc \notin {"scan", "send", "mark", "hung"} => marked = {}
  /\ marked \subseteq unseen
  /\ pc # "mark" => inFlight = {}
  /\ \A it \in items : it.table = source
  /\ inFlight \subseteq mails
  /\ mailedNow \subseteq mails

\* No row, batch or mail carries an id that is still to be given out.
FreshInv == \A r \in unseen \cup seen \cup items \cup mails : r.id <= serial

\* An unseen row that was mailed: its mail was reported as failed, or sent by a
\* transaction that rolled back, or by the open one, which has marked it, is
\* about to, or can no longer commit.
ResendInv ==
  /\ unseen \cap mails \subseteq lost \cup mailedNow
  /\ ~aborted => unseen \cap mailedNow \subseteq marked \cup inFlight

\* The inductive invariant.
Inv ==
  /\ TypeOK
  /\ ServiceInv
  /\ FreshInv
  /\ ResendInv
  /\ NoNeedlessResend
  /\ SeenWasAnnounced
  /\ NoLostWakeup

-----------------------------------------------------------------------------
(* Type correctness.                                                       *)

\* The trigger insert_course_vacated inserts rows of queue.section_vacated
\* only, all of them with the id of its statement.
LEMMA VacatedRowsType ==
  ASSUME NEW new, NEW into, NEW n \in Nat
  PROVE  VacatedRows(new, into, n) \subseteq {r \in Item : r.table = Vacated /\ r.id = n}
BY DEF VacatedRows, VacatedSections, Item, Tables

\* A notification is appended to the channel, or noted as missed.
LEMMA NotifyType ==
  ASSUME TypeOK, NEW t \in Tables, Notify(t)
  PROVE  channel' \in Seq(Tables) /\ missed' \in SUBSET Tables
<1>1. channel \in Seq(Tables) /\ missed \subseteq Tables
  BY DEF TypeOK
<1>2. CASE pc \in Deaf
  BY <1>1, <1>2 DEF Notify
<1>3. CASE pc \notin Deaf
  BY <1>1, <1>3 DEF Notify
<1> QED
  BY <1>2, <1>3

\* A report fills the columns of course_section with what fits them.
LEMMA ReportType ==
  ASSUME NEW report \in Reports
  PROVE  Numbers(report) \in [Sections -> Enrolment] /\ Homes(report) \in [Sections -> Courses]
BY EmailQueueAssumption DEF Numbers, Homes, Enrolment

\* An import gives every section numbers and a course.
LEMMA ImportType ==
  ASSUME Import
  PROVE  \E new \in [Sections -> Enrolment], into \in [Sections -> Courses] : ImportSections(new, into)
BY ReportType DEF Import

\* Every step keeps the types.
LEMMA TypeStep == TypeOK /\ [Next]_vars => TypeOK'
<1> SUFFICES ASSUME TypeOK, [Next]_vars PROVE TypeOK'
  OBVIOUS
<1> USE DEF tables, service, history
<1>t. Reset \in Tables /\ Subscribed \in Tables /\ Vacated \in Tables
  BY DEF Tables
<1>d. ASSUME NEW gone, Delete(gone), users' \subseteq users PROVE TypeOK'
  BY <1>d DEF TypeOK, Delete, Insert
<1>1. ASSUME NEW u \in Users, RequestReset(u) PROVE TypeOK'
  <2>1. [table |-> Reset, user |-> u, id |-> serial + 1, on |-> {}] \in Item
    BY <1>t DEF TypeOK, Item
  <2>2. unseen' \in SUBSET Item /\ seen' \in SUBSET Item
    BY <1>1, <2>1 DEF TypeOK, Insert, RequestReset
  <2>3. channel' \in Seq(Tables) /\ missed' \in SUBSET Tables
    BY <1>1, <1>t, NotifyType DEF RequestReset
  <2> QED
    BY <1>1, <2>2, <2>3 DEF TypeOK, RequestReset
<1>2. ASSUME NEW r \in Rows, ResetPassword(r) PROVE TypeOK'
  BY <1>2, <1>d DEF ResetPassword
<1>3. ASSUME NEW u \in Users, NEW s \in Sections, Subscribe(u, s) PROVE TypeOK'
  <2>1. [table |-> Subscribed, user |-> u, id |-> serial + 1, on |-> {s}] \in Item
    BY <1>t DEF TypeOK, Item
  <2>2. unseen' \in SUBSET Item /\ seen' \in SUBSET Item
    BY <1>3, <2>1 DEF TypeOK, Insert, Subscribe
  <2>3. channel' \in Seq(Tables) /\ missed' \in SUBSET Tables
    BY <1>3, <1>t, NotifyType DEF Subscribe
  <2> QED
    BY <1>3, <2>2, <2>3 DEF TypeOK, Subscribe
<1>4. ASSUME NEW r \in Rows, Unsubscribe(r) PROVE TypeOK'
  BY <1>4, <1>d DEF Unsubscribe
<1>5. ASSUME NEW u \in Users, DeleteAccount(u) PROVE TypeOK'
  BY <1>5, <1>d DEF DeleteAccount
<1>6. ASSUME NEW u \in Users, ChangeEmail(u) PROVE TypeOK'
  BY <1>6 DEF TypeOK, ChangeEmail
<1>7. ASSUME NEW new \in [Sections -> Enrolment], NEW into \in [Sections -> Courses],
             ImportSections(new, into)
      PROVE  TypeOK'
  <2>1. VacatedRows(new, into, serial + 1) \in SUBSET Item
    BY VacatedRowsType DEF TypeOK
  <2>2. unseen' \in SUBSET Item /\ seen' \in SUBSET Item
    BY <1>7, <2>1 DEF TypeOK, Insert, ImportSections
  <2>3. channel' \in Seq(Tables) /\ missed' \in SUBSET Tables
    BY <1>7, <1>t, NotifyType DEF NotifyVacated, ImportSections
  <2> QED
    BY <1>7, <2>2, <2>3 DEF TypeOK, ImportSections
<1>8. CASE Receive
  BY <1>8 DEF TypeOK, Receive, Unread
<1>9. CASE MergeSameCourse
  BY <1>9 DEF TypeOK, MergeSameCourse
<1>10. CASE Scan
  BY <1>10 DEF TypeOK, Scan, Unmarked
<1>e. ASSUME Disconnect, faults' \in Nat, marked' \subseteq Item, pc' \in {"down", "hung"}
      PROVE  TypeOK'
  <2>1. channel' \in Seq(Tables) /\ missed' \subseteq Tables /\ lost' \subseteq Item
    BY <1>e DEF TypeOK, Disconnect
  <2>2. items' \subseteq Item /\ inFlight' \subseteq Item /\ mailedNow' \subseteq Item
    BY <1>e DEF Disconnect
  <2> QED
    BY <1>e, <2>1, <2>2 DEF TypeOK, Disconnect
<1>11. CASE ScanNullEmail
  BY <1>11, <1>e DEF TypeOK, ScanNullEmail, Hang
<1>s. CASE StatementFails
  BY <1>s, <1>e DEF TypeOK, StatementFails, Hang
<1>12. ASSUME NEW it \in items, Send(it) PROVE TypeOK'
  BY <1>12 DEF TypeOK, Send
<1>13. CASE Mark
  BY <1>13 DEF TypeOK, Mark, MarkTargets
<1>14. CASE Commit
  BY <1>14 DEF TypeOK, Commit
<1>15. CASE CommitFails
  BY <1>15, <1>e DEF TypeOK, CommitFails, Exit
<1>16. CASE Restart
  BY <1>16 DEF TypeOK, Restart
<1>17. ASSUME NEW it \in items, SendFails(it) PROVE TypeOK'
  BY <1>17 DEF TypeOK, SendFails
<1>18. CASE MarkFails
  BY <1>18 DEF TypeOK, MarkFails
<1>19. CASE Crash
  BY <1>19, <1>e DEF TypeOK, Crash, Exit
<1>20. CASE UNCHANGED vars
  BY <1>20 DEF TypeOK, vars
<1> QED
  BY <1>1, <1>2, <1>3, <1>4, <1>5, <1>6, <1>7, <1>8, <1>9, <1>10, <1>11, <1>12,
     <1>13, <1>14, <1>15, <1>16, <1>17, <1>18, <1>19, <1>20, <1>s, ImportType
  DEF Next, Write, Serve, Fail

\* The initial state has the types.
LEMMA InitType == Init => TypeOK
<1> SUFFICES ASSUME Init PROVE TypeOK
  OBVIOUS
<1>1. channel \in Seq(Tables) /\ source \in Tables
  BY DEF Init, Tables
<1>2. address \in [Users -> BOOLEAN]
  BY DEF Init
<1>3. pc \in {"down", "hung", "wait", "merge", "scan", "send", "mark"}
  BY DEF Init
<1>4. enrolment \in [Sections -> Enrolment] /\ course \in [Sections -> Courses]
  BY ReportType DEF Init
<1> QED
  BY <1>1, <1>2, <1>3, <1>4 DEF Init, TypeOK

\* The variables keep their types in every reachable state.
THEOREM TypeCorrect == Spec => []TypeOK
<1>1. Init => TypeOK
  BY InitType
<1>2. TypeOK /\ [Next]_vars => TypeOK'
  BY TypeStep
<1> QED
  BY <1>1, <1>2, PTL DEF Spec

-----------------------------------------------------------------------------
(* What the writers may do to the service.                                 *)

Writers == Write \/ Import

\* A writer leaves the rows that the service has marked, which are locked.  Every
\* unseen row that it leaves is an old one, or carries the next id
\* and is announced by a notification, or by "missed" when nobody listens.
WritersFrame ==
  /\ UNCHANGED <<service, mails, mailedNow, lost>>
  /\ seen' \subseteq seen
  /\ unseen \cap marked \subseteq unseen'
  /\ serial' \in {serial, serial + 1}
  /\ \A r \in unseen' \ unseen :
       /\ r.id = serial + 1
       /\ serial' = serial + 1
       /\ \/ r.table \in missed'
          \/ \E i \in DOMAIN channel' : channel'[i] = r.table
  /\ missed \subseteq missed'
  /\ \A i \in DOMAIN channel : i \in DOMAIN channel' /\ channel'[i] = channel[i]

\* A notification adds to the channel or to "missed" and removes nothing.
LEMMA NotifyFrame ==
  ASSUME TypeOK, NEW t \in Tables, Notify(t)
  PROVE  /\ t \in missed' \/ \E i \in DOMAIN channel' : channel'[i] = t
         /\ missed \subseteq missed'
         /\ \A i \in DOMAIN channel : i \in DOMAIN channel' /\ channel'[i] = channel[i]
<1>1. CASE pc \in Deaf
  BY <1>1 DEF Notify
<1>2. CASE pc \notin Deaf
  <2>1. channel' = Append(channel, t) /\ missed' = missed
    BY <1>2 DEF Notify
  <2>2. channel \in Seq(Tables)
    BY DEF TypeOK
  <2>3. /\ Len(channel) + 1 \in DOMAIN channel'
        /\ channel'[Len(channel) + 1] = t
        /\ \A i \in DOMAIN channel : i \in DOMAIN channel' /\ channel'[i] = channel[i]
    BY <2>1, <2>2
  <2> QED
    BY <2>1, <2>3
<1> QED
  BY <1>1, <1>2

\* Writers add fresh unseen rows or take rows away, and leave the service alone.
LEMMA WritersStep == TypeOK /\ Writers => WritersFrame
<1> SUFFICES ASSUME TypeOK, Writers PROVE WritersFrame
  OBVIOUS
<1> USE DEF tables, service, history
<1>t. Reset \in Tables /\ Subscribed \in Tables /\ Vacated \in Tables
  BY DEF Tables
<1>s. serial \in Nat
  BY DEF TypeOK
<1>d. ASSUME NEW gone, Delete(gone) PROVE WritersFrame
  BY <1>d DEF Delete, Insert, WritersFrame
<1>i. ASSUME NEW t \in Tables, NEW new, NEW gone, Insert(new, gone), Notify(t),
             \A r \in new : r.table = t /\ r.id = serial + 1,
             new = {} \/ serial' = serial + 1, serial' \in {serial, serial + 1},
             UNCHANGED <<service, mails, mailedNow, lost>>
      PROVE  WritersFrame
  <2>1. /\ t \in missed' \/ \E i \in DOMAIN channel' : channel'[i] = t
        /\ missed \subseteq missed'
        /\ \A i \in DOMAIN channel : i \in DOMAIN channel' /\ channel'[i] = channel[i]
    BY <1>i, NotifyFrame
  <2>2. /\ seen' \subseteq seen
        /\ unseen' \subseteq unseen \cup new
        /\ unseen \cap marked \subseteq unseen'
    BY <1>i DEF Insert
  <2>3. ASSUME NEW r \in unseen' \ unseen
        PROVE  /\ r.id = serial + 1
               /\ serial' = serial + 1
               /\ \/ r.table \in missed'
                  \/ \E i \in DOMAIN channel' : channel'[i] = r.table
    <3>1. r \in new
      BY <2>2
    <3> QED
      BY <1>i, <2>1, <3>1
  <2> QED
    BY <1>i, <2>1, <2>2, <2>3 DEF WritersFrame
<1>1. ASSUME NEW u \in Users, RequestReset(u) PROVE WritersFrame
  BY <1>1, <1>i, <1>t DEF RequestReset
<1>2. ASSUME NEW r \in Rows, ResetPassword(r) PROVE WritersFrame
  BY <1>2, <1>d DEF ResetPassword
<1>3. ASSUME NEW u \in Users, NEW s \in Sections, Subscribe(u, s) PROVE WritersFrame
  BY <1>3, <1>i, <1>t DEF Subscribe
<1>4. ASSUME NEW r \in Rows, Unsubscribe(r) PROVE WritersFrame
  BY <1>4, <1>d DEF Unsubscribe
<1>5. ASSUME NEW u \in Users, DeleteAccount(u) PROVE WritersFrame
  BY <1>5, <1>d DEF DeleteAccount
<1>6. ASSUME NEW u \in Users, ChangeEmail(u) PROVE WritersFrame
  BY <1>6 DEF ChangeEmail, WritersFrame
<1>7. ASSUME NEW new \in [Sections -> Enrolment], NEW into \in [Sections -> Courses],
             ImportSections(new, into)
      PROVE  WritersFrame
  <2> DEFINE rows == VacatedRows(new, into, serial + 1)
  <2>1. rows \subseteq {r \in Item : r.table = Vacated /\ r.id = serial + 1}
    BY <1>s, VacatedRowsType
  <2>2. /\ Insert(rows, {})
        /\ Notify(Vacated)
        /\ serial' = IF rows = {} THEN serial ELSE serial + 1
        /\ UNCHANGED <<service, mails, mailedNow, lost>>
    BY <1>7 DEF ImportSections, NotifyVacated
  <2> HIDE DEF rows
  <2> QED
    BY <1>i, <1>t, <2>1, <2>2
<1> QED
  BY <1>1, <1>2, <1>3, <1>4, <1>5, <1>6, <1>7, ImportType DEF Writers, Write

\* However listen ends, its listening connection is gone; what it has marked
\* rolls back, unless it hangs with its transaction open.
EndOfListen ==
  /\ Disconnect
  /\ \/ pc' = "down" /\ marked' = {}
     \/ pc' = "hung" /\ marked' = {}
     \/ pc = "scan" /\ pc' = "hung" /\ marked' = marked

\* The four ways in which listen ends.
LEMMA EndStep ==
  ScanNullEmail \/ StatementFails \/ CommitFails \/ Crash => EndOfListen
BY DEF ScanNullEmail, StatementFails, CommitFails, Crash, Exit, Hang, EndOfListen

-----------------------------------------------------------------------------
(* The inductive invariant.                                                *)

\* The transaction of the service holds what its program counter says.
LEMMA ServiceStep == TypeOK /\ ServiceInv /\ [Next]_vars => ServiceInv'
<1> SUFFICES ASSUME TypeOK, ServiceInv, [Next]_vars PROVE ServiceInv'
  OBVIOUS
<1> USE DEF tables, service, history
<1>1. CASE Writers
  BY <1>1, WritersStep DEF ServiceInv, WritersFrame
<1>2. CASE Receive
  BY <1>2 DEF ServiceInv, Receive
<1>3. CASE MergeSameCourse
  BY <1>3 DEF ServiceInv, MergeSameCourse
<1>4. CASE Scan
  BY <1>4 DEF ServiceInv, Scan, Unmarked
<1>5. ASSUME EndOfListen PROVE ServiceInv'
  BY <1>5 DEF ServiceInv, EndOfListen, Disconnect
<1>6. ASSUME NEW it \in items, Send(it) PROVE ServiceInv'
  BY <1>6 DEF ServiceInv, Send
<1>7. CASE Mark
  BY <1>7 DEF ServiceInv, Mark, MarkTargets
<1>8. CASE Commit
  BY <1>8 DEF ServiceInv, Commit
<1>9. CASE Restart
  BY <1>9 DEF ServiceInv, Restart
<1>10. ASSUME NEW it \in items, SendFails(it) PROVE ServiceInv'
  BY <1>10 DEF ServiceInv, SendFails
<1>11. CASE MarkFails
  BY <1>11 DEF ServiceInv, MarkFails
<1>12. CASE UNCHANGED vars
  BY <1>12 DEF ServiceInv, vars
<1> QED
  BY <1>1, <1>2, <1>3, <1>4, <1>5, <1>6, <1>7, <1>8, <1>9, <1>10, <1>11, <1>12, EndStep
  DEF Next, Writers, Serve, Fail

\* Ids are given out once: rows, batches and mails carry old ones.
LEMMA FreshStep == TypeOK /\ ServiceInv /\ FreshInv /\ [Next]_vars => FreshInv'
<1> SUFFICES ASSUME TypeOK, ServiceInv, FreshInv, [Next]_vars PROVE FreshInv'
  OBVIOUS
<1> USE DEF tables, service, history
<1>1. CASE Writers
  <2>1. WritersFrame
    BY <1>1, WritersStep
  <2>2. serial <= serial' /\ serial' \in Nat
    BY <2>1 DEF WritersFrame, TypeOK
  <2>3. ASSUME NEW r \in unseen' \cup seen' \cup items' \cup mails' PROVE r.id <= serial'
    <3>1. CASE r \in unseen' \ unseen
      BY <2>1, <2>2, <3>1 DEF WritersFrame
    <3>2. CASE r \in unseen \cup seen \cup items \cup mails
      <4>1. r.id <= serial /\ r.id \in Nat /\ serial \in Nat
        BY <3>2 DEF FreshInv, TypeOK, Item
      <4> QED
        BY <2>2, <4>1
    <3> QED
      BY <2>1, <2>3, <3>1, <3>2 DEF WritersFrame
  <2> QED
    BY <2>3 DEF FreshInv
<1>2. CASE Receive \/ MergeSameCourse \/ Mark \/ MarkFails \/ Restart \/ UNCHANGED vars
  BY <1>2 DEF FreshInv, Receive, MergeSameCourse, Mark, MarkFails, Restart, vars
<1>3. CASE Scan
  BY <1>3 DEF FreshInv, Scan, Unmarked
<1>4. ASSUME EndOfListen PROVE FreshInv'
  BY <1>4 DEF FreshInv, EndOfListen, Disconnect
<1>5. ASSUME NEW it \in items, Send(it) PROVE FreshInv'
  BY <1>5 DEF FreshInv, Send
<1>6. CASE Commit
  BY <1>6 DEF FreshInv, ServiceInv, Commit
<1>7. ASSUME NEW it \in items, SendFails(it) PROVE FreshInv'
  BY <1>7 DEF FreshInv, SendFails
<1> QED
  BY <1>1, <1>2, <1>3, <1>4, <1>5, <1>6, <1>7, EndStep
  DEF Next, Writers, Serve, Fail

\* A commit takes every item it mailed out of the queue.
LEMMA ResendStep ==
  TypeOK /\ ServiceInv /\ FreshInv /\ ResendInv /\ [Next]_vars => ResendInv'
<1> SUFFICES ASSUME TypeOK, ServiceInv, FreshInv, ResendInv, [Next]_vars PROVE ResendInv'
  OBVIOUS
<1> USE DEF tables, service, history
<1>1. CASE Writers
  <2>1. WritersFrame
    BY <1>1, WritersStep
  <2>2. ASSUME NEW r \in unseen' \ unseen PROVE r \notin mails
    <3>1. r.id = serial + 1 /\ serial \in Nat
      BY <2>1 DEF WritersFrame, TypeOK
    <3> QED
      BY <3>1 DEF FreshInv
  <2>3. mailedNow \subseteq mails
    BY DEF ServiceInv
  <2> QED
    BY <2>1, <2>2, <2>3 DEF ResendInv, WritersFrame
<1>2. CASE Receive \/ Scan \/ Restart \/ UNCHANGED vars
  BY <1>2 DEF ResendInv, Receive, Scan, Restart, vars
<1>3. CASE MergeSameCourse
  BY <1>3 DEF ResendInv, ServiceInv, MergeSameCourse
<1>4. ASSUME EndOfListen PROVE ResendInv'
  BY <1>4 DEF ResendInv, EndOfListen, Disconnect
<1>5. ASSUME NEW it \in items, Send(it) PROVE ResendInv'
  BY <1>5 DEF ResendInv, ServiceInv, Send
<1>6. CASE Mark
  <2>1. ASSUME ~aborted, NEW r \in unseen \cap inFlight PROVE r \in marked'
    BY <1>6, <2>1 DEF Mark, MarkTargets
  <2> QED
    BY <1>6, <2>1 DEF ResendInv, Mark
<1>7. CASE Commit
  BY <1>7 DEF ResendInv, ServiceInv, Commit
<1>8. ASSUME NEW it \in items, SendFails(it) PROVE ResendInv'
  BY <1>8 DEF ResendInv, SendFails
<1>9. CASE MarkFails
  BY <1>9 DEF ResendInv, MarkFails
<1> QED
  BY <1>1, <1>2, <1>3, <1>4, <1>5, <1>6, <1>7, <1>8, <1>9, EndStep
  DEF Next, Writers, Serve, Fail

\* The invariants imply that what is scanned and was mailed was lost in a rollback.
LEMMA NoNeedlessResendStep ==
  ServiceInv /\ ResendInv /\ TypeOK /\ NoNeedlessResend /\ [Next]_vars => NoNeedlessResend'
<1> SUFFICES ASSUME ServiceInv, ResendInv, TypeOK, NoNeedlessResend, [Next]_vars
             PROVE  NoNeedlessResend'
  OBVIOUS
<1> USE DEF tables, service, history
<1>1. CASE Writers
  BY <1>1, WritersStep DEF NoNeedlessResend, WritersFrame
<1>2. CASE Receive \/ MergeSameCourse \/ Mark \/ Commit \/ MarkFails \/ Restart \/ UNCHANGED vars
  BY <1>2 DEF NoNeedlessResend, Receive, MergeSameCourse, Mark, Commit, MarkFails, Restart, vars
<1>3. CASE Scan
  BY <1>3 DEF NoNeedlessResend, ResendInv, ServiceInv, Scan, Unmarked
<1>4. ASSUME EndOfListen PROVE NoNeedlessResend'
  BY <1>4 DEF NoNeedlessResend, EndOfListen, Disconnect
<1>5. ASSUME NEW it \in items, Send(it) PROVE NoNeedlessResend'
  BY <1>5 DEF NoNeedlessResend, Send
<1>6. ASSUME NEW it \in items, SendFails(it) PROVE NoNeedlessResend'
  BY <1>6 DEF NoNeedlessResend, SendFails
<1> QED
  BY <1>1, <1>2, <1>3, <1>4, <1>5, <1>6, EndStep
  DEF Next, Writers, Serve, Fail

\* A row is marked only after a mail about its topic.
LEMMA AnnouncedStep ==
  TypeOK /\ ServiceInv /\ SeenWasAnnounced /\ [Next]_vars => SeenWasAnnounced'
<1> SUFFICES ASSUME TypeOK, ServiceInv, SeenWasAnnounced, [Next]_vars
             PROVE  SeenWasAnnounced'
  OBVIOUS
<1> USE DEF tables, service, history
<1>f. ASSUME mails \subseteq mails', (seen \cup marked)' \subseteq seen \cup marked
      PROVE  SeenWasAnnounced'
  BY <1>f DEF SeenWasAnnounced
<1>1. CASE Writers
  BY <1>1, <1>f, WritersStep DEF WritersFrame
<1>2. CASE Receive \/ Scan \/ MarkFails \/ Commit \/ Restart \/ UNCHANGED vars
  BY <1>2, <1>f DEF Receive, Scan, MarkFails, Commit, Restart, vars
<1>3. CASE MergeSameCourse
  <2>1. ASSUME NEW r \in marked'
        PROVE  \E m \in mails : m.table = Subscribed /\ r.table = Subscribed /\ m.user = r.user
    <3>1. PICK q \in seen : SameCourse(q, r)
      BY <1>3 DEF MergeSameCourse, SiblingSeen
    <3>2. PICK m \in mails :
            \/ Covers(m, q)
            \/ q.table = Subscribed /\ m.table = Subscribed /\ m.user = q.user
      BY DEF SeenWasAnnounced
    <3>3. q.table = Subscribed /\ r.table = Subscribed /\ q.user = r.user
      BY <3>1 DEF SameCourse
    <3>4. m.table = Subscribed /\ m.user = q.user
      BY <3>2, <3>3 DEF Covers, Subscribed, Reset
    <3> QED
      BY <3>3, <3>4
  <2>2. mails' = mails /\ seen' = seen
    BY <1>3 DEF MergeSameCourse
  <2> QED
    BY <2>1, <2>2 DEF SeenWasAnnounced
<1>4. ASSUME EndOfListen PROVE SeenWasAnnounced'
  BY <1>4, <1>f DEF EndOfListen, Disconnect
<1>5. ASSUME NEW it \in items, Send(it) PROVE SeenWasAnnounced'
  BY <1>5, <1>f DEF Send
<1>6. CASE Mark
  <2>1. ASSUME NEW it \in inFlight, NEW r \in MarkTargets(it)
        PROVE  it \in mails /\ Covers(it, r)
    BY <2>1 DEF ServiceInv, MarkTargets, Covers, Reset
  <2>2. mails' = mails /\ seen' = seen
    BY <1>6 DEF Mark
  <2>3. \A r \in marked' : r \in marked \/ \E it \in inFlight : r \in MarkTargets(it)
    BY <1>6 DEF Mark
  <2> QED
    BY <2>1, <2>2, <2>3 DEF SeenWasAnnounced
<1>7. ASSUME NEW it \in items, SendFails(it) PROVE SeenWasAnnounced'
  BY <1>7, <1>f DEF SendFails
<1> QED
  BY <1>1, <1>2, <1>3, <1>4, <1>5, <1>6, <1>7, EndStep
  DEF Next, Writers, Serve, Fail

\* The wakeup of a row is handed from the notification to the scan, from the
\* scan to the batch, and from the batch to the mark.
LEMMA WakeupStep ==
  TypeOK /\ ServiceInv /\ NoLostWakeup /\ [Next]_vars => NoLostWakeup'
<1> SUFFICES ASSUME TypeOK, ServiceInv, NoLostWakeup, [Next]_vars PROVE NoLostWakeup'
  OBVIOUS
<1> USE DEF tables, service, history
<1>1. CASE Writers
  <2>1. WritersFrame
    BY <1>1, WritersStep
  <2>2. ASSUME NEW r \in unseen' \ marked'
        PROVE  \/ r.table \in missed'
               \/ \E i \in DOMAIN channel' : channel'[i] = r.table
               \/ source' = r.table /\ pc' \in {"merge", "scan"}
               \/ r \in items' \cup inFlight'
               \/ aborted'
    <3>1. CASE r \in unseen
      <4>1. r \in unseen \ marked
        BY <2>1, <2>2, <3>1 DEF WritersFrame
      <4> QED
        BY <2>1, <4>1 DEF WritersFrame, NoLostWakeup
    <3>2. CASE r \notin unseen
      BY <2>1, <2>2, <3>2 DEF WritersFrame
    <3> QED
      BY <3>1, <3>2
  <2> QED
    BY <2>2 DEF NoLostWakeup
<1>2. CASE Receive
  <2>1. ASSUME NEW r \in unseen \ marked
        PROVE  \/ r.table \in missed
               \/ \E i \in DOMAIN channel' : channel'[i] = r.table
               \/ source' = r.table /\ pc' \in {"merge", "scan"}
    <3>1. CASE \E i \in DOMAIN channel : channel[i] = r.table
      <4>1. PICK i \in DOMAIN channel : channel[i] = r.table
        BY <3>1
      <4>2. CASE i = 1
        <5>1. source' = r.table /\ pc' \in {"merge", "scan"}
          BY <1>2, <4>1, <4>2 DEF Receive
        <5> QED
          BY <5>1
      <4>3. CASE i # 1
        <5>1. channel \in Seq(Tables) /\ channel # <<>> /\ channel' = Tail(channel)
          BY <1>2 DEF Receive, Unread, TypeOK
        <5>2. i - 1 \in DOMAIN channel' /\ channel'[i - 1] = channel[i]
          BY <4>1, <4>3, <5>1
        <5> QED
          BY <4>1, <5>2
      <4> QED
        BY <4>2, <4>3
    <3> QED
      BY <1>2, <3>1 DEF NoLostWakeup, ServiceInv, Receive
  <2> QED
    BY <1>2, <2>1 DEF NoLostWakeup, Receive
<1>3. CASE MergeSameCourse
  BY <1>3 DEF NoLostWakeup, ServiceInv, MergeSameCourse
<1>4. CASE Scan
  BY <1>4 DEF NoLostWakeup, ServiceInv, Scan, Unmarked
<1>5. ASSUME EndOfListen PROVE NoLostWakeup'
  BY <1>5 DEF NoLostWakeup, TypeOK, EndOfListen, Disconnect, Item
<1>6. ASSUME NEW it \in items, Send(it) PROVE NoLostWakeup'
  BY <1>6 DEF NoLostWakeup, ServiceInv, Send
<1>7. CASE Mark
  <2>1. ASSUME ~aborted, NEW r \in unseen \cap inFlight PROVE r \in marked'
    BY <1>7, <2>1 DEF Mark, MarkTargets
  <2> QED
    BY <1>7, <2>1 DEF NoLostWakeup, ServiceInv, Mark
<1>8. CASE Commit
  BY <1>8 DEF NoLostWakeup, ServiceInv, Commit
<1>9. CASE Restart
  BY <1>9 DEF NoLostWakeup, ServiceInv, Restart
<1>10. ASSUME NEW it \in items, SendFails(it) PROVE NoLostWakeup'
  BY <1>10 DEF NoLostWakeup, ServiceInv, SendFails
<1>11. CASE MarkFails
  BY <1>11 DEF NoLostWakeup, ServiceInv, MarkFails
<1>12. CASE UNCHANGED vars
  BY <1>12 DEF NoLostWakeup, vars
<1> QED
  BY <1>1, <1>2, <1>3, <1>4, <1>5, <1>6, <1>7, <1>8, <1>9, <1>10, <1>11, <1>12, EndStep
  DEF Next, Writers, Serve, Fail

\* The invariant holds at first.
LEMMA InitInv == Init => Inv
<1> SUFFICES ASSUME Init PROVE Inv
  OBVIOUS
<1>1. ServiceInv /\ FreshInv /\ ResendInv /\ NoNeedlessResend
  BY DEF Init, ServiceInv, FreshInv, ResendInv, NoNeedlessResend
<1>2. SeenWasAnnounced /\ NoLostWakeup
  BY DEF Init, SeenWasAnnounced, NoLostWakeup
<1> QED
  BY <1>1, <1>2, InitType DEF Inv

\* Every step keeps the invariant.
LEMMA StepInv == Inv /\ [Next]_vars => Inv'
BY TypeStep, ServiceStep, FreshStep, ResendStep, NoNeedlessResendStep,
   AnnouncedStep, WakeupStep
DEF Inv

\* The invariant always holds.
LEMMA Invariance == Spec => []Inv
BY InitInv, StepInv, PTL DEF Spec

\* An item becomes seen only after a mail: a vacancy after its own, a reset after
\* one about a reset of its user, a subscription after a confirmation for its
\* user.  This holds whatever the order of writers, moves of sections,
\* notifications, crashes and failures; Refinement adds why it was settled.
THEOREM Announced == Spec => []SeenWasAnnounced
<1>1. Inv => SeenWasAnnounced
  BY DEF Inv
<1> QED
  BY <1>1, Invariance, PTL

\* As long as no notification of its table was lost, an unseen row has a wakeup
\* on its way to the service, or is being served.
THEOREM WakeupKept == Spec => []NoLostWakeup
<1>1. Inv => NoLostWakeup
  BY DEF Inv
<1> QED
  BY <1>1, Invariance, PTL

\* The service mails an item twice only after a failure: smtp.Send reported the
\* first mail as failed, or the transaction that sent it rolled back.
THEOREM ResentOnlyAfterFailure == Spec => []NoNeedlessResend
<1>1. Inv => NoNeedlessResend
  BY DEF Inv
<1> QED
  BY <1>1, Invariance, PTL

-----------------------------------------------------------------------------
(* Refinement: the service implements MailQueue.                           *)

\* Every step is one of MailQueue or changes nothing it sees.
LEMMA MailQueueStep == Inv /\ [Next]_vars => [M!MNext]_(M!mvars)
<1> SUFFICES ASSUME Inv, TypeOK', [Next]_vars PROVE M!MNext \/ UNCHANGED M!mvars
  BY TypeStep DEF Inv
<1> USE DEF tables, service, history, M!mvars
<1>a. ASSUME Rows' = Rows, course' = course PROVE Together' = Together
  BY <1>a DEF Together, SameCourse, Course
<1>r. ASSUME UNCHANGED <<unseen, seen, course>> PROVE Together' = Together
  BY <1>r, <1>a DEF Rows
<1>1. CASE Writers
  <2>1. WritersFrame
    BY <1>1, WritersStep DEF Inv
  <2>2. unseen' \subseteq Item /\ seen' \subseteq seen
    BY <2>1 DEF WritersFrame, TypeOK
  <2>3. marked \subseteq unseen'
    BY <2>1 DEF WritersFrame, Inv, ServiceInv
  <2>4. UNCHANGED <<items, marked, mails>>
    BY <2>1 DEF WritersFrame
  <2> QED
    BY <2>2, <2>3, <2>4 DEF M!MNext, M!Write
<1>2. CASE Receive \/ Restart \/ UNCHANGED vars
  BY <1>2, <1>r DEF Receive, Restart, vars
<1>3. CASE Scan
  BY <1>3, <1>r DEF Scan, Unmarked, M!MNext, M!Take
<1>4. ASSUME EndOfListen PROVE M!MNext
  BY <1>4, <1>r DEF EndOfListen, Disconnect, M!MNext, M!Skip
<1>5. ASSUME NEW it \in items, Send(it) PROVE M!MNext
  BY <1>5, <1>r DEF Send, M!MNext, M!Tell
<1>6. CASE MergeSameCourse
  <2>1. marked = {}
    BY <1>6 DEF MergeSameCourse, Inv, ServiceInv
  <2>2. ASSUME NEW r \in marked' PROVE r \in M!Due
    <3>1. r \in unseen /\ SiblingSeen(r)
      BY <1>6, <2>2 DEF MergeSameCourse
    <3>2. PICK q \in seen : SameCourse(q, r)
      BY <3>1 DEF SiblingSeen
    <3>3. <<r, q>> \in Together
      BY <3>1, <3>2 DEF Together, Rows
    <3> QED
      BY <3>1, <3>3 DEF M!Due
  <2>3. UNCHANGED <<unseen, seen, items, mails, course>>
    BY <1>6 DEF MergeSameCourse
  <2> QED
    BY <2>1, <2>2, <2>3, <1>r DEF M!MNext, M!Settle
<1>7. CASE Mark
  <2>1. ASSUME NEW r \in marked' PROVE r \in marked \cup M!Due
    <3>1. CASE r \in marked
      BY <3>1
    <3>2. CASE r \notin marked
      <4>1. PICK it \in inFlight : r \in MarkTargets(it)
        BY <1>7, <2>1, <3>2 DEF Mark
      <4>2. r \in unseen /\ Covers(it, r)
        BY <4>1 DEF MarkTargets, Covers
      <4>3. it \in mails
        BY DEF Inv, ServiceInv
      <4> QED
        BY <4>2, <4>3 DEF M!Due
    <3> QED
      BY <3>1, <3>2
  <2>2. UNCHANGED <<unseen, seen, items, mails, course>> /\ marked \subseteq marked'
    BY <1>7 DEF Mark
  <2> QED
    BY <2>1, <2>2, <1>r DEF M!MNext, M!Settle
<1>8. CASE Commit
  <2>1. items = {} /\ UNCHANGED <<items, mails, course>> /\ marked' = {}
    BY <1>8 DEF Commit
  <2>2. unseen' = unseen \ marked /\ seen' = seen \cup marked
    BY <1>8 DEF Commit
  <2>3. Rows' = Rows
    BY <2>2 DEF Rows, Inv, ServiceInv
  <2> QED
    BY <2>1, <2>2, <2>3, <1>a DEF M!MNext, M!Retire
<1>9. ASSUME NEW it \in items, SendFails(it) PROVE M!MNext
  <2>1. UNCHANGED <<unseen, seen, marked, course>> /\ items' = items \ {it}
    BY <1>9 DEF SendFails
  <2>2. mails' = mails \/ mails' = mails \cup {it}
    BY <1>9 DEF SendFails
  <2>3. CASE mails' = mails
    BY <2>1, <2>3, <1>r DEF M!MNext, M!Skip
  <2>4. CASE mails' = mails \cup {it}
    BY <2>1, <2>4, <1>r DEF M!MNext, M!Tell
  <2> QED
    BY <2>2, <2>3, <2>4
<1>10. CASE MarkFails
  BY <1>10, <1>r DEF MarkFails, M!MNext, M!Skip
<1> QED
  BY <1>1, <1>2, <1>3, <1>4, <1>5, <1>6, <1>7, <1>8, <1>9, <1>10, EndStep
  DEF Next, Writers, Serve, Fail

\* Every behaviour of the pipeline is a behaviour of MailQueue under the mapping
\* of EmailQueue's instance M.
THEOREM Refinement == Spec => ImplementsMailQueue
<1>1. Init => M!MInit
  BY DEF Init, M!MInit, Together, Rows
<1> QED
  BY <1>1, MailQueueStep, Invariance, PTL DEF Spec, ImplementsMailQueue, M!MSpec

-----------------------------------------------------------------------------
(* The trigger on course_section.                                          *)

\* Only the importer changes the enrolment columns.
LEMMA EnrolmentStep ==
  ASSUME [Next]_vars, enrolment' # enrolment
  PROVE  \E into \in [Sections -> Courses] : ImportSections(enrolment', into)
<1> USE DEF tables, service, history
<1>1. ASSUME Write \/ Serve \/ Fail \/ UNCHANGED vars PROVE enrolment' = enrolment
  BY <1>1 DEF Write, RequestReset, ResetPassword, Subscribe, Unsubscribe,
     DeleteAccount, ChangeEmail, Delete, Serve, Receive, MergeSameCourse, Scan,
     ScanNullEmail, Disconnect, Exit, Hang, Send, Mark, Commit, CommitFails,
     Restart, Fail, SendFails, StatementFails, MarkFails, Crash, vars
<1>2. Import
  BY <1>1 DEF Next
<1>3. PICK new \in [Sections -> Enrolment], into \in [Sections -> Courses] :
        ImportSections(new, into)
  BY <1>2, ImportType
<1>4. enrolment' = new
  BY <1>3 DEF ImportSections
<1> QED
  BY <1>3, <1>4

\* Seats freed in a full section are queued for every subscriber of it, unless
\* the university raised the capacity in the same report.
THEOREM FreedSeats == Spec => FreedSeatsAreQueued
<1> DEFINE Freed(s) ==
      /\ enrolment[s].total >= enrolment[s].capacity
      /\ enrolment'[s].total < enrolment'[s].capacity
      /\ enrolment'[s].capacity <= enrolment[s].capacity
<1>1. ASSUME Inv, [Next]_vars, NEW s \in Sections, Freed(s), NEW u \in Subscribers(s)
      PROVE  \E r \in unseen' \ Rows : r.table = Vacated /\ r.user = u /\ s \in r.on
  <2>1. /\ enrolment \in [Sections -> Enrolment]
        /\ enrolment' \in [Sections -> Enrolment]
        /\ serial \in Nat
    BY <1>1, TypeStep DEF Inv, TypeOK
  <2>2. /\ enrolment[s].total \in Nat /\ enrolment[s].capacity \in Nat
        /\ enrolment'[s].total \in Nat /\ enrolment'[s].capacity \in Nat
    BY <2>1, EmailQueueAssumption DEF Enrolment
  <2>3. enrolment' # enrolment
    BY <1>1, <2>2
  <2>4. PICK into \in [Sections -> Courses] : ImportSections(enrolment', into)
    BY <1>1, <2>3, EnrolmentStep
  <2>5. s \in VacatedSections(enrolment')
    BY <1>1, <2>2 DEF VacatedSections
  <2> DEFINE r == [table |-> Vacated, user |-> u, id |-> serial + 1,
                   on |-> {t \in VacatedSections(enrolment') : into[t] = into[s]}]
  <2>6. r \in VacatedRows(enrolment', into, serial + 1)
    <3>1. into[s] \in Courses
      BY <2>4
    <3>2. u \in Users /\ s \in {t \in VacatedSections(enrolment') : into[t] = into[s]}
      BY <1>1, <2>5 DEF Subscribers
    <3>3. <<u, into[s]>> \in Users \X Courses
      BY <3>1, <3>2
    <3> DEFINE uc == <<u, into[s]>>
    <3>4. /\ uc \in Users \X Courses
          /\ \E t \in {t \in VacatedSections(enrolment') : into[t] = uc[2]} : uc[1] \in Subscribers(t)
      BY <1>1, <3>2, <3>3
    <3>5. r = [table |-> Vacated, user |-> uc[1], id |-> serial + 1,
               on |-> {t \in VacatedSections(enrolment') : into[t] = uc[2]}]
      OBVIOUS
    <3> HIDE DEF uc, r
    <3> QED
      BY <3>4, <3>5 DEF VacatedRows
  <2>7. r \in unseen'
    BY <2>4, <2>6 DEF ImportSections, Insert
  <2>8. r \notin Rows
    BY <1>1, <2>1 DEF Inv, FreshInv, Rows
  <2> QED
    BY <2>5, <2>7, <2>8
<1>2. Inv /\ [Next]_vars =>
        [\A s \in Sections : Freed(s) => \A u \in Subscribers(s) :
           \E r \in unseen' \ Rows : r.table = Vacated /\ r.user = u /\ s \in r.on]_vars
  BY <1>1
<1> QED
  BY <1>2, Invariance, PTL DEF Spec, FreedSeatsAreQueued

=============================================================================
