# A TLA+ model of the UW Flow backend

UW Flow lets students of the University of Waterloo look up and review courses,
record what they take, and hear of seats that come free. This directory models
what the backend does to its database when several of its processes work at the
same time, fail, or start again; TLC checks the models on small instances, and
TLAPS proves all but their liveness for every instance. Paths below are relative to
the repository (`flow/...`, `hasura/...`).

Contents: [1 the system](#1-the-system), [2 the modules](#2-the-modules),
[3 the runs](#3-the-runs), [4 fairness and deadlock](#4-fairness-and-deadlock),
[5 the proofs](#5-the-proofs), [6 disagreements](#6-where-code-and-documentation-disagree),
[7 what is not modelled](#7-what-is-not-modelled), [8 plan](#8-plan).

## 1 The system

Everything persistent is in one PostgreSQL database. Four kinds of process use it:

- the **API** (`flow/api`), a Go server; each request is one READ COMMITTED
  transaction (`serde/handler.go`) which ends with the request, by commit or rollback;
- **Hasura**, an external GraphQL server; its permissions (`hasura/metadata`) let a
  user write some rows of their own;
- the **importer** (`flow/importer/uw`), started by cron (`crontab`: vacuum 05:30,
  import 06:20 UTC): it fetches terms and courses from the university's API and writes
  them in a series of transactions;
- the **email service** (`flow/email`), a process that listens on a Postgres channel
  and mails the unseen rows of three queue tables.

They never call each other. They meet in tables, in row locks, in triggers that the
statements of one fire on behalf of another, and in the notifications that reach the
email service. That is where the hard behaviour is: handlers that read, wait and write;
statements that see different snapshots; notifications that nobody hears.

### Components

State, operations, and what makes each correct; `PROJECT.json` has the full list with
files and status, and under "hazards" the lines where each can go wrong.

| component | state | operations | what must hold |
|---|---|---|---|
| email service (`flow/email`) | its open transaction: notification, scanned items, marks | listen, scan, merge, send, mark, commit, hang, exit, restart | every unseen row gets served; nothing is marked seen unmailed; nothing is mailed twice unless a mail was reported as failed or a transaction was lost |
| queue tables and triggers (`init/up.sql`) | `queue.password_reset`, `section_subscribed`, `section_vacated` | upsert, insert, delete, cascade; `sendmail_notify`, `insert_course_vacated` | freed seats are queued for every subscriber; each insert notifies |
| course importer (`parts/course`) | courses, requisites, professors, sections, meetings, work tables | fetch, convert, six write stages, two vacuum statements | tables mirror the last complete run; manual rows survive; the vacuum spares what is used; runs end, if only as the victim of a deadlock |
| password reset (`api/auth/reset.go`) | the reset row, the password, row locks | send a code, verify it, use it | a code works for its owner, and not again; a newer code survives |
| accounts (`api/auth`) | `"user"` and the three credential tables | register, log in, edit, delete | one account per identity, one identity per account; who has an account gets in |
| term calendar (`common/util/term.go`) | the clock; terms, sections, schedules that exist; runs under way | term arithmetic; import, vacuum, accept by it | nothing recent is vacuumed; nothing vacuumed is fetched again |
| uploads (`api/parse/parse.go`) | `user_course_taken`, `user_schedule` | replace by transcript, replace by schedule | an upload replaces its terms as if in one step, other terms stay; every upload is answered |
| reviews, ratings, search indexes (migrations), search dump (`api/data`) | seven materialized views, relation locks | refresh triggers; queries of searches and the dump | views show what the tables hold, or an overtaken refresh explains the difference; an import repairs it |
| parsers (`api/parse`), requirements and meetings (`convert.go`), term events, webcal export (`api/calendar`) | none | pure functions of outside texts and lists | each piece of the input goes to the class, term, type or event it belongs to |
| API client, routes, JWT, PDF, templates, deployment | none that changes | | left out, section 7 |

## 2 The modules

| module | models | used by |
|---|---|---|
| `EmailQueue` | queue tables, triggers, their writers, the email service | `MCEmailQueue`, `EmailQueueProofs` |
| `MailQueue` | what the service promises, without Postgres | `EmailQueue` (`M == INSTANCE`) |
| `CourseImport` | course importer and its vacuum | `MCCourseImport`, `CourseImportProofs` |
| `PasswordReset` | reset requests, statement by statement | `MCPasswordReset`, `PasswordResetProofs` |
| `Accounts` | registration, login, edits, deletion | `MCAccounts`, `AccountsProofs` |
| `Directory` | what signing in promises, without tables and transactions | `Accounts` (`D == INSTANCE`) |
| `TermCalendar` | term ids of dates and the jobs that go by them | `MCTermCalendar`, `TermCalendarProofs` |
| `Enrolments` | transcript and schedule uploads | `MCEnrolments`, `EnrolmentsProofs` |
| `Replacement` | what uploads promise, without Postgres | `Enrolments` (`R == INSTANCE`) |
| `RatingViews` | reviews, votes, timetable; the views over them, their refreshes and readers | `MCRatingViews`, `RatingViewsProofs` |
| `ScheduleText`, `TranscriptText` | the parsers of uploaded texts | `Readers` |
| `RequirementText` | requirements of courses, and the course codes in them | `Readers` |
| `TermEvents` | the terms of the university's important dates | `Readers` |
| `Webcal` | meetings from what the API lists to exported events | `Readers` |
| `Places` | places in a text, and the loops that go along them | the text modules |
| `Readers` | the six readers, each fed its input piece by piece | `MCReaders`, `ReadersProofs` |

A definition that starts with the comment "Faulty variant" is not part of a model. It is
what a plausible mistake in the code would make of the definition next to it, and shows
that a property would notice.

Common conventions: a transaction that waits for a lock is an action whose guard is not
true yet; what other transactions cannot see yet is kept in variables of the writer, and
reaches the table variables when it commits; errors, cancelled requests and killed
processes are one action `Fail` (or `Crash`) that rolls back, bounded by `MaxFaults`.

### EmailQueue and MailQueue

`unseen` and `seen` are the committed rows of the three tables, `course` the course that a
section belongs to, `channel` the notifications on the listening connection, `pc`, `source`,
`items`, `inFlight`, `marked`, `aborted` the service. `listen` is `Receive` (one notification,
one transaction), `MergeSameCourse` (`markQuery`), `Scan`, then per item `Send` and `Mark`, then
`Commit`. The importer's UPDATE of `course_section` (`ImportSections`) changes enrolments and
moves sections between courses, in one statement.

The error paths: `SendFails` is an error of `smtp.Send`, which the server may report after it took
the mail or instead; the item is not marked, and the loop goes on. `MarkFails` is the path on
which `process` logs the failure of a mark and goes on: the transaction is aborted, the rest is
still mailed, the commit rolls back (`CommitFails`). It also stands for the mark that a deadlock
with `DeleteAccount` ends. When `dispatch` returns an error (`ScanNullEmail`, `StatementFails`),
`listen` returns *without* rollback, and `pool.Close()` of `main` waits for the connection of the
open transaction for ever: `Hang`. Such a process does not end, so that nobody restarts it, and
after `ScanNullEmail` its marks keep their rows locked. Only `Crash` (a kill from outside, a fault)
ends it. `CommitFails` and `Crash` end the process (`Exit`), and `Restart` starts it.

- The writers' transactions are atomic because each makes one write to a queue table and
  keeps its locks to the commit. A row in `marked` is locked, so `Insert` and `Delete`
  wait for it; a reset row is replaced by its upsert, which also waits.
- Notify triggers are statement triggers. They fire for an INSERT of no row, so *every*
  update of `course_section` notifies `section_vacated`; `VacancyIsServed` depends on it.
- A section removed by the vacuum takes its subscriptions along, which is `Unsubscribe`.
- `ResetPassword` is one action here, since the service sees only commits;
  `PasswordReset` splits it.
- `missed` records the tables whose notification was lost or whose item was left behind;
  `mails`, `mailedNow`, `lost` record what was sent. They are history, no guard reads
  `missed`, `mailedNow` or `lost`.

`MailQueue` has items that wait, are taken in a batch, told, settled and retired. An item is settled
only if it or one that covers it was told (a reset is covered by any reset of the user), or if it
is *alike* a retired one at that moment: a subscription of a user beside a seen one to a section
of the same course. What is alike changes as sections move. An item stays settled to the end of the
transaction, and is retired then. `ImplementsMailQueue` is the refinement: queued = unseen, retired
= seen, batch = items, settled = marked, told = mails, alike = `Together`. That a subscription is
alike a seen one does not mean that the user was ever told of its *course*: the seen one may have
been announced under another course, before its section moved. The code cannot tell, and section 6
lists it.

### CourseImport

One run is `Start`, `Fetch` per course (which may fail for a course), then
`InsertCourses`, `InsertPrereqs`, `InsertAntireqs`, `InsertProfs`, `InsertSections`,
`DeleteMeetings`/`RefreshViews`/`InsertMeetings`, each stage a committed transaction. The TRUNCATE
a stage begins with keeps the same stages of two runs apart, so a stage is one step; the meetings
stage deletes before it truncates and is three: its DELETE sees some meetings (`doomed`), the
statement's trigger locks the views (`RefreshViews`, from when the stage also holds the work table),
and the INSERT and the commit follow. The vacuum is two statements. The DELETE of sections locks
them (`LockSections`) and then takes their meetings along and refreshes the views
(`VacuumSections`); the DELETE of professors takes its snapshot (`ReadProfs`), locks the rows
(`LockProfs`), and takes along what refers to them by then (`DeleteProfs`).

Between its two steps such a DELETE holds its rows (`LockedSections`, `LockedProfs`). A run that
would update such a section, or insert a meeting that refers to such a row (`RefersToLocked`), waits;
the vacuum waits for the rows that a run is deleting (`CascadeWaits`) and for the views
(`ViewsLocked`). So a run and the vacuum, or two runs, can wait for each other, and PostgreSQL aborts
one of them (`Deadlock`): an overlapping run can end as failed although no call to the outside
failed.

The university changes its answers (`ListingChanges`, `CatalogChanges`), terms
end, users review. `by` on a meeting names the run that wrote it.

### PasswordReset

`SendEmail` upserts the row of the user. A use of a code is `Select` (reads the row without
lock, then hashes), `Update` (takes the lock of the user's row, or finds no user), `Commit`
(deletes the row of the code). `Changed`, `RowsOfKey`, `Unlocked` are the parts of the last
three statements. Codes are drawn fresh: `issued` keeps their owner, and no code is drawn
twice. `used` and `twice` are history.

### Accounts

An email, Facebook or Google login or a registration is a request that looks its identity up
(`SignIn`, `LoginEmail`, `RegisterEmail`), then `InsertUser`, `InsertCredential`, `CommitNew`,
or for a known user `CommitKnown`. Uncommitted rows are in the request's own variables; a
credential whose identity another transaction has inserted but not committed makes the
second wait (`MustWait`) and then fail. `EditProfile` is Hasura's update of `"user"`.

`Directory` is a list of accounts, an identity with a row under an id. A request comes and is
shown the account of its identity (`Arrive`), and then in one step is let in (`Return`, `Create`)
or turned away. Only what the provider says may go into the account, and a new account is of an
identity that has none at that moment, under an id never given before. `ImplementsDirectory` is
the refinement: `Entries` are the users with the identity in `owner`, `Given` the ids that have an
owner, `Stage` and `Into` what the program counter and `own` mean to who signs in. `InsertUser` and
`InsertCredential` are stutters, `CommitNew` and `CommitKnown` the steps that count.

### TermCalendar

`AddMonths` has the overflow of Go's `AddDate`: a date that the month lacks runs into the
next one. The other operators are `DateToTermId` and the functions built on it. The
actions are a day that passes, the two imports, the two vacuums and an accepted schedule,
in any order and number each day. A run of the section importer works out its terms when it starts
(`FetchSections`) and writes them later, on the same day or any other, or fails (`ImportSections`); it
is in `fetching` meanwhile, with what was gone when it started. `gone` are the terms whose sections
were vacuumed.

### Enrolments

The transcripts and schedules of one user. `pc[u]` is the statement an upload is at; `scan`
the rows its DELETE has yet to come to, in an order chosen as it goes; `gone` and `new` what
it has deleted and inserted so far. A DELETE waits for a row another upload is deleting; an
INSERT waits for an uncommitted row of the same unique key and then conflicts
(`course_uniquely_taken`) or does nothing. `UpdateProgram`, the update of the user's row that
only transcripts make, serialises transcripts, by accident as far as the code says.
`InCycle`/`Deadlock` are PostgreSQL's detection. Sections appear and may change course.
`failed` are the classes a schedule's answer lists as not found (`failedClasses`); `found`, the courses
that an upload found classes to be of, is history.

In `Replacement` an upload comes, may look classes up while it is open, and in one step replaces what
the tables say of its terms (`Speaks`): all of its file is there, a class or else its name in the
answer; rows of others that stay were written by uploads answered since it began (`Since`), in a
transcript's terms and among the classes by schedules only; keys are unique. `ImplementsReplacement`
maps `pc` to `Stage`; the other variables are those of `Enrolments`. Every DELETE and INSERT is a
stutter, `Commit` the replacement.

### RatingViews

A statement on a base table fires statement triggers that refresh views, in the writer's own
transaction. `Plan` is the list of views a transaction locks, in order: triggers of one table
fire in the order of their names, and those a foreign key's cascade sets off queue behind
those of the statement. So a deleted review refreshes both ratings, then both counts of
votes; an import refreshes five views twice, for sections and for meetings. `Snapshot` is
the REFRESH up to its wait, `Fill` the rest once nobody else uses the view: it computes from
the *old* snapshot, with the transaction's own changes (`Applied`). `Share` is a query's next
lock. All locks last to the end (`Commit`, `Answer`, `Rollback`, the last of which is also
the victim of a deadlock or a client that left).

- A refresh whose snapshot is older than a commit it should show has been *overtaken*:
  `late` and `missed` record the views this happened to, and no guard reads them.
- The model has no queue of lock waiters: anyone whose lock is free may go, which allows
  every order PostgreSQL's queue allows and others.
- `SameRows` are the row locks and unique keys that keep two transactions apart before they
  refresh anything.
- Averages, counts and ranking are abstracted to the set of reviews that count.

### Readers

A reader keeps nothing between calls. The state of `Readers` is the reader and its input,
which grows by a piece at a time, so that TLC goes through every input up to a length; the
operators of the five text modules do the work. Their pieces are what the regular expressions
of the code tell apart: a class number on a line of its own, a room that may go on in the next
line, a course line with so many decimals, a subject, a number, a type, a colon, a space.
Each property compares the translated loop with a reference definition that says, without
a loop, where every piece belongs. A loop is a recursive function of its turns; those that run
along the places of two lists at once stop at `Stops` of `Places`.

- `ScheduleText`: both regular expressions use up newlines, so a match can hide the next.
- `TranscriptText`: courses belong to the term above them; a transfer credit is told by how many
  numbers with decimals its line has.
- `RequirementText`: `Requirements` cuts a description at its labels and may panic, and
  `ExpandCourseCodes` merges subjects and numbers.
- `TermEvents`: `ConvertAll` matches starts with ends, `Imported` is the table afterwards; one
  unmatched start refuses all.
- `Webcal`: `ConvertMeeting` (importer), then `EventsOf` (API): days counted from Monday there
  and from Sunday here, seconds added to local midnight, a day on which the clocks change. The times of a
  meeting may be missing, unreadable (the meeting is left out), or in any order: nothing compares them.

## 3 The runs

| run | properties | instance | distinct states |
|---|---|---|---|
| `EmailSafety` | `NoLostWakeup`, `NoNeedlessResend`, `ImplementsMailQueue`, `FreedSeatsAreQueued` | 1 user, 2 sections, one of which moves between 2 courses, 3 rows, 2 notifications, 1 fault | 2.1 million |
| `EmailLiveness` | `NotifiedIsServed`, `VacancyIsServed` | 1 user, 1 section, 2 rows, 1 fault | 47 thousand |
| `EmailResetRace` | violates `ResetSeenWasMailed` | 1 user, resets only | |
| `ImportSerial` | `NoMixedMeetings`, `MirrorsFetch`, `OnlyFetchedReplaced` | 2 runs and vacuum, no overlap, 2 listings, 2 catalogs, 1 fault | 1.3 million |
| `ImportOverlap` | `ManualKept`, `VacuumSparesUsed`, `RunsComplete` | 2 of runs and vacuum at once, 1 review, no fault | 539 thousand |
| `ImportStalePrereqs` | violates `PrereqsMirrorFetch` | 2 catalogs | |
| `ResetCodes` | `UsedCodeIsGone`, `ChangedByOwnCode`, `NewerCodeSurvives`, `RequestsAnswered` | 2 users, 2 codes, 3 requests, 1 fault | 125 thousand |
| `Accounts` | `UsersAndCredentialsMatch`, `ImplementsDirectory`, `ReturningFacebookUserGetsIn` | 3 requests, 3 providers, 4 profiles, 1 fault | 392 thousand |
| `Calendar` | `NeverReturns`, `PreviousKept` | every day from 28 August 2023 to the end of April 2024, 1 run under way | 1.9 million |
| `Uploads` | `TranscriptReplaces`, `ConflictNeedsSchedule`, `ImplementsReplacement`, `Answered` | 2 uploads of 7 files, 2 sections, 1 move, 1 fault | 555 thousand |
| `Ratings` | `ProfRatingCurrent`, `CourseRatingMissesOnlyOvertaken`, `CountsAreVotes`, `IndexesFollowTimetable`, `ImportRepairs`, `DumpIsOneMoment`, `DeadlockIsSearch` | 2 transactions of any kind, 2 reviews, 1 voter, 1 class | 2.4 million |
| `Readers` | `ScheduleRead`, `TranscriptRead`, `RequirementsRead`, `CodesRead`, `EventsRead`, `MeetingsRead` | every input up to 6, 5, 7, 9, 4 and 1 pieces | 2.9 million |

The meaning of each property is stated in the comment before it. Each holds of the code
and fails for the faulty variant that `PROJECT.json` names under "mutants".

Why the bounds are enough to be of interest:

- *Email.* Three rows let a user have a seen, a new and a replaced row, or two subscriptions and the
  vacancy that names both sections. The channel of two lets notifications pile
  up behind a transaction; a writer that would overflow it waits, which only removes
  behaviours in which more of the same is waiting. One user, who may remove the address, suffices for
  what the service does per row; that users do not disturb each other follows from the theorems, which
  hold for every set of users. The reports of `EmailSafety` (`Moving`) let both sections be freed in
  one course, one be freed while it moves, and a capacity grow and shrink, so that the old total meets
  another capacity; a subscription can be seen, and its section move away from the other or to it. `MaxSerial`
  bounds inserted rows; deleting them remains possible at the bound.
- *Import.* The two listings let a class move to another course and professor, be listed
  twice with a dummy entry, lose its meetings, or be in one and not in the other fetch; code
  p2 is an alias of p1. Two runs are enough for one to repair what the other left.
  `MaxRunning = 1` in `ImportSerial` is the crontab: one vacuum, 50 minutes, one import of
  some hours. It has a fault in any stage of a run or of the vacuum, and no class entered by hand,
  which `ImportOverlap` has. `MaxRunning = 2` in `ImportOverlap` is a manual run, or one that takes a day; two classes are
  taught, so that two transactions can want two rows in different orders. It has one course and one
  professor, since what an overlap disturbs are rows of one class and of one professor.
  `NoMixedMeetings` is not true there; nothing in the code excludes the overlap.
- *Resets.* Three requests with two codes: two may compete for one code while the third
  uses the other.
- *Accounts.* Two first logins race and the third returns; the providers share a name so
  that a lookup by name alone would find the wrong account.
- *Calendar.* The period has August 31 and December 31, the two days on which
  `AddDate` runs over into another term, and February 29. One run may be under way for any number of
  those days (`MaxFetching`), over the change of terms too. The theorems cover all years, and any number of runs.
- *Uploads.* Files overlap in terms, disagree on the order of classes, repeat a course,
  name a course the catalogue lacks, are empty or too old. Two at a time suffice for the
  properties of the run; what a third changes is in section 6.

- *Ratings.* Two transactions of any kind meet at every pair of locks, and a transaction can
  be overtaken only by another; r1 is rated, deleted and voted on, r2 is written without ever
  having the rating that counts, so that writes of another review overtake. A cycle of two is
  the smallest deadlock; that larger ones have the same members is proved.
- *Readers.* Six lines hold three class numbers with the rooms of each between them; five lines,
  two terms with two courses; seven pieces, two labels with a text each and a space; nine words,
  two groups of subjects and numbers with what stands between; four events, two terms with start and end.
  A meeting is one record of the API, with times in order, equal, reversed, midnight to midnight, unreadable or
  none; days 5 to 9 include a week's end and day 7, on which the
  clocks change either way.

The type invariants (`TypeOK`) are proved for every instance and checked by no run, except that
of `Readers`, whose two variables have none worth stating.

## 4 Fairness and deadlock

- `EmailQueue`: weak fairness of `Serve`, the steps of a process whose loop never stops
  and which `docker-compose.yml` restarts when it *ends* (`restart: always`). A process that hangs in
  `pool.Close()` has no step, so both liveness properties except it, and section 6 says what it costs. Strong fairness of `Import`,
  the daily job, for `VacancyIsServed` only: it may be disabled while the channel is at
  its bound. Writers and failures are not fair.
- `CourseImport`: strong fairness of each run's stages, since a stage that waits for a lock is
  served by PostgreSQL's queue of waiters before the vacuum of the next day can come first again; weak
  fairness of the vacuum's steps once it has started, and of `Deadlock`, PostgreSQL's detector. Runs
  and vacuums do wait for each other in circles, so without the detector `RunsComplete` would fail.
- `PasswordReset`: strong fairness of `Update`, since PostgreSQL serves the waiters of a row
  lock in turn; weak fairness of `Commit`. A request that fails counts as answered.
- `Enrolments`: weak fairness of the steps of an upload, the deadlock detector's included.

`CHECK_DEADLOCK FALSE` is used where the instance ends: rows, runs, requests and uploads
are bounded, and when all are used up nothing need happen. In `Calendar`, where the jobs
can always run, TLC checks deadlock. That nobody waits for ever is what the liveness
properties say. In `Ratings` TLC checks deadlock too, and none is found because
PostgreSQL's rollback of a victim is a step of the model; who may be in one is
`DeadlockIsSearch`. `Readers` stops when the input has its full length.

## 5 The proofs

Everything is proved for all values of the constants that satisfy the module's `ASSUME`.

**EmailQueueProofs** (`TypeCorrect`, `Announced`, `WakeupKept`, `ResentOnlyAfterFailure`,
`FreedSeats`, `Refinement`). The invariant `Inv` adds three parts to the checked ones.
`ServiceInv` says what the program counter implies of the transaction (no items and no abort
outside of `send` and `mark`, marked rows are unseen and are there only in a transaction or in one
that hangs, a batch is of one table); without it a commit could retire rows of another transaction.
`FreshInv`: no row, batch or mail carries an id yet to be given, so that a new row is not taken for
one already mailed. `ResendInv`: an unseen row that was mailed had its mail reported as failed, was
lost in a rollback, or is of the open transaction, which has marked it, is about to, or is aborted.
One lemma per part and one frame lemma for all writers (`WritersStep`), which keep the rows they do
not mention and notify what they insert. `Announced` speaks of users, not of courses, because sections
move: a seen subscription was preceded by a confirmation to its user, a reset by one of its user's
codes, a vacancy by its own mail (`SeenWasAnnounced`, which no run checks beside the refinement).
`Refinement` maps each step to a step of `MailQueue` or a stutter, using `Inv`.

**CourseImportProofs** (`TypeCorrect`, `ManualMeetingsKept`, `VacuumSparesUsedProfs`,
`MeetingsOfOneRun`, `TablesMirrorFetch`, `UnfetchedKept`). The first three
hold for any number of overlapping runs, waits and deadlocks. `ManualInv`: classes entered by hand are
never among what a run fetched, in the work table, or doomed. `LockedExpired`: the sections that an open
DELETE of the vacuum holds are of terms that have passed, since terms do not come back. The last three
assume what the code relies on: `MaxRunning = 1`, a finite set of runs and, in the module, that
no code is in `prof_remap` twice (its primary key). `SerialInv` says that at most
one process is at work, that between the sections and the meetings stage the work table is what
that run converted, and that its DELETE sees every meeting of those classes; so there is nobody to
wait for (`NoDeadlock`). `MirrorInv` says
which of the tables already agree with the run's data after each stage. The properties of
steps (`ManualKept`, `VacuumSparesUsed`, `OnlyFetchedReplaced`) follow from one lemma each.

**PasswordResetProofs** (`TypeCorrect`, `UsedCodesGone`, `PasswordsChangedByOwnCode`,
`NewerCodesSurvive`). `LocksLive`: a lock is held by a request about to delete, on a user who
exists; `RowsIssued`: a row's code was drawn for its user; `RequestsOwned`: a request holds a
code drawn for the user it read. With fresh codes (`SendEmail` draws one whose `issued` is
None) a used code never comes back into a row.

**TermCalendarProofs** (`VacuumsSparePrevious`, `TypeCorrect`, `VacuumedStaysGone`,
`PreviousTermKept`). The arithmetic of terms (`TwoTermsBack`, `OneTermBack`, `OneTermOn`) is
proved for every date, the overflow included: the previous term ids are off by at most one
term, and only towards the present. So the vacuum never passes the previous term. `NeverReturns` is about steps: a deleted section comes
back only by a run that was under way when it was deleted, and below the threshold of the vacuum, which
therefore deletes it again. The invariant is that what is gone is before today's threshold, which
days only move on (`NextDayLater`), and that a run under way fetches nothing that was gone when it
started (`FetchedKept`). The assumption
`FirstDay.year > 1902` keeps term ids natural numbers.

**AccountsProofs** (`TypeCorrect`, `OneCredentialEach`, `OnlyOwnAccount`, `FacebookUsersReturn`).
`Fresh`: the id that a request is about to use has no user, no credential and no other request,
because ids come from a sequence (`Drawn`, `Counted`). `Indexed`: of those who are about to
commit a credential no two have the same identity, and nobody has it committed, which is what the
wait for the unique index gives. `Owned`: the id a request works with belongs to who signs
in (so that nobody gets into another's account, `OwnAccount`, which no run checks since
`ImplementsDirectory` says more). `Accepted`: no address in the table is one the schema refuses, and a Facebook user whose
credential is committed is not sent on to register. `SignInsAreOneStep` is the refinement: whatever
other requests, edits and deletions come between the statements of a login, what it does to the
accounts is one step of `Directory`. It needs `Ungiven`, which says that the sequence is past every id
that had an account and that an id drawn has none yet, and takes each action to its step by a
lemma (`ArrivalRefines`, `CreationRefines`, `ReturnRefines`); `SeenOfOne` is why a `SELECT` sees
at most one row.

**EnrolmentsProofs** (`TypeCorrect`, `OtherTermsStay`, `TranscriptsReplace`,
`ConflictsExplained`, `UploadsReplace`). `KeysApart`: the table as any upload sees it has unique keys, and no two
uploads have deleted or inserted the same key, since whoever comes second waits. `Alone`: past
`UpdateProgram` there is one transcript at a time. `Leftovers`: rows a DELETE did not see were
written after it began, by a schedule; so a transcript leaves its own rows and those of
schedules that committed meanwhile. `Explained`: whoever met a key of another's row met a
schedule, or repeats itself. `Answers` says how far an upload has come with what it will be held
to: of the classes before the one it is at, each is reported, or in the schedule and its course either
inserted or left to an upload that committed since; a course it inserted is one it found; and the rows
of its term that its DELETE passed by are of uploads that committed since. With `Leftovers` and `KeysApart` this makes the `Commit` of an upload a
step of `Replacement`, and every other step a stutter, a lookup or a section's change
(`UploadsReplace`). `OtherTermsKept`, which no run checks beside it, is proved as well.

**RatingViewsProofs** (`Typing`, one theorem for each property of the run). `Exclusive`: a view
locked by a change is locked by nobody else. Every change that may alter ratings, but for
votes, locks `course_rating` first; so from the second view on (`HeldStill`) the committed
ratings stand still for it, and what it puts into `prof_rating` is current. For `course_rating`
itself there is no earlier lock, and `DraftedInTime` ties its draft to `late`. The same
lock makes the timetable stand still (`Listed`), and an import's second statement refresh under
the locks of the first (`Repairs`). For counts of votes, `RowsApart` keeps apart transactions
that meet in a row; so a review that appears while counts are refreshed has no votes, and
counts remain right without it. `OnlySearchesDeadlock`: in a minimal set of waiters each waits for a
view another holds; all plans but those of searches for professors lock views in one order.

**ReadersProofs** (`SchedulesReadRight`, `TranscriptsReadRight`, `RequirementsReadRight`,
`CodesReadRight`, `EventsReadRight`, `MeetingsReadRight`). The runs go through inputs up to nine pieces;
these hold for an input of any length, over any set of numbers, rooms, words, terms and meetings.
`InputStays` says that the input is made of the reader's pieces, and each theorem is then a lemma
about the operators (`ClassesOfText`, `CoursesOfText`, `RequirementsOfText`, `CodesOfText`,
`TermsFromEvents`, `MeetingOfDays`). The induction theorems of the library take an operator as a
parameter, which the provers cannot instantiate, so induction is on sets: `LeastNumber` comes from
`NatLessThanWellFounded`, `NumberInduction` from `LeastNumber`. `LoopExists` shows that a function that
is defined by its last turn exists and may be unfolded, and each loop has an invariant of what it has
made after so many turns (`StopsOf`, `LoopOverMatches`). The references speak of places by their
order, so `InOrderProperties` and `OrderIsUnique` are used throughout. The lemmas assume what the
properties do: where a text may panic, or hides a match, the property has a hypothesis, and
section 6 says what happens without it. Nothing is assumed of the order of a meeting's times: the events end
after they start exactly when the meeting is listed so.

Only model-checked: liveness under fairness (`NotifiedIsServed`, `VacancyIsServed`, `RunsComplete`,
`RequestsAnswered`, `Answered`), which with ENABLED is out of the prover's reach. Every other property
of a passing run is a theorem.

## 6 Where code and documentation disagree

Shown by runs, and listed with the quotes in `PROJECT.json` under "findings":

- `EmailResetRace`: resets are marked by user. A second code requested between the scan
  and the mark is marked seen and never mailed.
- `ImportStalePrereqs`: the statement that should clear prerequisites reads a column of the
  outer row and deletes nothing; prerequisites that left the catalog stay.

Others came up while modelling and have no run of their own. Where behaviour is
concerned the model contains it, and a reader sees it by checking the formula given:

- On August 31 and December 31 `AddDate` runs over, and the importer fetches three or two
  terms of the four. On August 31 PreviousTermId(1) is the current Spring; on December 31
  NextTermId and PreviousTermId(2) are both Spring (`FetchesFourTerms` of `TermCalendar`).
- After an error of `dispatch`, for which one row of a user whose address is NULL is enough, the email
  service neither serves nor ends, and no restart policy applies (`UnseenIsSent` in `EmailLiveness` with
  `MaxFaults = 0`).
- Two overlapping requests with the "one-time reset code" (`template.go:35`) both change the password
  (`OneTimeCode` in `ResetCodes`).
- A full section that opens because its *capacity* grows queues nothing, as the trigger
  compares the old total with the new capacity, while the mail says "We'll notify you when
  a spot opens" (`flow/email/format/template.go:43`). Drop the last conjunct of the
  hypothesis of `FreedSeatsAreQueued`.
- A mail that the server took and `smtp.Send` reports as failed (at QUIT, say) is sent again after a
  normal commit (`NoNeedlessResend` with `lost` left as it is in `SendFails`).
- A subscription is marked seen beside any seen one to a section that is in the same course *now*. When
  the importer has moved that section, the user was never told about this course
  (`EmailSafety`: keep in a history variable the courses of which a user was told).
- A vacuum and a run that overlaps with it, or two runs, can deadlock in the meetings and sections
  stages; the victim, run or vacuum, ends with an error (`\A r \in Runs : pc[r] # "failed"` fails in
  `ImportOverlap`, which has no faults).
- A run of the importer that is under way when the terms change can bring back sections that the vacuum
  has deleted, with new ids; they stay until the next vacuum
  (`[][section' \cap gone \subseteq section]_vars` fails in `Calendar`).
- A notification sent while the service is down is lost, and the service does not scan when
  it starts (the same formula for resets with `MaxFaults = 1`).
- A Google user without a picture registers once and is refused ever after, because
  `loginGoogle` reads NULL into a string and takes the error for an unknown user
  (`ReturningFacebookUserGetsIn` with "google").
- A Facebook user whose address is filled in later with one that `email_format` refuses is
  locked out: the error of the UPDATE is overwritten, the transaction is aborted
  (the same property without its last hypothesis).
- `course/vacuum.go:33` and `term/vacuum.go:15` say that the vacuum retains from the previous
  term; the code retains one more, as the importer needs.
- `parse.go:141` refuses old schedules because "there are no sections in database"; the
  sections of two previous terms are there.
- With three schedules at once a class may end up in the schedule without its course among
  those taken: with three `Uploads`, schedules only and `MaxMoves = 0`, the invariant
  `\A r \in rows : r.table = "schedule" => \E q \in rows : q.table = "taken" /\ q.of = course[r.of] /\ q.term = r.term`
  fails; with two it holds.

- A review can be missing from its course's rating until the next review or import, if its
  refresh waited while another was committed: `view["course_rating"] = Rated(db)` fails in
  `Ratings`. A review just written has no row among the counts until the next vote on any review.
  A search for professors and an import can deadlock.
- What the readers' properties leave to the code, each seen by checking the simpler formula:
  - `schedule.go:27` says that class numbers are "*the* four or five digit sequences", but the match
    needs a newline on either side of its own: of two on adjacent lines the second is missed,
    and one in the first line. A line of capitals (TBA, too) before a line of digits is a room.
  - A current course with a number of four digits in its title is left out as a transfer
    credit, since the dot of `creditRegexp` matches any character.
  - `convert.go:44` says that the guess "is always accurate". Words between a subject and its
    number are dropped, as are numbers before the first subject. Two labels in one word without
    a space make the slice panic. A later label of a type replaces an earlier one. A newline does
    not separate words.
  - `calendar.go:85` says that the end "MUST be later in time than" the start. Nothing compares the times of
    a meeting: without any it is stored as 0 to 0 and ends when it starts, as does one listed from 00:00 to
    00:00, and one listed with reversed times ends before. A time that cannot be read leaves the meeting out. On the days when the clocks change events are
    an hour off. The UID, which `calendar.go:76` says must be unique, is made of section and
    start, which two meetings may share.
  - `up.sql:166` says that dates are filled when the API has none; a meeting without dates is
    skipped.
  - One term with a start and no end fails the import of all.

Read in the code, outside what the models tell apart: `client.go:57` describes a backoff with
jitter where the delay is fixed; `fetch.go:91` takes any error whose text has "404" for a course
without classes; `RunImport` reports success when every fetch failed; a week of more than seven
letters, or a section number of four digits, panics; `delete.go` dereferences a NULL address in a
log line, after the account is gone. A review outlives the course taken that allowed it, and a
section that moves leaves the course taken on its strength behind. `prof_remap` goes with a
professor that is vacuumed.

## 7 What is not modelled

- Data that no property tells apart: names, times, averages, the wording of requirements, mails
  and errors, the corequisite flag, levels and locations, tokens and password hashes.
- Components without state of their own or pure I/O: routes and environment, JWT, database
  wrapper, PDF to text, mail templates, deployment, Hasura's permissions.
- The API client's rate limit and retries, a sequential loop around HTTP calls: the importer takes
  an answer or a failure as given. The command around the importer runs the jobs in a fixed
  order, which is the schedule `CourseImport` and `TermCalendar` have.
- Names and casts of `flow/common/util`: tables, and loops over characters.
- Unique and foreign keys as such: PostgreSQL keeps them whatever the code does. The modules have what
  they make a transaction do, wait, fail, or take rows along.
- Isolation levels above READ COMMITTED, which nothing asks for.
- In `Enrolments`: cascades from deleted users, courses and vacuumed sections, which take
  rows away whole. In `Accounts`: the length checks of the form.
- In `RatingViews`: what Hasura's clients ask of the views, which is not in the repository;
  the row locks of import and vacuum, and the deadlocks among them, which `CourseImport` has.
- In the parsers: the student number, program and term name, each one search whose failure
  refuses the text; and the characters within a line.

## 8 Plan

Done, most important behaviour first: `EmailQueue` with `MailQueue`, `CourseImport`,
`PasswordReset`, `TermCalendar`, `Accounts` with `Directory`, `Enrolments` with `Replacement`,
`RatingViews` and the readers, each with proofs. What would add most from here:

1. **Views, abstractly**: one map from tables to views, refreshed at some moment of each
   transaction, implemented by `RatingViews`. A view that was overtaken would then be known to show
   the tables of a moment since its transaction began.
2. **Uploads and the vacuum**: `Enrolments` with the sections that `CourseImport` deletes.
3. **API client**: what its retries do to the length of a run, and so to the overlap that
   `MaxRunning` stands for.

New properties join the runs above where the instance allows, so that each run keeps
asking one question of one component.
