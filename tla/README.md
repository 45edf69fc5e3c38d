# StaffTracker: a TLA+ model of the API

StaffTracker (`src/`) keeps a company's employees, their schedules and pay, and a
punch clock that works by QR code. `src/api` is a FastAPI service over PostgreSQL
(SQLAlchemy, async), Redis (sessions) and S3 (avatars); `src/admin-panel` is a Django
admin over the same database; Alembic brings its schema up and down. This directory
holds TLA+ modules that model the parts where order, overlap and failure matter, TLC
configurations that check them on small instances, and proofs for TLAPS that what is
checked holds for any number of employees, requests and rows.

## 1. Inventory

Every HTTP request is one coroutine with one database session, hence one transaction
from its first statement to `commit()`. PostgreSQL runs it at READ COMMITTED: each
SELECT sees what is committed when it starts. No handler uses `FOR UPDATE`, a lock or
a version column; the only things the database refuses are the unique indexes
(`company.email`, `user.email`, `schedule(employee_id, date)`, `qr_session.token`),
NOT NULL and the foreign keys. Redis and S3 take part in no transaction.

| Component | State | Operations | What is hard | What makes it correct |
|---|---|---|---|---|
| QR codes and time clock (`routers/qr.py`, `routers/time_entries.py`) | `qr_session`, `time_entry` | generate, scan, active; PATCH and DELETE of entries | two scans or two generators overlap; the code expires, the entry is edited or deleted between the SELECT and the commit; the clock is read late | one open entry per employee, one live code per company, a closed entry stays closed, only live codes punch |
| Accounts and sessions (`routers/auth.py`, `deps.py`, `services/session_store.py`, `routers/employees.py`) | `company`, `user`; keys `st:sess:<uuid>` | register, login, logout, the cookie check of every request, create, deactivate, delete employee | two stores, no common transaction; SCAN while keys come and go; crash between SET and COMMIT; unique indexes that make requests wait | nobody gets in who may not, no key names somebody else, deletion revokes |
| Employee records (`routers/employees.py`) | `employee_profile`, `schedule` | create, PATCH, delete | DELETE + INSERT of a schedule under READ COMMITTED, partial UPDATEs of the ORM, row locks | a schedule is one schedule, at a rate the employee had; nobody waits for ever |
| Payroll (`services/statistics.py`, `routers/employees.py`) | reads `schedule`, `adjustment` | salary, salary table and summary, what-if calculator, the salaries in employee lists | three implementations of one sum, several SELECTs each, the clock read up to three times | they agree; each adjustment is counted once; the month is complete |
| Adjustments (`routers/adjustments.py`) | `adjustment` | create, PATCH, delete | written while salaries are calculated | as above |
| Avatars (`services/s3.py`, `routers/employees.py`) | objects in S3, `avatar_key` | standalone upload, upload, remove, PATCH, delete employee | S3 first, commit afterwards; either fails; overlapping uploads; keys from old forms | a shown avatar exists; nothing is left behind |
| Company (`routers/company.py`) | `company` | get, PATCH | overlapping PATCHes; a contact that the schema may be too narrow for | a row has its columns (`Migrations`) |
| The end of an employee (`delete_employee`, the panel's cascade) | every table, S3, Redis | deletion by the API, deletion by the panel | rows inserted between the DELETEs, two orders of the tables, row locks, stores that fail, crashes | an answered deletion leaves nothing; a failing one was overtaken; nobody waits for ever |
| Reports and self-service (`routers/schedule.py`, `routers/statistics.py`, `routers/me.py`, the lists of `routers/employees.py`) | none | reads | one SELECT for the employees and more for their rows; users without a profile; rows written in between | every employee of the company is in it once, with what is due, and nobody else |
| Migrations (`alembic/versions`) | the schema | upgrade, downgrade | data carried from column to column; a command that fails half-way | the schema is that of its revision; a round trip keeps the data; upgrades never fail |
| Admin panel (`src/admin-panel`) | the same tables | Django's create, change, delete | a writer that knows nothing of sessions, objects in S3 or the API's rules | its deletions end, with the API's; reports show everybody else whatever it saves |
| Shell (`main.py`, `database.py`, `redis_client.py`, bcrypt, QR images) | connections | start, stop | pure I/O | - |

How they interact: handlers share nothing in memory; they meet in the three stores.
A request passes the cookie check (Redis, then `user`), then reads and writes its
tables. `delete_employee` is the handler that touches most: S3, Redis and five tables.
`Dismissal` has all of it with the locks that it takes and waits for; `Sessions`,
`Avatars`, `EmployeeRecords`, `TimeClock` and `Reports` each have the part that meets their state.

## 2. Modules

| Module | Models | Abstract specification |
|---|---|---|
| `TimeClock` | codes, entries, the three handlers that write them | `PunchClock` |
| `TimeClockProofs` | theorems about `TimeClock` | |
| `Sessions` | accounts in PostgreSQL, sessions in Redis | |
| `SessionsProofs` | theorems about `Sessions` | |
| `EmployeeRecords` | rate and schedule, PATCH and delete | `Roster` |
| `EmployeeRecordsProofs` | theorems about `EmployeeRecords` | |
| `Payroll` | the salary calculations, adjustments as their inputs | reference sums in the properties |
| `PayrollProofs` | theorems about `Payroll` | |
| `Avatars` | S3 and `avatar_key` | |
| `AvatarsProofs` | theorems about `Avatars` | |
| `Dismissal` | deletions of one employee by the API and the panel, over S3, Redis and five tables | |
| `DismissalProofs` | theorems about `Dismissal` | |
| `Migrations` | the nine revisions, up and down, and the rows they carry | the columns of `models.py` (`Models`) |
| `MigrationsProofs` | theorems about `Migrations` | |
| `Reports` | the reads of two companies' employees | |
| `ReportsProofs` | theorems about `Reports` | |
| `MC...` | instances for TLC | |

A handler is a record in a variable that is a function of the requests in flight: a
program counter, what it has loaded, and ghost fields (marked `ghost`; no guard reads
them). One action is one statement that the other requests can see or that sees them,
together with all local work up to the next `await`. Answers that write nothing (4xx
and 5xx after the first SELECT) are actions `...Fails` or `...Refused`.

**TimeClock.** `scan` requests go `code` (SELECT of the code), `profile`, `open`
(SELECT of the open entry), `write`; then `ScanCheckIn` inserts or `ScanCheckOut`
updates, with the commit. The clock is read after the third SELECT, so the stamp is any
time between that step (`readAt`) and the commit. `scalar_one_or_none()` raises on two
rows: `ScanFails`. The ORM's UPDATE sets `check_out` by primary key and looks at
nothing else, so a scan may overwrite an entry that was closed meanwhile, and fails
only if the row is gone. `generate_qr` reads the active codes (its first SELECT is
discarded) and writes both the old rows and the new one at the commit. PATCH writes
the columns that differ from what it loaded. `UsableCode`, `LiveCodes` and `OpenEntries`
are the WHERE clauses. `DeleteEmployee` is the deletion as the clock sees it.

**Sessions.** `RegisterCheck` is both SELECTs, `RegisterCompany` and `RegisterUser` the
two flushes, `RegisterMint` the SET, `RegisterCommit` the COMMIT. An INSERT of a
value that an uncommitted row holds waits (`FirmLocked`, `EmailLocked`). Sequences do not
roll back, so an id of a rolled-back row is never given again: `KeysNameTheirOwner`
depends on it. `OffVisit` is one step of `scan_iter`; Redis promises the keys that are
there from start to end, the others may or may not come. `Crash` stops the process: the
transactions roll back, the keys stay.

**EmployeeRecords.** `PatchLoad` loads and sets attributes; `dirty` is what the ORM will
write. `PatchUser` is the UPDATE of the user, if the body changes `is_active`, `PatchFlush` that of
the profile (both before the DELETE); `PatchDelete` takes the DELETE's snapshot and `PatchTakes`
its rows one by one, in any order, waiting for a row that another request has deleted. `PatchInserts` is one
INSERT: it waits, at the unique index, for a row that another has inserted or deleted and not
committed, and collides with one that is committed (`PatchFails`). `PatchInserted` is the
end of the flush with its foreign key check, `PatchCommitSchedule` the COMMIT, at which others see
the new rows. A deletion (`off`) takes the schedule's rows first, then the profile, then the user;
`OffFails` is the foreign key of a row that a PATCH inserted in between. Locks are
not stored: `UserHolders`, `Updaters`, `Removers`, `ProfileSharers`, `Deleters` and `Inserters` are the requests that have
them by where they are, `WaitsFor` whom a request waits for. Requests may wait in a circle of any kind
(`Deadlocked`): a PATCH and a deletion, or two PATCHes that list the same dates in different order;
`BreakDeadlock` is PostgreSQL's choice of a victim. The order of a body's dates is any. Bodies
set a field to NULL or name one date twice in the code as well: both are answered
with 500 and write nothing, and are left out.

**Payroll.** A `pay` request is one calculation of one of three kinds, `salary`,
`overrides` or `list`. Times are whole hours and amounts whole units, negative ones too:
no schema and no column has a lower bound. `Window` is what a
list loads around the current month; `MonthlySalary` filters what it loaded. Adjustments
are written by POST, PATCH (load, then commit) and DELETE; a schedule by one commit.

**Avatars.** All handlers that touch an avatar share four program counters: `delete`
the old object, `put` the new one, `commit`. `Fail` is a store that cannot be reached, at
any of them; it leaves the two stores apart (`torn`) only if the request has changed the bucket
(`ChangedBucket`).

**Dismissal.** A deletion takes the tables one after the other, `ApiOrder` for
`delete_employee`, `PanelOrder` for Django's cascade, which meets the models in the order
of `admin-panel/employees/models.py`. `Finds` is the snapshot of one DELETE: the rows committed when it
starts; those that another deletion has already deleted are waited for (`WaitsFor`), and the two
orders can close a cycle (`BreakDeadlock`). An INSERT shares the profile it refers to
(FOR KEY SHARE) until it commits, so the DELETE of the profile waits for it and then
finds its row: `DelFails`, the foreign key, with a 500. S3 and Redis come first and take part
in no rollback: `DelStoreFails` and `Crash` after them leave an employee who is there, logged
out and without avatar. Redis is one step here; what its scan finds is in `Sessions`.

**Migrations.** A command (`alembic upgrade`, `alembic downgrade`) runs `UpgradeStep` or
`DowngradeStep` per revision in one transaction (`env.py`) and commits or ends
without a trace (`CommandEnds`: a statement failed, the process was killed). The schema is a set of
`<<table, column, nullable>>`; `UpDrops`, `UpAdds`, `DownDrops`, `DownAdds` are the revisions'
operations, and what `UpProfile`, `UpCompany`, `UpDay`, `DownProfile` and `DownCompany` fill
in are their UPDATEs. A step runs if its columns can be added and dropped, no dropped table is
referred to, every NOT NULL column of every row is filled, and carried texts
fit. A text is the sequence of what stands between single spaces, because the SQL cuts
there (`split_part`, `concat`, `trim`, the substring from the third word). Rows are written by
releases of the application, at the revisions in `Releases`. `Kept` are the columns that a revision carries
or brings; the others are columns of the schema only.

**Reports.** A request is one report: `table`, `summary`, `salary` (`statistics.py`), `list`,
`one` (`employees.py`), `grid`, `slots` (`schedule.py`), `ownSalary`, `ownSlots` (`me.py`). `Found` is the WHERE of its
first SELECT; then `calculate_salary` reads schedule, bonuses and fines employee after
employee, and the lists read the schedules of all and the adjustments of all. What
an employee's rows add up to is a number each (`due`): a PATCH with a schedule changes the base (`Reschedule`), the
adjustments' handlers bonuses and fines, a PATCH of the type both at once (`Adjust`). `touched` (ghost) are the employees who were
written while the report was made, `seen` (ghost) what was due meanwhile. The panel saves any user with any company and
role and adds or deletes profiles, so that a user may have none. An id that has lost its rows (`gone`) is never given again.

## 3. Runs

| Run | Question | Instance |
|---|---|---|
| `clock_concurrent` | what holds however requests overlap; whose hours can be overwritten | 2 companies, 1 employee, 2 scans, 2 generators, 1 editor, 2 codes, 2 entries, times 0..2, codes valid for 1 |
| `clock_serial` | what holds when clients wait for answers and admins do not reopen entries; refinement of `PunchClock` | 2 employees, 2 scans, 1 generator, 1 editor |
| `clock_double_scan` | violated: two open entries | 2 scans |
| `sessions_safety` | who gets in, what stays in Redis | 2 users, 2 e-mails, 3 sessions, 1 login, 2 registrations, 1 call, 1 deletion |
| `sessions_liveness` | do registrations and deletions end | 2 sessions, no calls |
| `records_concurrent` | what a schedule can be made of; is every request answered | 1 employee, 2 PATCHes (4 bodies, 2 of them with `is_active`), 1 deletion, 2 dates, 2x2 rates, 3 commits |
| `records_serial` | one PATCH after the other; refinement of `Roster` | 1 employee, 1 deletion, 4 commits |
| `payroll` | do the calculations agree with a reference, also when the month turns and rows change | 2-day months, 3 months of days, 2 adjustments, 1 calculation, 1 PATCH |
| `avatars` | which avatars dangle, which objects are left | 1 employee, 3 keys, 2 requests |
| `dismissal` | what does an answered deletion leave, when does one fail, does each end | 1 employee, 2 deletions by the API, 1 by the panel, 1 inserting request, 1 INSERT |
| `migrations` | which schema, which data, which failures | 2 employees, releases at revisions 3, 5 and 9, 2 rows written, words of 0, 6, 100 and 101 letters |
| `reports` | who is in which report and with what; from which moments | 2 employees, 2 companies, 1 report, amounts 0 and 1, 2 commits |

**Why the bounds are enough.** The races are between two requests; a third request of
the same kind adds an order in which two of them race. Two entries let one be in another's past
(`known`), two codes let one supersede the other. With a validity of 1 in times
0..2 a code expires while a request holds it and another is live. Three sessions allow
one to be revoked, one to be minted during the scan and one for somebody else. In
`records_concurrent` three commits are the creation and two overlapping PATCHes (requests that
fail are not counted, so any number of those come between); two dates are enough for two INSERTs or two
DELETEs in different order, and the bodies (`MCMeeting`) meet at the user, at the profile, at rows and at the
index. The
clock of `payroll` starts on the last day of a month, so one tick turns it; rows lie in the
month before, the month and the month after. Three keys are an avatar, its
replacement and a third that overlaps. In `dismissal`, two deletions of one order and one of the other make
every wait and every cycle there is between two, and one INSERT overtakes any of
them; a crash or a failing store may follow, and deletions start again as often as they like. In
`migrations` a command goes one revision up or down, to the head or to nothing, so that
every sequence of revisions is run; the releases are one before names were joined, one between, where
schedules have no rates, and the head; two rows, so that one may be too long and the other not. In `reports` one
report suffices because reports only read; two commits between its SELECTs
take an employee away and bring one in, or change two parts of a sum; bonuses and fines start equal. Bounds in guards: `RoomForEntry`, `RoomForCode`,
`RoomForKey`, `RoomForUser`, `RoomForRow` (a request is only accepted if a fresh row is left for it),
`RoomToWrite` (an employee is only created, and a PATCH only accepted, if there is a number for the rows of
each PATCH in flight as well),
`MaxTime`, `MaxWrites`, `MaxAdds`, `Releases`, `Targets`, `LastDay`. Deadlock is not checked: with the ids used up or no
client asking, the system rightly stops.

**Symmetry** is used in safety runs only, over values the modules treat alike.

**Fairness.** Weak fairness of each request's own steps: the event loop resumes every
coroutine whose awaited answer has come, and PostgreSQL wakes the waiter of a lock that
is released. Nothing makes clients send requests, clocks tick, sessions expire or
processes crash. `Sessions`, `EmployeeRecords` and `Dismissal` state it; their
`RequestsEnd` says that whoever waits is answered. `Sessions` needs no more than weak fairness, because
waiting is always for a request that itself goes on. `EmployeeRecords` and `Dismissal` take strong fairness of
the requests' steps: under weak fairness a client that deletes an employee again and again, and
is each time the victim of a deadlock, keeps others from the rows for ever; PostgreSQL
grants a lock to those who wait in their order, so the new deletion queues behind them. Failures
are left out of the fairness (`OffGoesOn`, `DelStep`), so that no request ends only because S3 or
Redis fails. The scan of a deletion in `Sessions`
ends because every key is visited once and the keys are finite in number; with an endless
stream of logins Redis's own guarantee (SCAN ends if the set of keys stays bounded) is needed. The
scan of a QR code waits for nobody. `BreakDeadlock` is weakly fair because PostgreSQL looks for a circle whenever
somebody has waited for `deadlock_timeout`. What is proved of waiting, for any number of
requests, is in section 5, *Waits*.

## 4. Properties

*TimeClock.* `SupersededCodeIsDead` and `OpenEntriesOverlap` say precisely how far the
handlers protect themselves without locks: whatever a request could see is dealt with, so
two live codes or two open entries are always the work of overlap (or of a PATCH). `StampsInOrder`
rests on the clock being read last, `PunchesUseLiveCodes` on the code being judged in one
SELECT. `OnlyOverlapsOverwrite`: a scan writes an entry by its id, statements after it has read it, and may
overwrite the check-out of a scan that overlaps it, but never an entry that was closed when it
came in (unless an admin has edited it). `AtMostOneOpenEntry`, `AtMostOneLiveCode`, `ClosedEntriesAreFinal` and
`ImplementsClock` hold for clients that wait.

*Sessions.* `BarredUsersStayOut`, `EndedSessionsStayShut`: judged at the request's
arrival, since a logout during the request is too late. `KeysNameTheirOwner`: the key
of a failed registration. `RevocationComplete`: of the sessions there when the scan
began. `RequestsEnd`: registrations that wait for each other's unique values, and
deletions that scan while logins add keys, end.

*EmployeeRecords.* `ReplacedDaysAreGone`, `SnapshotUnlessOvertaken` for overlapping
PATCHes, `AnsweredPatchHolds`, `ImplementsRoster` for one after the
other. `RequestsEnd`: whoever waits for a row, for an index entry or in a circle is answered; an INSERT
that collides with a committed row fails and does not wait for it to go.

*Payroll.* `BaseIsTheMonths` compares all three calculations with `Worth`, which counts
hours instead of subtracting times. `UnamendedCountOnce` follows
single adjustments through overlapping writes. `PastStaysPaid`: the base of a what-if is that of some
of the month's days, from which none is missing that it was not asked to leave out or that was past when it was asked; it
compares days and not sums, because a day may be paid less than nothing.

*Avatars.* `ShownAvatarExists` and `NothingLeftBehind`, each with exactly the exceptions
that the code does not handle (a failure half-way, an old or shared key in a body,
overlap, a PATCH): they are the list of ways in which the two stores come apart.

*Dismissal.* `DismissedForGood`: after a 204 nothing is left in the tables, nor the avatar in S3, and nothing
comes back, whatever inserts, deletions and failures came between the steps (an upload that comes between is in `Avatars`). `FailsOnlyWhenOvertaken`: a deletion never forgets a row that was there when
its DELETEs began, so a foreign key fails only because of one inserted since.
`RequestsEnd`: with two orders of tables and inserts that share the profile.

*Migrations.* `SchemaIsTheRevisions`: after any commands, finished or aborted, the columns are
those of the revision the database is at, and at the head those of `models.py`.
`RoundTripsKeep`: no word of a name is lost or moved between `full_name` and its three
parts, and every other value survives unless a downgrade dropped its column.
`FailsOnlyOnLength`: an upgrade never fails; a downgrade does where a contact is longer than 20
or a part of a name longer than 100.

*Reports.* `UntouchedAreExact`: an employee whom nobody writes while a report is made is in it
exactly if he belongs there, with exactly what is due, whatever is written of
others. `PartsInOrder`: of the others each part is of a moment since the request came in, never an
earlier one than the part before, and a list's bonuses and fines are of one moment.

### What the code does not keep

- Two overlapping scans of one employee both check in, and every later scan fails with
  500 (`qr.py:112`), run `clock_double_scan`. A PATCH with `check_out: null`, one
  after the other, leads to the same.
- Two overlapping scans that both check out write one entry, and the later commit's time stays
  (`qr.py:130`): the exception in `OnlyOverlapsOverwrite`.
- Two overlapping PATCHes of one schedule that list the same dates in different order can deadlock
  (`employees.py:352`): one of the two is answered with 500.
- Two overlapping generators leave two live codes and `GET /qr/active` fails
  (`qr.py:151`): the exception in `SupersededCodeIsDead`. `AtMostOneLiveCode` holds only in
  `clock_serial`.
- Two overlapping PATCHes write schedule days at a rate that never was
  (`employees.py:477`): the exception in `SnapshotUnlessOvertaken`.
- An adjustment whose type or amount is amended while a salary is calculated may be counted
  twice or not at all (`statistics.py:74`): `UnamendedCountOnce` is about the others.
- A deletion that an insert overtakes has already lost the sessions and the avatar when
  it fails (`employees.py:508`): the employee is still there.
- The panel's deletion leaves the object in S3, and the session keys until they expire.
- The statistics leave deactivated employees out, the list has them; a summary adds amounts
  of different currencies (`statistics.py`).
- A downgrade below revision 2 fails on a company whose contact is a name longer than 20, and
  below 4 on a long word in a name; one that goes below 6 and comes back prices past days at
  today's rate.
- The repository's `README.md:98` says of the panel "Только чтение таблиц" (tables are only read);
  `admin.py` registers full ModelAdmins, which create, change and delete.

## 5. Proofs

Each theorem holds for every value of the constants under the module's assumption, which
asks of them what the code's types give: ids and requests are any sets (finite where a
bound counts them), dates and times are natural numbers, amounts integers. Each rests on an inductive
invariant: it holds at first, every action keeps it (one lemma per action or kind of
action), and it implies the property. TLC has checked the invariants before they were proved.

**`TimeClockProofs`**: all that `clock_concurrent` and `clock_serial` check.

| Theorem | Statement | Inductive invariant |
|---|---|---|
| `TypeCorrect` | `Spec => []TypeOK` | `TypeOK`, which says that a request under way names its employee, code or entry |
| `SupersededCodesStayDead` | `[]SupersededCodeIsDead` | `CodesInv /\ GeneratorsInv`: a generator that has read holds every active code it knows, and only stored rows are known, so a new row is in nobody's past |
| `PunchesAreLive` | `[]PunchesUseLiveCodes` | with `PunchInv`: a spent code stays spent (never reactivated, its expiry fixed, the clock going forward) |
| `OpenEntriesAreConcurrent` | `[]OpenEntriesOverlap` | `OverlapInv`: what a scan about to insert has seen is closed, and stays so unless edited |
| `StampsStayInOrder` | `[]StampsInOrder` | `StampInv`: the entry a scan is to close was checked in before it read the clock |
| `OverwritesOverlap` | `Spec => OnlyOverlapsOverwrite` | `ShutInv`: of the entries that were closed when a scan came in those that are open again were edited, so the one it has read as open is none of them or was edited |
| `ClosedStaysClosed` | `Serial`: `Spec => ClosedEntriesAreFinal` | `HeldInv`: a scan between its SELECT and its commit holds an entry of its own employee, which is open unless somebody has edited it |
| `SerialScansOpenOne`, `SerialGeneratorsLeaveOne` | `Serial /\ NoReopening`: at most one open entry, one live code | `OneAtATime /\ SingleInv /\ OldsInv`: one request at a time, so what it read still holds at the commit |
| `ClockIsAPunchClock` | `Serial /\ NoReopening => (Spec => ImplementsClock)` | the same, with one lemma per kind of step: it is a `ClockIn`, a `ClockOut`, an `Issue` or a stutter |

`Serial` (clients wait for their answers) and `NoReopening` (no PATCH body sets `check_out` to
null) cannot be dropped: without either, TLC finds the property violated.

**`SessionsProofs`**: all that `sessions_safety` checks. `IInv` is `TypeOK` and

- `LoginInv`, `RegInv`: a login that is about to mint names a user who was in the table; a
  registration has its uncommitted account, and the key it has minted for it, to itself;
- `KeyInv`: a key names an account whose id was given, under the e-mail it was asked with, and
  clients have cookies of committed accounts only;
- `CallInv`: what a request has found in Redis, and why those it must be kept from are not let in;
- `OffInv`, `ListedInv`: the keys that a deletion found are dead or still to be visited, and dead when it is over.

| Theorem | Statement |
|---|---|
| `SessionsTyped` | `[]TypeOK` |
| `BarredNeverGetIn`, `EndedNeverOpen` | `[]BarredUsersStayOut`, `[]EndedSessionsStayShut` |
| `NoKeyChangesHands` | `[]KeysNameTheirOwner`: rests on ids that a rollback does not give back |
| `RevokedForGood` | `[]RevocationComplete` |
| `OnlyForward` | `[][AccountsGoForward /\ KeysGoForward]_vars`: no step gives an id or a key again, revives one, or changes whose it is |
| `IndexesAreUnique` | `[]UniqueInv`: no two accounts, open registrations' included, have one e-mail, no two companies one; the guards `EmailLocked` and `FirmLocked` do what the unique indexes do |

**`EmployeeRecordsProofs`**: all that the two `records` runs check but `RequestsEnd`; *Waits* below has what is proved of the locks.

| Theorem | Statement | Inductive invariant |
|---|---|---|
| `RecordsTyped` | `[]TypeOK` | `CapInv`: there is a number left for every PATCH in flight; `ProfileInv`: who was hired has a rate |
| `ReplacedForGood` | `[]ReplacedDaysAreGone` | `RowsInv`: the rows that a DELETE has found are whole schedules, so that of a write it has seen none stays; `NumbersInv`: numbers seen are those of writes that are over |
| `OnlyTheOvertakenMix` | `[]SnapshotUnlessOvertaken` | `PatchInv`: a PATCH that has not been overtaken holds what its body says and for the rest what the profile still says |
| `LocksStayExclusive` | `[]LocksAreExclusive`: the user row, the profile, a row of the schedule and an entry of its index are one request's at a time | `IndexInv`: an inserted, not committed row is alone at its date, whose committed row, if any, its PATCH has deleted; with `ProgressInv` and `OffInv`: a DELETE that is at its end has all the rows that it found |
| `AnsweredInFull` | `Serial => (Spec => AnsweredPatchHolds)` | with `SerialInv`: one PATCH of an employee at a time, so none is overtaken, and what its DELETE has found is all there is |
| `RosterImplemented` | `Serial => (Spec => ImplementsRoster)` | the same; every step is one of `Roster` or none |

The type proof found that the bound of `CreateEmployee` left out the PATCHes in flight; `RoomToWrite` counts them.
`LocksStayExclusive` says that the guards which stand for PostgreSQL's locks are locks.

**`AvatarsProofs`**: `AvatarsTyped`, `ShownIsThere` (`[]ShownAvatarExists`) and
`NothingIsLeft` (`[]NothingLeftBehind`). `IInv` says what a request holds at each step
(`RequestInv`), that only employees who are there have a key (`RowInv`), and where an object can be: nobody
knows one that was not given (`UnusedInv`); a key that no body has used again is in one row, or
in what one request is to write (`PlaceInv`); what is shown or to be written is in the bucket, or a request has deleted
it and is about to write so, or has failed to (`ShownInv`); an employee whose requests came one after the other has
one object, that of the row or the one that the request leaves (`OrderInv`).

**`ReportsProofs`**: `ReportsTyped`, `UntouchedAreExactAlways`, `PartsAlwaysInOrder`. `IInv` says of each
request which employees it still has to read (`Shape`), that of those nobody has written it holds exactly
what is due (`Exact`), and of the others parts of moments in order (`Ordered`).

**`PayrollProofs`**

| Theorem | Statement | Inductive invariant |
|---|---|---|
| `CountedOnce` | `[]UnamendedCountOnce` | `IInv`: what nobody has written is still there, and was counted, or will be, as of the month the rest is read of |
| `PayrollTyped` | `[]TypeOK` | `BaseInv`: every sum taken so far is a number, every reading was taken between arrival and now |
| `BasesAreTheMonths` | `[]BaseIsTheMonths` | with `Based` and `Loaded`: unless the schedule was replaced, what was read is what is still there; the month that the clock shows last is among those loaded, because the month turns once at most |
| `PastIsPaid` | `[]PastStaysPaid` | the same: the day that a what-if compares with is not before its arrival |

The sums of the code and of the reference are defined by recursion over sets (`MapThenSumSet`).
That such a sum exists, is the only one and is a number is shown without induction over data: of the subsets for which it
failed one would have no smaller one (`Smallest`, by the well-foundedness of strict inclusion), and that one leads
to a contradiction. `WorkedHours` shows that subtracting times counts the hours that begin in a row, also over midnight.

**`DismissalProofs`**

| Theorem | Statement | Inductive invariant |
|---|---|---|
| `DismissalTyped` | `[]TypeOK` | `IdInv`: ids are not above what was added, and those who have checked have room to add theirs |
| `DismissalIsForGood` | `[]DismissedForGood` | `ReferInv`: rows refer to a profile that is there; whoever inserts and whoever deletes the profile exclude each other, so a deletion that is about to commit has every row; with `PlaceInv`: the API deletes the user as well, and the avatar before anything else |
| `OnlyTheOvertakenFail` | `[]FailsOnlyWhenOvertaken` | `FoundInv`: a deletion that nobody has overtaken has all rows of each table whose DELETE has begun |

**`MigrationsProofs`**

| Theorem | Statement | Inductive invariant |
|---|---|---|
| `MigrationsTyped` | `[]TypeOK` | `IInv`: what is committed and what the command sees have the schema of their revision (`Shape`) |
| `SchemaFollowsRevision` | `[]SchemaIsTheRevisions` | the same |
| `RoundTripsAlwaysKeep` | `[]RoundTripsKeep` | `KInv`: every row has the columns of its revision, filled as they must be and none too long (`RowsGood`); what is committed, and what the command sees if it were, keep what was written (`RowsKeep`) |
| `DowngradesFailOnlyOnLength` | `[]FailsOnlyOnLength` | the same: good rows go up and stay good (`UpGood`), and go down unless a text is too long (`DownGood`) |

The columns are split into groups that revisions add and drop together
(`Groups`: the groups are apart), so that each step comes down to adding or removing a group; `SchemaAt`'s recursive definition is
shown to have a solution by giving it. A downgrade is the way back (`DownIsUpBack`), whatever path led up.
That the transaction of a command keeps what was written, not only the database, is needed because several revisions
run before it commits; `low` lags behind it, so the lower of `low` and the transaction's revision counts (`Lower`).
Texts are of any words and any lengths: a text's length is the number of its letters and of the spaces between its
words (`ConcatLen`, `CutLen`, `TrimmedLen`), its words are compared as numbered (`ConcatNumbered`, `TrimmedWords`); with
that `JoinedIs` and `SplitIs` say what becomes of a name on its way up and down, and that three parts which fit give a
name that fits. It is assumed (`MigrationsAssumption`, `RowsAssumption`) that NULL is no text, that no row is a missing
one, and that releases before revision 4 write a name in parts.

**Waits.** No theorem can say here that a request ends, but who can wait for whom is a matter of safety. `...GoesOn`, in
`SessionsProofs` and `DismissalProofs`, are the guards of a request's next step. The theorems say:

| Theorem | Statement | Why |
|---|---|---|
| `RegistrationsNeverStuck` (`SessionsProofs`) | `FiniteIds => (Spec => []RegistrationsGoOn)`: a registration goes on, or waits for one that goes on, or for one that waits for such a one | all insert the company before the user, and who has inserted both waits for nobody; every uncommitted row is the row of an open registration (`PendingInv`), and there are ids for those who need one (`UserRoom`) |
| `CirclesStayOverRows` (`EmployeeRecordsProofs`) | `[]CirclesAreOverRows`: in a circle of waiting requests, of any size, a PATCH is at a row or an index entry of the schedule, or waits for the profile of a deletion in the circle that waits for its user row; a circle of PATCHes alone is over rows and entries only | what is taken before is taken in one order, user and then profile (`Apart`); who has all its rows waits for deletions only |
| `DismissalNeverStuck`, `OnlyPairsDeadlock` (`DismissalProofs`) | `[]WaitsEnd`: one deletion or insert goes on, or two deletions wait for each other; `[]WaitsAreShort`: three waits in a row come back to where they were two before, or end at a deletion that goes on | rows of a table have one deletion that holds them (`RowsAreExclusive`); two that wait for each other have different orders, and there are only two (`OrdersDiffer`) |

In `Dismissal`, `BreakDeadlock` breaks pairs only; by `OnlyPairsDeadlock` there are no other circles there, and also with more
requests than a run has there is always one that goes on. In `EmployeeRecords` it breaks a circle of any length:
several PATCHes can close one over the rows and the index entries that they take in different orders, and
`CirclesStayOverRows` says where circles can be. TLC found each `...GoesOn` equal to ENABLED of the
steps that it stands for, in every state of instances as small as those of the runs. `FiniteIds` asks that the ids of the bound
`RoomForUser` and the requests that it counts are finitely many.
`RecordsAssumption` asks that no request is both a PATCH and a deletion.

Only model-checked: the three `RequestsEnd`, which need fairness, outside TLAPS. What is proved of them is in
*Waits*; of `EmployeeRecords` it is where requests can wait in a circle, not that one always goes on.

## 6. Not modelled

Passwords and cookies; search filters, wording and layout; whose company a row is of,
outside of `TimeClock` and `Reports`; fractions of hours and their rounding (`statistics.py:18` divides
floats); overlapping PATCHes of a company, which behave as those of an employee do; the panel's forms of
companies, codes, days and entries, and Django's own tables; indexes and server defaults of the
schema, and the DDL's locks (`Migrations` assumes that the application waits while a command runs); two
Alembic commands at once; validation and serialisation of bodies (`schemas/`); start-up and
shutdown, bcrypt, QR images: pure I/O and libraries.

## 7. Plan

1. Done: `TimeClock` with `PunchClock`, `Sessions`, `EmployeeRecords` with `Roster`, `Payroll`,
   `Avatars`, `Dismissal`, `Migrations`, `Reports`, and the proofs about each.
2. Left to model: the panel's forms of codes, days and entries next to the API's handlers
   (a code reactivated, an entry moved to another employee).
