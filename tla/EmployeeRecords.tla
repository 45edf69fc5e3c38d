-------------------------- MODULE EmployeeRecords --------------------------
(***************************************************************************)
(* An employee's pay rate and work schedule (api/routers/employees.py):    *)
(* the row in employee_profile, the rows in schedule, each with a copy of  *)
(* the rate, and the PATCH requests that rewrite them.                     *)
(*                                                                         *)
(* A PATCH sets attributes on what it loaded, then replaces the schedule   *)
(* with a DELETE and INSERTs. PostgreSQL runs it at READ COMMITTED: the    *)
(* DELETE takes the rows committed when it starts, one by one in no        *)
(* promised order, waits for one that another transaction has deleted and  *)
(* not committed, and does not look again. The INSERTs go in the order of  *)
(* the body and wait, at the unique index in employee and date, for a row  *)
(* that another transaction has inserted or deleted and not committed. The *)
(* ORM flushes the profile before the DELETE and names in its UPDATE the   *)
(* columns whose value is not the one it loaded.                           *)
(*                                                                         *)
(* The remaining columns (name, phone, position, avatar key, currency)     *)
(* behave as the two of the rate. What is_active does is in Sessions; the  *)
(* lock that its UPDATE takes of the user row is here.                     *)
(***************************************************************************)
EXTENDS Naturals, FiniteSets

CONSTANTS
    Employee, Date, RateType, Amount,
    PatchReq, OffReq,   \* update_employee and delete_employee requests in flight
    Null, Keep,
    Bodies,         \* the PATCH bodies that admins send
    Plans,          \* the sets of dates that a new employee comes with
    Serial,         \* TRUE: an admin waits for an answer before the next PATCH
    MaxWrites       \* bound: schedules and rates written in all

Body == [type : RateType \cup {Keep}, amount : Amount \cup {Keep},
         dates : (SUBSET Date) \cup {Keep},
         active : BOOLEAN]      \* is_active changes

ASSUME RecordsAssumption ==
    /\ Null \notin RateType /\ Null \notin Amount /\ Null \notin Employee
    /\ Keep \notin RateType /\ Keep \notin Amount /\ Null \notin Date
    /\ Bodies \subseteq Body
    /\ Plans \subseteq SUBSET Date
    /\ Serial \in BOOLEAN
    /\ MaxWrites \in Nat
    /\ IsFiniteSet(PatchReq) /\ IsFiniteSet(OffReq) /\ PatchReq \cap OffReq = {}

VARIABLES
    profile,    \* table employee_profile
    sched,      \* table schedule: unique in employee and date
    patch, off, \* requests
    writes,     \* commits so far: names the one that wrote a row
    had         \* ghost: the rates that an employee's profile has had

vars == <<profile, sched, patch, off, writes, had>>

Rate == RateType \X Amount
Id == 0..MaxWrites

Profile == [st : {"none", "row", "gone"},
            type : RateType \cup {Null}, amount : Amount \cup {Null}]

DayRow == [type : RateType, amount : Amount, id : Id,
           seen : SUBSET Id,        \* ghost: whose rows its DELETE could see
           overtaken : BOOLEAN]     \* ghost: a PATCH committed between its load and commit

Patch == [pc : {"idle", "loaded", "user", "flushed", "deleting", "inserting", "inserted"},
          emp : Employee \cup {Null}, body : Body,
          type : RateType \cup {Null},          \* the attributes, as set
          amount : Amount \cup {Null},
          dirty : SUBSET {"type", "amount"},    \* what the UPDATE names
          rows : SUBSET (Date \X Id),           \* what the DELETE found
          at : Date \cup {Null},                \* the row it is at, and the ones
          done : SUBSET Date,                   \* that this statement has behind it
          overtaken : BOOLEAN,
          ok : BOOLEAN]                         \* ghost: the last answer was 200

Off == [pc : {"idle", "rows", "profile", "user"}, emp : Employee \cup {Null},
        rows : SUBSET (Date \X Id), at : Date \cup {Null}, done : SUBSET Date]

\* A missing value is no value.
ASSUME NullAssumption == Null \notin Rate /\ Null \notin DayRow

NoBody == [type |-> Keep, amount |-> Keep, dates |-> Keep, active |-> FALSE]

Idle == [pc |-> "idle", emp |-> Null, body |-> NoBody, type |-> Null, amount |-> Null,
         dirty |-> {}, rows |-> {}, at |-> Null, done |-> {}, overtaken |-> FALSE,
         ok |-> FALSE]

IdleOff == [pc |-> "idle", emp |-> Null, rows |-> {}, at |-> Null, done |-> {}]

TypeOK ==
    /\ profile \in [Employee -> Profile]
    /\ sched \in [Employee -> [Date -> DayRow \cup {Null}]]
    /\ patch \in [PatchReq -> Patch]
    /\ off \in [OffReq -> Off]
    /\ writes \in Id
    /\ had \in [Employee -> SUBSET Rate]

Init ==
    /\ profile = [e \in Employee |-> [st |-> "none", type |-> Null, amount |-> Null]]
    /\ sched = [e \in Employee |-> [d \in Date |-> Null]]
    /\ patch = [r \in PatchReq |-> Idle]
    /\ off = [r \in OffReq |-> IdleOff]
    /\ writes = 0
    /\ had = [e \in Employee |-> {}]

----------------------------------------------------------------------------
\* Variant: model_dump() without exclude_unset.
Value_Unset(given, loaded) == given

Value(given, loaded) == IF given = Keep THEN loaded ELSE given

Patching == {q \in PatchReq : patch[q].pc # "idle"}

\* Bound: a PATCH that has begun is sure of a number.
RoomToWrite == writes + Cardinality(Patching) < MaxWrites

RowsOf(e) == {<<d, sched[e][d].id>> : d \in {x \in Date : sched[e][x] # Null}}

DatesOf(rows) == {x[1] : x \in rows}

\* What a statement turns to: any of what is left, Null at its end.
NextOf(D) == IF D = {} THEN {Null} ELSE D

(***************************************************************************)
(* Locks, each held until the request ends.                                *)
(***************************************************************************)
Request == PatchReq \cup OffReq

\* The PATCHes whose UPDATE has the user row,
UserHolders(e) ==
    {q \in PatchReq : /\ patch[q].emp = e /\ patch[q].body.active
                      /\ patch[q].pc \notin {"idle", "loaded"}}

\* those whose UPDATE has the profile row, and the deletions that have deleted it,
Updaters(e) ==
    {q \in PatchReq : /\ patch[q].emp = e /\ patch[q].dirty # {}
                      /\ patch[q].pc \notin {"idle", "loaded", "user"}}
Removers(e) == {q \in OffReq : off[q].emp = e /\ off[q].pc = "user"}

\* those whose INSERTs have it FOR KEY SHARE, which only a deletion minds,
ProfileSharers(e) ==
    {q \in PatchReq : patch[q].emp = e /\ patch[q].pc = "inserted" /\ patch[q].body.dates # {}}

\* The row that the table has at d is one of these.
Found(rows, e, d) == sched[e][d] # Null /\ <<d, sched[e][d].id>> \in rows

\* the requests that have deleted it,
Deleters(e, d) ==
    {q \in PatchReq : /\ patch[q].emp = e /\ Found(patch[q].rows, e, d)
                      /\ patch[q].pc = "deleting" => d \in patch[q].done}
      \cup {q \in OffReq : /\ off[q].emp = e /\ Found(off[q].rows, e, d)
                           /\ off[q].pc = "rows" => d \in off[q].done}

\* and the PATCHes that have inserted one.
Inserters(e, d) ==
    {q \in PatchReq : /\ patch[q].emp = e /\ d \in patch[q].done
                      /\ patch[q].pc \in {"inserting", "inserted"}}

\* The UPDATE of the user, if there is one, has gone out, the one of the profile has not.
ProfileNext(r) == patch[r].pc = IF patch[r].body.active THEN "user" ELSE "loaded"

PatchWaitsFor(r) ==
    LET e == patch[r].emp
        d == patch[r].at
    IN {q \in Request \ {r} :
          \/ patch[r].pc = "loaded" /\ patch[r].body.active /\ q \in UserHolders(e)
          \/ ProfileNext(r) /\ patch[r].dirty # {} /\ q \in Updaters(e) \cup Removers(e)
          \/ /\ patch[r].pc = "deleting" /\ d # Null /\ Found(patch[r].rows, e, d)
             /\ q \in Deleters(e, d)
          \/ /\ patch[r].pc = "inserting" /\ d # Null
             /\ q \in Deleters(e, d) \cup Inserters(e, d)
          \/ /\ patch[r].pc = "inserting" /\ d = Null /\ patch[r].body.dates # {}
             /\ q \in Removers(e)}

OffWaitsFor(r) ==
    LET e == off[r].emp
        d == off[r].at
    IN {q \in Request \ {r} :
          \/ off[r].pc = "rows" /\ d # Null /\ Found(off[r].rows, e, d) /\ q \in Deleters(e, d)
          \/ /\ off[r].pc = "profile"
             /\ q \in Updaters(e) \cup Removers(e) \cup ProfileSharers(e)
          \/ off[r].pc = "user" /\ q \in UserHolders(e)}

WaitsFor(r) == IF r \in PatchReq THEN PatchWaitsFor(r) ELSE OffWaitsFor(r)

\* Variant: the amount is left out of the UPDATE.
Updated_TypeOnly(r) ==
    [profile[patch[r].emp] EXCEPT
        !.type = IF "type" \in patch[r].dirty THEN patch[r].type ELSE @]

Updated(r) ==
    [profile[patch[r].emp] EXCEPT
        !.type = IF "type" \in patch[r].dirty THEN patch[r].type ELSE @,
        !.amount = IF "amount" \in patch[r].dirty THEN patch[r].amount ELSE @]

\* POST /employees: the rows are all new, nobody else sees them yet.
CreateEmployee(e, t, a, D) ==
    /\ profile[e].st = "none" /\ RoomToWrite
    /\ profile' = [profile EXCEPT ![e] = [st |-> "row", type |-> t, amount |-> a]]
    /\ sched' = [sched EXCEPT ![e] = [d \in Date |-> IF d \in D
          THEN [type |-> t, amount |-> a, id |-> writes + 1, seen |-> {},
                overtaken |-> FALSE]
          ELSE Null]]
    /\ writes' = writes + 1
    /\ had' = [had EXCEPT ![e] = {<<t, a>>}]
    /\ UNCHANGED <<patch, off>>

(***************************************************************************)
(* PATCH /employees/{id}                                                   *)
(***************************************************************************)
PatchLoad(r, e, b) ==
    /\ patch[r].pc = "idle"
    /\ profile[e].st = "row"
    /\ Serial => \A q \in Patching : patch[q].emp # e
    /\ RoomToWrite
    /\ patch' = [patch EXCEPT ![r] =
          [pc |-> "loaded", emp |-> e, body |-> b,
           type |-> Value(b.type, profile[e].type),
           amount |-> Value(b.amount, profile[e].amount),
           dirty |-> {f \in {"type", "amount"} : b[f] \notin {Keep, profile[e][f]}},
           rows |-> {}, at |-> Null, done |-> {}, overtaken |-> FALSE, ok |-> FALSE]]
    /\ UNCHANGED <<profile, sched, off, writes, had>>

\* A flush, before the DELETE or the COMMIT, starts with the user.
PatchUser(r) ==
    /\ patch[r].pc = "loaded" /\ patch[r].body.active
    /\ PatchWaitsFor(r) = {} /\ profile[patch[r].emp].st = "row"
    /\ patch' = [patch EXCEPT ![r].pc = "user"]
    /\ UNCHANGED <<profile, sched, off, writes, had>>

\* _replace_schedule's DELETE flushes the profile first.
PatchFlush(r) ==
    /\ ProfileNext(r) /\ patch[r].body.dates # Keep
    /\ patch[r].dirty # {} => PatchWaitsFor(r) = {} /\ profile[patch[r].emp].st = "row"
    /\ patch' = [patch EXCEPT ![r].pc = "flushed"]
    /\ UNCHANGED <<profile, sched, off, writes, had>>

PatchDelete(r) ==
    LET rows == RowsOf(patch[r].emp) IN
    /\ patch[r].pc = "flushed"
    /\ \E d \in NextOf(DatesOf(rows)) :
          patch' = [patch EXCEPT ![r] = [@ EXCEPT !.pc = "deleting", !.rows = rows, !.at = d]]
    /\ UNCHANGED <<profile, sched, off, writes, had>>

\* A row is deleted here, or was by one who has committed.
PatchTakes(r) ==
    /\ patch[r].pc = "deleting" /\ patch[r].at # Null
    /\ PatchWaitsFor(r) = {}
    /\ \E d \in NextOf(DatesOf(patch[r].rows) \ (patch[r].done \cup {patch[r].at})) :
          patch' = [patch EXCEPT ![r] =
             [@ EXCEPT !.done = patch[r].done \cup {patch[r].at}, !.at = d]]
    /\ UNCHANGED <<profile, sched, off, writes, had>>

\* The flush: the INSERTs, in the order of the body.
PatchDeleted(r) ==
    /\ patch[r].pc = "deleting" /\ patch[r].at = Null
    /\ \E d \in NextOf(patch[r].body.dates) :
          patch' = [patch EXCEPT ![r] = [@ EXCEPT !.pc = "inserting", !.done = {}, !.at = d]]
    /\ UNCHANGED <<profile, sched, off, writes, had>>

\* The new row collides with one that the DELETE has not taken.
Collides(r) ==
    LET e == patch[r].emp
        d == patch[r].at
    IN sched[e][d] # Null /\ ~Found(patch[r].rows, e, d)

PatchInserts(r) ==
    /\ patch[r].pc = "inserting" /\ patch[r].at # Null
    /\ PatchWaitsFor(r) = {} /\ ~Collides(r)
    /\ \E d \in NextOf(patch[r].body.dates \ (patch[r].done \cup {patch[r].at})) :
          patch' = [patch EXCEPT ![r] =
             [@ EXCEPT !.done = patch[r].done \cup {patch[r].at}, !.at = d]]
    /\ UNCHANGED <<profile, sched, off, writes, had>>

\* The foreign key of the new rows is checked when all of them are in.
PatchInserted(r) ==
    /\ patch[r].pc = "inserting" /\ patch[r].at = Null
    /\ PatchWaitsFor(r) = {}
    /\ patch[r].body.dates # {} => profile[patch[r].emp].st = "row"
    /\ patch' = [patch EXCEPT ![r].pc = "inserted"]
    /\ UNCHANGED <<profile, sched, off, writes, had>>

\* Variant: days that the body does not name stay.
NewSchedule_KeepsDays(r) ==
    LET e == patch[r].emp IN
    [d \in Date |->
       IF d \in patch[r].body.dates
       THEN [type |-> patch[r].type, amount |-> patch[r].amount, id |-> writes + 1,
             seen |-> {x[2] : x \in patch[r].rows}, overtaken |-> patch[r].overtaken]
       ELSE sched[e][d]]

\* Variant: the rate type is the one loaded, the amount the one set.
NewSchedule_LoadedType(r) ==
    LET e == patch[r].emp IN
    [d \in Date |->
       IF d \in patch[r].body.dates
       THEN [type |-> profile[e].type, amount |-> patch[r].amount, id |-> writes + 1,
             seen |-> {x[2] : x \in patch[r].rows}, overtaken |-> patch[r].overtaken]
       ELSE IF Found(patch[r].rows, e, d) THEN Null ELSE sched[e][d]]

NewSchedule(r) ==
    LET e == patch[r].emp IN
    [d \in Date |->
       IF d \in patch[r].body.dates
       THEN [type |-> patch[r].type, amount |-> patch[r].amount, id |-> writes + 1,
             seen |-> {x[2] : x \in patch[r].rows}, overtaken |-> patch[r].overtaken]
       ELSE IF Found(patch[r].rows, e, d) THEN Null ELSE sched[e][d]]

\* COMMIT, with the UPDATE if it has not gone out yet.
Committed(r) ==
    LET e == patch[r].emp IN
    /\ profile' = [profile EXCEPT ![e] = Updated(r)]
    /\ had' = [had EXCEPT ![e] = @ \cup {<<Updated(r).type, Updated(r).amount>>}]
    /\ writes' = writes + 1
    /\ patch' = [q \in PatchReq |->
          IF q = r THEN [Idle EXCEPT !.ok = TRUE]
          ELSE [patch[q] EXCEPT !.overtaken = @ \/ patch[q].emp = e]]

PatchCommitSchedule(r) ==
    /\ patch[r].pc = "inserted"
    /\ profile[patch[r].emp].st = "row"
    /\ sched' = [sched EXCEPT ![patch[r].emp] = NewSchedule(r)]
    /\ Committed(r)
    /\ UNCHANGED off

PatchCommitRate(r) ==
    /\ ProfileNext(r) /\ patch[r].body.dates = Keep
    /\ PatchWaitsFor(r) = {}
    /\ profile[patch[r].emp].st = "row"
    /\ Committed(r)
    /\ UNCHANGED <<sched, off>>

\* 500
Answered(r) == [patch EXCEPT ![r] = Idle]

\* The profile is gone: StaleDataError, the foreign key, or the refresh after the commit.
LostProfile(r) ==
    /\ \/ patch[r].pc \in {"loaded", "user", "inserted"}
       \/ patch[r].pc = "inserting" /\ patch[r].at = Null /\ patch[r].body.dates # {}
    /\ profile[patch[r].emp].st # "row"

\* Variant: an INSERT that collides with a committed row waits for it to go.
PatchFails_NoCollision(r) ==
    /\ LostProfile(r)
    /\ patch' = Answered(r)
    /\ UNCHANGED <<profile, sched, off, writes, had>>

\* 500: the profile is gone, or the unique index on (employee_id, date).
PatchFails(r) ==
    /\ \/ LostProfile(r)
       \/ /\ patch[r].pc = "inserting" /\ patch[r].at # Null
          /\ PatchWaitsFor(r) = {} /\ Collides(r)
    /\ patch' = Answered(r)
    /\ UNCHANGED <<profile, sched, off, writes, had>>

PatchStep(r) ==
    \/ PatchUser(r) \/ PatchFlush(r)
    \/ PatchDelete(r) \/ PatchTakes(r) \/ PatchDeleted(r)
    \/ PatchInserts(r) \/ PatchInserted(r)
    \/ PatchCommitSchedule(r) \/ PatchCommitRate(r) \/ PatchFails(r)

(***************************************************************************)
(* DELETE /employees/{id}: the schedule rows first, then the profile, then *)
(* the user, in one transaction. A row that a PATCH has inserted in        *)
(* between keeps the profile, by its foreign key.                          *)
(***************************************************************************)
OffDeletesRows(r, e) ==
    /\ off[r].pc = "idle"
    /\ profile[e].st = "row"
    /\ \E d \in NextOf(DatesOf(RowsOf(e))) :
          off' = [off EXCEPT ![r] =
             [pc |-> "rows", emp |-> e, rows |-> RowsOf(e), at |-> d, done |-> {}]]
    /\ UNCHANGED <<profile, sched, patch, writes, had>>

OffTakes(r) ==
    /\ off[r].pc = "rows" /\ off[r].at # Null
    /\ OffWaitsFor(r) = {}
    /\ \E d \in NextOf(DatesOf(off[r].rows) \ (off[r].done \cup {off[r].at})) :
          off' = [off EXCEPT ![r] = [@ EXCEPT !.done = off[r].done \cup {off[r].at}, !.at = d]]
    /\ UNCHANGED <<profile, sched, patch, writes, had>>

OffHasRows(r) ==
    /\ off[r].pc = "rows" /\ off[r].at = Null
    /\ off' = [off EXCEPT ![r].pc = "profile"]
    /\ UNCHANGED <<profile, sched, patch, writes, had>>

OffHasProfile(r) ==
    /\ off[r].pc = "profile"
    /\ OffWaitsFor(r) = {}
    /\ RowsOf(off[r].emp) \subseteq off[r].rows
    /\ off' = [off EXCEPT ![r].pc = "user"]
    /\ UNCHANGED <<profile, sched, patch, writes, had>>

OffCommit(r) ==
    LET e == off[r].emp IN
    /\ off[r].pc = "user"
    /\ OffWaitsFor(r) = {}
    /\ profile' = [profile EXCEPT ![e].st = "gone"]
    /\ sched' = [sched EXCEPT ![e] = [d \in Date |-> Null]]
    /\ off' = [off EXCEPT ![r] = IdleOff]
    /\ UNCHANGED <<patch, writes, had>>

\* 500: the foreign key of schedule.
OffFails(r) ==
    /\ off[r].pc = "profile"
    /\ OffWaitsFor(r) = {}
    /\ ~ RowsOf(off[r].emp) \subseteq off[r].rows
    /\ off' = [off EXCEPT ![r] = IdleOff]
    /\ UNCHANGED <<profile, sched, patch, writes, had>>

OffStep(r) == OffTakes(r) \/ OffHasRows(r) \/ OffHasProfile(r) \/ OffCommit(r) \/ OffFails(r)

Waiting == {r \in Request : WaitsFor(r) # {}}

\* Requests that wait for each other in a circle, or in several.
Deadlocked(S) ==
    /\ S # {}
    /\ \E f \in [S -> S] : \A r \in S : f[r] \in WaitsFor(r) /\ \E q \in S : f[q] = r

\* PostgreSQL finds a circle and aborts one of its requests (500).
BreakDeadlock(r) ==
    /\ \E S \in SUBSET Waiting : r \in S /\ Deadlocked(S)
    /\ \/ /\ r \in PatchReq /\ patch' = Answered(r)
          /\ UNCHANGED off
       \/ /\ r \in OffReq /\ off' = [off EXCEPT ![r] = IdleOff]
          /\ UNCHANGED patch
    /\ UNCHANGED <<profile, sched, writes, had>>

Next ==
    \/ \E e \in Employee :
          \/ \E t \in RateType, a \in Amount, D \in Plans : CreateEmployee(e, t, a, D)
          \/ \E r \in OffReq : OffDeletesRows(r, e)
    \/ \E r \in PatchReq : \/ \E e \in Employee, b \in Bodies : PatchLoad(r, e, b)
                           \/ PatchStep(r)
    \/ \E r \in OffReq : OffStep(r)
    \/ \E r \in Request : BreakDeadlock(r)

Spec == Init /\ [][Next]_vars

\* The event loop resumes the coroutines, PostgreSQL breaks cycles and wakes those that
\* wait for a lock in their order: who retries queues behind them, hence SF.
FairSpec ==
    /\ Spec
    /\ \A r \in PatchReq : SF_vars(PatchStep(r))
    /\ \A r \in OffReq : SF_vars(OffStep(r))
    /\ \A r \in Request : WF_vars(BreakDeadlock(r))
----------------------------------------------------------------------------
\* A replaced schedule does not come back: no day stands next to a day whose
\* writer had its rows in sight when it deleted. (Two replacements that overlap
\* may leave a mixture of both.)
ReplacedDaysAreGone ==
    \A e \in Employee, c, d \in Date :
        sched[e][c] # Null /\ sched[e][d] # Null => sched[e][c].id \notin sched[e][d].seen

\* A scheduled day carries a rate that the profile has had, unless another PATCH
\* committed between the load and the commit of the one that wrote the day.
SnapshotUnlessOvertaken ==
    \A e \in Employee, d \in Date :
        sched[e][d] # Null /\ ~sched[e][d].overtaken =>
            <<sched[e][d].type, sched[e][d].amount>> \in had[e]

\* PATCHes and deletions that wait for each other's rows are all answered.
RequestsEnd ==
    /\ \A r \in PatchReq : patch[r].pc # "idle" ~> patch[r].pc = "idle"
    /\ \A r \in OffReq : off[r].pc # "idle" ~> off[r].pc = "idle"

\* When a PATCH is answered with 200 the record says what its body said.
AnsweredPatchHolds ==
    [][\A r \in PatchReq :
         patch[r].pc # "idle" /\ patch'[r].pc = "idle" /\ patch'[r].ok =>
            LET e == patch[r].emp
                b == patch[r].body
            IN /\ b.type # Keep => profile'[e].type = b.type
               /\ b.amount # Keep => profile'[e].amount = b.amount
               /\ b.dates # Keep => {d \in Date : sched'[e][d] # Null} = b.dates]_vars

RateNow ==
    [e \in Employee |-> IF profile[e].st = "row"
                        THEN <<profile[e].type, profile[e].amount>> ELSE Null]

DaysNow ==
    [e \in Employee |-> [d \in Date |-> IF sched[e][d] = Null THEN Null
                                        ELSE <<sched[e][d].type, sched[e][d].amount>>]]

Pay == INSTANCE Roster WITH rate <- RateNow, days <- DaysNow

\* One PATCH after the other, rate and schedule change as in the abstract roster:
\* whole schedules, at whole rates.
ImplementsRoster == Pay!RosterSpec
============================================================================
