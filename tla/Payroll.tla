------------------------------ MODULE Payroll ------------------------------
(***************************************************************************)
(* What an employee is due for a month: the schedule rows and adjustments  *)
(* that the three calculations of the code read, each in several SELECTs   *)
(* (READ COMMITTED: each sees what is committed when it runs), while       *)
(* admins amend adjustments, replace schedules and the month turns.        *)
(*                                                                         *)
(*   salary     services/statistics.py calculate_salary: salary tables     *)
(*   overrides  calculate_with_overrides: the what-if calculator           *)
(*   list       routers/employees.py: the salaries next to each employee   *)
(*                                                                         *)
(* Times are whole hours and amounts whole units, which no body keeps from *)
(* being negative: fractions and their rounding are left out. A month has  *)
(* DaysPerMonth days.                                                      *)
(***************************************************************************)
EXTENDS Integers, FiniteSets, FiniteSetsExt

CONSTANTS
    Employee, Adj,          \* primary keys of adjustment
    PayReq, AmendReq,       \* requests in flight, by handler
    Null, Keep,
    FirstDay, LastDay,      \* bound of the clock
    DaysPerMonth,
    Plans,                  \* the schedules that admins write
    NewAdjs, Patches,       \* the bodies of POST and PATCH of adjustments
    Asked,                  \* the months asked for
    WhatIfs                 \* the bodies of /calculate

Row == [date : Nat, type : {"hourly", "shift"}, amount : Int,
        start_time : 0..23, end_time : 0..23]

Entry == [type : {"bonus", "fine"}, amount : Int, date : Nat]

ASSUME PayrollAssumption ==
    /\ FirstDay \in Nat /\ LastDay \in Nat /\ FirstDay <= LastDay
    /\ DaysPerMonth \in Nat \ {0}
    /\ Null \notin Employee \cup Adj \cup Int /\ Keep \notin Int \cup {"bonus", "fine"}
    /\ Asked \subseteq Nat
    /\ \A p \in Plans : /\ p \subseteq Row /\ IsFiniteSet(p)
                        /\ \A x, y \in p : x.date = y.date => x = y
    /\ NewAdjs \subseteq Entry /\ IsFiniteSet(Adj)
    /\ \A b \in Patches : /\ b.type \in {"bonus", "fine", Keep}
                          /\ b.amount \in Int \cup {Keep} /\ b.date \in Nat \cup {Keep}
    /\ \A b \in WhatIfs : /\ b.schedule \subseteq Row /\ IsFiniteSet(b.schedule)
                          /\ {b.bonuses, b.fines} \subseteq Int \cup {Null}

VARIABLES
    today,      \* datetime.now(UTC).date()
    sched,      \* table schedule, by employee
    adj,        \* table adjustment
    pay,        \* calculations
    amend       \* update_adjustment requests

vars == <<today, sched, adj, pay, amend>>

MonthOf(day) == day \div DaysPerMonth

IdlePay == [pc |-> "idle", kind |-> "list", emp |-> Null, month |-> Null,
            body |-> Null, readAt |-> 0, rows |-> {}, base |-> 0,
            bonuses |-> 0, fines |-> 0,
            began |-> 0,            \* ghost: the day it came in
            of |-> Null,            \* ghost: the months of its base
            adjsOf |-> Null,        \* ghost: and of its adjustments
            asBonus |-> {}, asFine |-> {},  \* ghost: what it counted
            kept |-> {},            \* ghost: adjustments nobody has written since
            replaced |-> FALSE]     \* ghost: the schedule was
IdleAmend == [pc |-> "idle", target |-> Null, body |-> Null, row |-> Null]

TypeOK ==
    /\ today \in FirstDay..LastDay
    /\ \A e \in Employee : /\ sched[e] \subseteq Row
                           /\ \A x, y \in sched[e] : x.date = y.date => x = y
    /\ \A a \in Adj : /\ adj[a].st \in {"free", "row", "gone"}
                      /\ adj[a].st = "row" => adj[a].emp \in Employee /\ adj[a].entry \in Entry
    /\ \A r \in PayReq :
          /\ pay[r].pc \in {"idle", "sched", "adjs", "bonus", "fine", "build", "done"}
          /\ {pay[r].base, pay[r].bonuses, pay[r].fines} \subseteq Int
          /\ pay[r].rows \subseteq Row
    /\ \A r \in AmendReq : amend[r].pc \in {"idle", "loaded"}

Init ==
    /\ today = FirstDay
    /\ sched \in [Employee -> Plans]
    /\ adj = [a \in Adj |-> [st |-> "free", emp |-> Null, entry |-> Null]]
    /\ pay = [r \in PayReq |-> IdlePay]
    /\ amend = [r \in AmendReq |-> IdleAmend]

----------------------------------------------------------------------------
(***************************************************************************)
(* The arithmetic                                                          *)
(***************************************************************************)
Hours(row) ==
    row.end_time - row.start_time + (IF row.end_time < row.start_time THEN 24 ELSE 0)

RowPay(row) == IF row.type = "hourly" THEN Hours(row) * row.amount ELSE row.amount

EntriesSalary(rows) == MapThenSumSet(RowPay, rows)

InMonth(rows, m) == {x \in rows : MonthOf(x.date) = m}

ScheduleSalary(e, m) == EntriesSalary(InMonth(sched[e], m))

MonthlySalary(rows, m) == EntriesSalary(InMonth(rows, m))

AdjsOf(e, m) ==
    {a \in Adj : adj[a].st = "row" /\ adj[a].emp = e /\ MonthOf(adj[a].entry.date) = m}

OfType(S, type) == {a \in S : adj[a].entry.type = type}

AmountOf(a) == adj[a].entry.amount

AdjustmentsSum(S) == MapThenSumSet(AmountOf, S)

\* Variant: without a month, the current one only.
Window_ThisMonth(m, day) == IF m # Null THEN {m} ELSE {MonthOf(day)}

\* The months of which a list loads the schedule.
Window(m, day) ==
    IF m # Null THEN {m} ELSE {MonthOf(day) - 1, MonthOf(day), MonthOf(day) + 1}

\* Variant: past days can be excluded as well.
Remaining_PastToo(rows, excluded, day) == {x \in rows : x.date \notin excluded}

Remaining(rows, excluded, day) ==
    {x \in rows : x.date \notin excluded \/ x.date < day}

\* An override takes the place of the day it is for, whichever month that is in.
Merged(rows, overrides) ==
    {x \in rows : \A y \in overrides : x.date # y.date} \cup overrides

Month(r, day) == IF pay[r].month # Null THEN pay[r].month ELSE MonthOf(day)

(***************************************************************************)
(* The calculations. The clock that a step reads shows some time between   *)
(* the step before it and its own SELECT.                                  *)
(***************************************************************************)
Start(r, kind, e, m, body) ==
    /\ pay[r].pc = "idle"
    /\ pay' = [pay EXCEPT ![r] = [IdlePay EXCEPT
          !.pc = "sched", !.kind = kind, !.emp = e, !.month = m, !.body = body,
          !.readAt = today, !.began = today,
          !.kept = {a \in Adj : adj[a].st = "row" /\ adj[a].emp = e}]]
    /\ UNCHANGED <<today, sched, adj, amend>>

StartSalary(r, e, m) == Start(r, "salary", e, m, Null)

StartOverrides(r, e, m, body) == Start(r, "overrides", e, m, body)

StartList(r, e, m) == Start(r, "list", e, m, Null)

\* The calculation goes on at pc, with some of its fields set.
Becomes(r, p) ==
    /\ pay' = [pay EXCEPT ![r] = p]
    /\ UNCHANGED <<today, sched, adj, amend>>

SalaryReadsSchedule(r) ==
    LET p == pay[r] IN
    /\ p.pc = "sched" /\ p.kind = "salary"
    /\ Becomes(r, [p EXCEPT !.pc = "bonus", !.base = ScheduleSalary(p.emp, p.month),
                            !.of = p.month, !.adjsOf = p.month])

OverridesReadSchedule(r) ==
    LET p == pay[r] IN
    /\ p.pc = "sched" /\ p.kind = "overrides"
    /\ \E day \in p.readAt..today :
       LET rows == Remaining(InMonth(sched[p.emp], p.month), p.body.exclude, day) IN
       Becomes(r, [p EXCEPT !.pc = "bonus",
                            !.base = EntriesSalary(Merged(rows, p.body.schedule)),
                            !.of = p.month, !.adjsOf = p.month])

\* The bonuses and the fines that the body gives are not looked up.
ReadsBonuses(r) ==
    LET p == pay[r]
        S == OfType(AdjsOf(p.emp, p.month), "bonus")
    IN
    /\ p.pc = "bonus"
    /\ IF p.kind = "overrides" /\ p.body.bonuses # Null
       THEN Becomes(r, [p EXCEPT !.pc = "fine", !.bonuses = p.body.bonuses])
       ELSE Becomes(r, [p EXCEPT !.pc = "fine", !.bonuses = AdjustmentsSum(S),
                                 !.asBonus = S])

\* Variant: every adjustment of the month is deducted.
ReadsFines_AnyType(r) ==
    LET p == pay[r]
        S == AdjsOf(p.emp, p.month)
    IN
    /\ p.pc = "fine"
    /\ Becomes(r, [p EXCEPT !.pc = "done", !.fines = AdjustmentsSum(S), !.asFine = S])

ReadsFines(r) ==
    LET p == pay[r]
        S == OfType(AdjsOf(p.emp, p.month), "fine")
    IN
    /\ p.pc = "fine"
    /\ IF p.kind = "overrides" /\ p.body.fines # Null
       THEN Becomes(r, [p EXCEPT !.pc = "done", !.fines = p.body.fines])
       ELSE Becomes(r, [p EXCEPT !.pc = "done", !.fines = AdjustmentsSum(S),
                                 !.asFine = S])

ListReadsSchedule(r) ==
    LET p == pay[r] IN
    /\ p.pc = "sched" /\ p.kind = "list"
    /\ \E day \in p.readAt..today :
          Becomes(r, [p EXCEPT !.pc = "adjs", !.readAt = today,
             !.rows = {x \in sched[p.emp] : MonthOf(x.date) \in Window(p.month, day)}])

\* One SELECT for both types.
ListReadsAdjustments(r) ==
    LET p == pay[r] IN
    /\ p.pc = "adjs"
    /\ \E day \in p.readAt..today :
       LET S == AdjsOf(p.emp, Month(r, day)) IN
       Becomes(r, [p EXCEPT !.pc = "build", !.readAt = today,
             !.bonuses = AdjustmentsSum(OfType(S, "bonus")),
             !.fines = AdjustmentsSum(OfType(S, "fine")),
             !.adjsOf = Month(r, day),
             !.asBonus = OfType(S, "bonus"), !.asFine = OfType(S, "fine")])

ListBuilds(r) ==
    LET p == pay[r] IN
    /\ p.pc = "build"
    /\ \E day \in p.readAt..today :
          Becomes(r, [p EXCEPT !.pc = "done", !.rows = {}, !.of = Month(r, day),
                               !.base = MonthlySalary(p.rows, Month(r, day))])

Answer(r) == pay[r].pc = "done" /\ Becomes(r, IdlePay)

(***************************************************************************)
(* What changes meanwhile: adjustments (routers/adjustments.py), and the   *)
(* schedule, which a PATCH of the employee replaces in one commit (that    *)
(* PATCHes may mix is in EmployeeRecords).                                 *)
(***************************************************************************)
Written(a) == [r \in PayReq |-> [pay[r] EXCEPT !.kept = @ \ {a}]]

Replaced(e) == [r \in PayReq |-> [pay[r] EXCEPT !.replaced = @ \/ pay[r].emp = e]]

CreateAdjustment(e, entry) ==
    /\ \E a \in Adj : /\ adj[a].st = "free"
                      /\ adj' = [adj EXCEPT ![a] = [st |-> "row", emp |-> e, entry |-> entry]]
    /\ UNCHANGED <<today, sched, pay, amend>>

AmendLoads(r, a, body) ==
    /\ amend[r].pc = "idle"
    /\ adj[a].st = "row"
    /\ amend' = [amend EXCEPT ![r] = [pc |-> "loaded", target |-> a, body |-> body,
                                      row |-> adj[a].entry]]
    /\ UNCHANGED <<today, sched, adj, pay>>

\* Variant: what the body leaves out is written too (no exclude_unset).
Amended_Unset(given, loaded, stored) == IF given = loaded THEN stored ELSE given

\* The UPDATE names the columns whose value is not the one loaded.
Amended(given, loaded, stored) == IF given \in {Keep, loaded} THEN stored ELSE given

UpdateCommit(r) ==
    LET m == amend[r]
        now == adj[m.target].entry
        new == [f \in {"type", "amount", "date"} |-> Amended(m.body[f], m.row[f], now[f])]
    IN
    /\ m.pc = "loaded" /\ adj[m.target].st = "row"
    /\ adj' = [adj EXCEPT ![m.target].entry = new]
    /\ pay' = IF new = now THEN pay ELSE Written(m.target)
    /\ amend' = [amend EXCEPT ![r] = IdleAmend]
    /\ UNCHANGED <<today, sched>>

\* Its SELECT decides nothing that the DELETE does not: one of no row goes through.
DeleteAdjustment(a) ==
    /\ adj[a].st = "row"
    /\ adj' = [adj EXCEPT ![a] = [st |-> "gone", emp |-> Null, entry |-> Null]]
    /\ pay' = Written(a)
    /\ UNCHANGED <<today, sched, amend>>

\* 500: an UPDATE of a row that is gone.
UpdateFails(r) ==
    /\ amend[r].pc = "loaded" /\ adj[amend[r].target].st = "gone"
    /\ amend' = [amend EXCEPT ![r] = IdleAmend]
    /\ UNCHANGED <<today, sched, adj, pay>>

ReplaceSchedule(e, plan) ==
    /\ sched[e] # plan
    /\ sched' = [sched EXCEPT ![e] = plan]
    /\ pay' = Replaced(e)
    /\ UNCHANGED <<today, adj, amend>>

\* Assumption: a request does not last from one month to the month after the next.
Tick ==
    /\ today < LastDay
    /\ \A r \in PayReq : pay[r].pc \notin {"idle", "done"} =>
          MonthOf(today + 1) <= MonthOf(pay[r].began) + 1
    /\ today' = today + 1
    /\ UNCHANGED <<sched, adj, pay, amend>>

PayStep(r) ==
    \/ SalaryReadsSchedule(r) \/ OverridesReadSchedule(r)
    \/ ReadsBonuses(r) \/ ReadsFines(r)
    \/ ListReadsSchedule(r) \/ ListReadsAdjustments(r) \/ ListBuilds(r)
    \/ Answer(r)

Next ==
    \/ Tick
    \/ \E r \in PayReq, e \in Employee :
          \/ \E m \in Asked : \/ StartSalary(r, e, m)
                              \/ \E b \in WhatIfs : StartOverrides(r, e, m, b)
          \/ \E m \in Asked \cup {Null} : StartList(r, e, m)
    \/ \E r \in PayReq : PayStep(r)
    \/ \E e \in Employee : \/ \E n \in NewAdjs : CreateAdjustment(e, n)
                           \/ \E p \in Plans : ReplaceSchedule(e, p)
    \/ \E a \in Adj : \/ DeleteAdjustment(a)
                      \/ \E r \in AmendReq, b \in Patches : AmendLoads(r, a, b)
    \/ \E r \in AmendReq : UpdateCommit(r) \/ UpdateFails(r)

Spec == Init /\ [][Next]_vars
----------------------------------------------------------------------------
\* What the days of S are worth, written down without the code: a shift counts
\* for itself, otherwise each hour that begins in it.
Worked(x) ==
    {h \in 0..23 : IF x.start_time <= x.end_time
                   THEN x.start_time <= h /\ h < x.end_time
                   ELSE x.start_time <= h \/ h < x.end_time}

Worth(S) ==
    MapThenSumSet(LAMBDA x :
        x.amount * (IF x.type = "shift" THEN 1 ELSE Cardinality(Worked(x))), S)

WhatIf(r) == pay[r].kind = "overrides" /\ pay[r].body.schedule \cup pay[r].body.exclude # {}

\* The three calculations agree: unless the schedule is replaced meanwhile, the
\* base is what the days of one month are worth, also in a list without a month
\* whose clock readings lie in two months.
BaseIsTheMonths ==
    \A r \in PayReq : pay[r].pc = "done" /\ ~pay[r].replaced /\ ~WhatIf(r) =>
        pay[r].base = Worth({x \in sched[pay[r].emp] : MonthOf(x.date) = pay[r].of})

\* An adjustment that nobody writes while a salary is calculated is counted if
\* it is of the month, once and as what it is, whatever else is written.
UnamendedCountOnce ==
    \A r \in PayReq : pay[r].pc = "done" =>
        /\ pay[r].asBonus \cap pay[r].kept =
              IF pay[r].kind = "overrides" /\ pay[r].body.bonuses # Null THEN {}
              ELSE {a \in pay[r].kept : adj[a].entry.type = "bonus"
                                        /\ MonthOf(adj[a].entry.date) = pay[r].adjsOf}
        /\ pay[r].asFine \cap pay[r].kept =
              IF pay[r].kind = "overrides" /\ pay[r].body.fines # Null THEN {}
              ELSE {a \in pay[r].kept : adj[a].entry.type = "fine"
                                        /\ MonthOf(adj[a].entry.date) = pay[r].adjsOf}

\* The what-if calculator leaves days out, but never one it was not asked to nor
\* one that was past when it was asked.
PastStaysPaid ==
    \A r \in PayReq :
        /\ pay[r].pc = "done" /\ ~pay[r].replaced
        /\ pay[r].kind = "overrides" /\ pay[r].body.schedule = {}
        => LET rows == {x \in sched[pay[r].emp] : MonthOf(x.date) = pay[r].of} IN
           \E S \in SUBSET rows :
              /\ \A x \in rows \ S : x.date \in pay[r].body.exclude /\ x.date >= pay[r].began
              /\ pay[r].base = Worth(S)
============================================================================
