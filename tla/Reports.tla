------------------------------ MODULE Reports ------------------------------
(***************************************************************************)
(* Who is in which report, over two companies: the GET handlers of         *)
(* routers/statistics.py, schedule.py, me.py and employees.py. Each first  *)
(* SELECTs its employees and then reads their rows in further SELECTs      *)
(* (READ COMMITTED: each sees what is committed when it runs), while       *)
(* employees are hired, deactivated, paid otherwise and deleted, and the   *)
(* admin panel saves users and profiles as it likes.                       *)
(*                                                                         *)
(*   table, summary, salary   statistics.py: all, their sum, one           *)
(*   list, one                employees.py: all, one                       *)
(*   grid, slots              schedule.py: all, one                        *)
(*   ownSalary, ownSlots      me.py                                        *)
(*                                                                         *)
(* Of an employee's rows of the month asked for, what they add up to is    *)
(* kept (how it is computed is in Payroll).                                *)
(***************************************************************************)
EXTENDS Integers, Sequences

CONSTANTS
    Employee, Company,
    Report,         \* requests in flight
    Absent,         \* not a user
    Amounts,
    MaxWrites       \* bound: commits in all

ASSUME ReportsAssumption ==
    /\ Absent \notin [company : Company, role : {"employee", "admin"}, active : BOOLEAN]
    /\ Amounts \subseteq Int /\ 0 \in Amounts /\ MaxWrites \in Nat

VARIABLES
    user,       \* table user; Absent: not yet or no longer
    profile,    \* employees that have a row in employee_profile
    due,        \* what the rows of schedule and adjustment add up to
    rep,        \* requests
    gone,       \* ids that have had their rows and lost them: none is given again
    writes

vars == <<user, profile, due, rep, gone, writes>>

User == [company : Company, role : {"employee", "admin"}, active : BOOLEAN]
Due == [base : Amounts, bonus : Amounts, fine : Amounts]
Nothing == [base |-> 0, bonus |-> 0, fine |-> 0]

OfAll == {"table", "summary", "list", "grid"}
OfOne == {"salary", "one", "slots"}
Own == {"ownSalary", "ownSlots"}
Calculated == {"table", "summary", "salary", "ownSalary"}   \* by calculate_salary
Batched == {"list", "one"}      \* one SELECT for all employees
Slotted == {"slots", "ownSlots"}

IdleRep == [pc |-> "idle", kind |-> "table", company |-> Absent, of |-> {},
            todo |-> {}, cur |-> {}, sum |-> Nothing, rows |-> <<>>,
            touched |-> {},     \* ghost: written since the request came in
            seen |-> <<>>]      \* ghost: what was due since then

\* Profiles have their users, and rows their profiles.
TypeOK ==
    /\ user \in [Employee -> User \cup {Absent}]
    /\ profile \subseteq {e \in Employee : user[e] # Absent}
    /\ due \in [Employee -> Due]
    /\ \A e \in Employee \ profile : due[e] = Nothing
    /\ gone \subseteq Employee \ profile /\ writes \in 0..MaxWrites
    /\ \A r \in Report :
          /\ rep[r].pc \in {"idle", "select", "base", "bonus", "fine", "adjs", "done", "404"}
          /\ rep[r].kind \in OfAll \cup OfOne \cup Own
          /\ rep[r].cur \subseteq rep[r].todo /\ rep[r].todo \subseteq Employee
          /\ DOMAIN rep[r].rows \subseteq Employee
          /\ \A e \in DOMAIN rep[r].rows : rep[r].rows[e] \in Due

----------------------------------------------------------------------------
(***************************************************************************)
(* The WHERE of the first SELECT                                           *)
(***************************************************************************)
Works(e, c) == user[e] # Absent /\ user[e].company = c

\* Variant: of any company.
Found_Anywhere(kind, c, e) == e \in profile

\* The list passes over users without a profile (:247 and :263); the grid joins the
\* schedule and shows nobody without a day (a base of 0).
Found(kind, c, e) ==
    CASE kind \in {"table", "summary"} -> e \in profile /\ Works(e, c) /\ user[e].active
      [] kind = "grid" -> e \in profile /\ Works(e, c) /\ user[e].active /\ due[e].base # 0
      [] kind \in Batched -> e \in profile /\ Works(e, c) /\ user[e].role = "employee"
      [] kind \in Own -> e \in profile
      [] OTHER -> e \in profile /\ Works(e, c)

----------------------------------------------------------------------------
Becomes(r, p) ==
    /\ rep' = [rep EXCEPT ![r] = p]
    /\ UNCHANGED <<user, profile, due, gone, writes>>

\* Asked by an admin of company c (require_admin).
Start(r, kind, c, S) ==
    /\ rep[r].pc = "idle"
    /\ Becomes(r, [IdleRep EXCEPT !.pc = "select", !.kind = kind, !.company = c, !.of = S,
                            !.seen = <<due>>])

\* Asked by employee e (require_employee).
StartOwn(r, kind, e) ==
    /\ user[e] # Absent /\ user[e].role = "employee" /\ user[e].active
    /\ Start(r, kind, user[e].company, {e})

\* The grid is done with it; a list of nobody too.
Selects(r) ==
    LET p == rep[r]
        S == {e \in p.of : Found(p.kind, p.company, e)}
    IN
    /\ p.pc = "select"
    /\ IF p.kind \notin OfAll /\ S = {} THEN Becomes(r, [p EXCEPT !.pc = "404"])
       ELSE IF p.kind = "grid"
       THEN Becomes(r, [p EXCEPT !.pc = "done",
                                 !.rows = [e \in S |-> [Nothing EXCEPT !.base = due[e].base]]])
       ELSE Becomes(r, [p EXCEPT !.pc = IF S = {} THEN "done" ELSE "base", !.todo = S,
                                 !.cur = IF p.kind \in Batched THEN S ELSE {}])

(***************************************************************************)
(* calculate_salary: three SELECTs for one employee after the other.       *)
(***************************************************************************)
ReadsBase(r, e) ==
    LET p == rep[r] IN
    /\ p.pc = "base" /\ p.kind \in Calculated /\ e \in p.todo
    /\ Becomes(r, [p EXCEPT !.pc = "bonus", !.cur = {e},
                            !.sum = [@ EXCEPT !.base = due[e].base]])

\* Variant: of either type.
ReadsBonus_AnyType(r) ==
    LET p == rep[r] IN
    /\ p.pc = "bonus"
    /\ \E e \in p.cur :
       Becomes(r, [p EXCEPT !.pc = "fine",
                            !.sum = [@ EXCEPT !.bonus = due[e].bonus + due[e].fine]])

ReadsBonus(r) ==
    LET p == rep[r] IN
    /\ p.pc = "bonus"
    /\ \E e \in p.cur :
       Becomes(r, [p EXCEPT !.pc = "fine", !.sum = [@ EXCEPT !.bonus = due[e].bonus]])

ReadsFine(r) ==
    LET p == rep[r] IN
    /\ p.pc = "fine"
    /\ \E e \in p.cur :
       Becomes(r, [p EXCEPT !.pc = IF p.todo = {e} THEN "done" ELSE "base",
                            !.rows = [f \in {e} \cup DOMAIN @ |->
                                IF f = e THEN [p.sum EXCEPT !.fine = due[e].fine] ELSE @[f]],
                            !.todo = @ \ {e}, !.cur = {}, !.sum = Nothing])

(***************************************************************************)
(* The schedules of all, the adjustments of all, the answer.               *)
(***************************************************************************)
ReadsSchedules(r) ==
    LET p == rep[r] IN
    /\ p.pc = "base" /\ p.kind \in Batched
    /\ Becomes(r, [p EXCEPT !.pc = "adjs",
                            !.rows = [e \in p.cur |-> [Nothing EXCEPT !.base = due[e].base]]])

ReadsAdjustments(r) ==
    LET p == rep[r] IN
    /\ p.pc = "adjs"
    /\ Becomes(r, [p EXCEPT !.pc = "done",
                     !.rows = [e \in p.cur |-> [due[e] EXCEPT !.base = p.rows[e].base]]])

ReadsSlots(r) ==
    LET p == rep[r] IN
    /\ p.pc = "base" /\ p.kind \in Slotted
    /\ Becomes(r, [p EXCEPT !.pc = "done",
                     !.rows = [e \in p.todo |-> [Nothing EXCEPT !.base = due[e].base]]])

Answer(r) == rep[r].pc \in {"done", "404"} /\ Becomes(r, IdleRep)

----------------------------------------------------------------------------
(***************************************************************************)
(* What is written meanwhile, each in one commit                           *)
(***************************************************************************)
\* The reports in flight are told.
Writes(e, u, S, d) ==
    /\ writes < MaxWrites /\ writes' = writes + 1
    /\ user' = [user EXCEPT ![e] = u]
    /\ profile' = S
    /\ due' = [due EXCEPT ![e] = d]
    /\ rep' = [r \in Report |-> IF rep[r].pc = "idle" THEN rep[r] ELSE
          [rep[r] EXCEPT !.touched = @ \cup {e}, !.seen = Append(@, due')]]

NewUser(c) == [company |-> c, role |-> "employee", active |-> TRUE]

Fresh(e) == user[e] = Absent /\ e \notin gone

\* POST /employees: an employee with a schedule.
Hire(e, c, base) ==
    /\ Fresh(e)
    /\ Writes(e, NewUser(c), profile \cup {e}, [Nothing EXCEPT !.base = base])
    /\ UNCHANGED gone

\* PATCH /employees/{id} with is_active.
SetActive(e) ==
    /\ e \in profile /\ user[e].role = "employee"
    /\ Writes(e, [user[e] EXCEPT !.active = ~@], profile, due[e])
    /\ UNCHANGED gone

\* PATCH /employees/{id} with a schedule; the panel's form, for any role.
Reschedule(e, base) ==
    /\ e \in profile /\ due[e].base # base
    /\ Writes(e, user[e], profile, [due[e] EXCEPT !.base = base])
    /\ UNCHANGED gone

\* The adjustments' handlers: a PATCH of the type turns a bonus into a fine.
Adjust(e, bonus, fine) ==
    /\ e \in profile /\ <<bonus, fine>> # <<due[e].bonus, due[e].fine>>
    /\ Writes(e, user[e], profile, [due[e] EXCEPT !.bonus = bonus, !.fine = fine])
    /\ UNCHANGED gone

\* Variant: the adjustments stay.
Dismiss_KeepsAdjustments(e) ==
    /\ e \in profile /\ user[e].role = "employee"
    /\ Writes(e, Absent, profile \ {e}, [due[e] EXCEPT !.base = 0])
    /\ gone' = gone \cup {e}

\* DELETE /employees/{id}.
Dismiss(e) ==
    /\ e \in profile /\ user[e].role = "employee"
    /\ Writes(e, Absent, profile \ {e}, Nothing)
    /\ gone' = gone \cup {e}

\* The panel: a user is added or saved, with any role and company; deleted with its
\* profile; a profile is added (bound: to a user who never had one) or deleted.
PanelSavesUser(e, u) ==
    /\ Fresh(e) \/ user[e] \notin {Absent, u}
    /\ Writes(e, u, profile, due[e])
    /\ UNCHANGED gone

PanelDeletesUser(e) ==
    /\ user[e] # Absent
    /\ Writes(e, Absent, profile \ {e}, Nothing)
    /\ gone' = gone \cup {e}

PanelAddsProfile(e) ==
    /\ user[e] # Absent /\ e \notin profile \cup gone
    /\ Writes(e, user[e], profile \cup {e}, Nothing)
    /\ UNCHANGED gone

PanelDeletesProfile(e) ==
    /\ e \in profile
    /\ Writes(e, user[e], profile \ {e}, Nothing)
    /\ gone' = gone \cup {e}

Init ==
    /\ user \in [Employee -> {NewUser(c) : c \in Company} \cup {Absent}]
    /\ profile = {e \in Employee : user[e] # Absent}
    \* Bound: what is due of bonuses and of fines starts the same.
    /\ due \in [Employee -> {d \in Due : d.bonus = d.fine}]
    /\ \A e \in Employee \ profile : due[e] = Nothing
    /\ rep = [r \in Report |-> IdleRep]
    /\ gone = {} /\ writes = 0

Read(r) ==
    \/ Selects(r) \/ (\E e \in Employee : ReadsBase(r, e)) \/ ReadsBonus(r) \/ ReadsFine(r)
    \/ ReadsSchedules(r) \/ ReadsAdjustments(r) \/ ReadsSlots(r)
    \/ Answer(r)

Write(e) ==
    \/ \E c \in Company, base \in Amounts : Hire(e, c, base)
    \/ SetActive(e) \/ Dismiss(e)
    \/ \E base \in Amounts : Reschedule(e, base)
    \/ \E bonus, fine \in Amounts : Adjust(e, bonus, fine)
    \/ \E u \in User : PanelSavesUser(e, u)
    \/ PanelDeletesUser(e) \/ PanelAddsProfile(e) \/ PanelDeletesProfile(e)

Next ==
    \/ \E r \in Report, c \in Company :
          \/ \E kind \in OfAll : Start(r, kind, c, Employee)
          \/ \E kind \in OfOne, e \in Employee : Start(r, kind, c, {e})
    \/ \E r \in Report, kind \in Own, e \in Employee : StartOwn(r, kind, e)
    \/ \E r \in Report : Read(r)
    \/ \E e \in Employee : Write(e)

Spec == Init /\ [][Next]_vars
----------------------------------------------------------------------------
\* What a report says of an employee whom nobody writes meanwhile does not depend on
\* what is written of others: who has a profile in the company is in it, with what
\* is due, unless deactivated (table, summary, grid), without a day (grid) or not
\* an employee (list).
UntouchedAreExact ==
    \A r \in Report : rep[r].pc = "done" =>
        \A e \in rep[r].of \ rep[r].touched :
            LET k == rep[r].kind
                shown == e \in profile /\ user[e].company = rep[r].company
                         /\ ~(k \in {"table", "summary", "grid"} /\ ~user[e].active)
                         /\ ~(k \in {"list", "one"} /\ user[e].role # "employee")
                         /\ ~(k = "grid" /\ due[e].base = 0)
            IN /\ e \in DOMAIN rep[r].rows <=> shown
               /\ shown => rep[r].rows[e] =
                     IF k = "grid" \/ k \in Slotted THEN [Nothing EXCEPT !.base = due[e].base]
                     ELSE due[e]

\* Of an employee whose rows are written meanwhile a report shows, part by part, what
\* was committed at a moment since the request came in: the schedule of a moment, the
\* bonuses of the same or a later one, the fines of one no earlier than that. The lists
\* take both adjustments from one moment.
PartsInOrder ==
    \A r \in Report : rep[r].pc = "done" =>
        \A e \in DOMAIN rep[r].rows :
            LET row == rep[r].rows[e]
                moments == 1..Len(rep[r].seen)
                At(i) == rep[r].seen[i][e]
            IN \E i, j, k \in moments :
                  /\ i <= j /\ j <= k
                  /\ row.base = At(i).base
                  /\ rep[r].kind \in Calculated \cup Batched =>
                        row.bonus = At(j).bonus /\ row.fine = At(k).fine
                  /\ rep[r].kind \in Batched => j = k
============================================================================
