----------------------------- MODULE Dismissal -----------------------------
(***************************************************************************)
(* The end of one employee: DELETE /employees/{id} (employees.py) from the *)
(* avatar in S3 over the sessions in Redis to the five tables, next to the *)
(* same deletion made in the admin panel, whose on_delete=CASCADE takes    *)
(* the tables in another order and knows nothing of S3 and Redis, and next *)
(* to those who still write rows that refer to the employee: scans, new    *)
(* adjustments, the forms of the panel.                                    *)
(*                                                                         *)
(* An INSERT locks the profile that it refers to (FOR KEY SHARE) until its *)
(* transaction ends. A DELETE takes the rows committed when it starts and  *)
(* waits for those that another transaction has deleted; that it takes all *)
(* of them at once is an abstraction. The tables have no ON DELETE: a row  *)
(* that still refers to the profile makes the DELETE of the profile fail.  *)
(*                                                                         *)
(* What becomes of the sessions is in Sessions (here Redis is a step that  *)
(* takes time and may fail), of uploads in Avatars, of PATCHes of the      *)
(* schedule in EmployeeRecords.                                            *)
(***************************************************************************)
EXTENDS Naturals, Sequences, FiniteSets

CONSTANTS
    ApiDel, PanelDel,       \* deletions in flight, by who makes them
    Adder,                  \* requests that insert a row
    MaxAdds                 \* bound: INSERTs in all

ASSUME DismissalAssumption ==
    /\ ApiDel \cap PanelDel = {}
    /\ IsFiniteSet(Adder)
    /\ MaxAdds \in Nat

VARIABLES
    user, profile,  \* the employee's rows in user and employee_profile are there
    rows,           \* ids of the employee's rows in the three tables that refer to them
    added,          \* INSERTs so far: the id of the last one's row
    avatar,         \* the object that avatar_key names
    del, add,       \* requests
    dismissed       \* ghost: the API answered a deletion with 204

vars == <<user, profile, rows, added, avatar, del, add, dismissed>>

Table == {"schedule", "adjustment", "time_entry"}
Id == 0..MaxAdds
Deletion == ApiDel \cup PanelDel

\* Variant: the time entries are forgotten.
ApiOrder_NoEntries == <<"schedule", "adjustment">>

\* The order of the DELETEs in delete_employee, and that in which Django's
\* collector finds the models that refer to EmployeeProfile.
ApiOrder == <<"schedule", "adjustment", "time_entry">>
PanelOrder == <<"adjustment", "schedule", "time_entry">>

Order(d) == IF d \in ApiDel THEN ApiOrder ELSE PanelOrder

Del == [pc : {"idle", "avatar", "revoke", "taking", "profile", "commit"},
        i : 1..4,                       \* the table it is at
        got : [Table -> SUBSET Id],     \* the rows that its DELETEs found
        whole : BOOLEAN,                \* the user goes as well
        overtaken : BOOLEAN]            \* ghost: a row was inserted since the first DELETE

Add == [pc : {"idle", "checked", "inserted"}, table : Table, id : Id, panel : BOOLEAN]

IdleDel == [pc |-> "idle", i |-> 1, got |-> [t \in Table |-> {}], whole |-> TRUE,
            overtaken |-> FALSE]
IdleAdd == [pc |-> "idle", table |-> "time_entry", id |-> 0, panel |-> FALSE]

TypeOK ==
    /\ user \in BOOLEAN /\ profile \in BOOLEAN
    /\ rows \in [Table -> SUBSET Id]
    /\ added \in Id
    /\ avatar \in {"none", "stored", "deleted"}
    /\ del \in [Deletion -> Del]
    /\ \A d \in Deletion : del[d].pc = "idle" => del[d] = IdleDel
    /\ add \in [Adder -> Add]
    /\ dismissed \in BOOLEAN

\* An employee with a row in each table, with or without an avatar.
Init ==
    /\ user = TRUE /\ profile = TRUE
    /\ rows = [t \in Table |-> {0}]
    /\ added = 0
    /\ avatar \in {"none", "stored"}
    /\ del = [d \in Deletion |-> IdleDel]
    /\ add = [a \in Adder |-> IdleAdd]
    /\ dismissed = FALSE

store == <<user, profile, rows, added>>

----------------------------------------------------------------------------
(***************************************************************************)
(* Who holds what.                                                         *)
(***************************************************************************)
\* The tables whose rows a deletion has deleted and not committed.
Taken(d) == IF del[d].pc = "idle" THEN {} ELSE {Order(d)[k] : k \in 1..(del[d].i - 1)}

\* The DELETE of the i-th table begins: what is committed now is what it will delete.
Finds(d, i) ==
    LET t == Order(d)[i]
    IN [del[d] EXCEPT !.pc = "taking", !.i = i, !.got = [del[d].got EXCEPT ![t] = rows[t]]]

\* Deletions that have deleted the profile, if it was there.
ProfileTakers == {d \in Deletion : del[d].pc = "commit"}

\* Inserts that hold the profile they refer to.
ProfileSharers == {a \in Adder : add[a].pc = "inserted"}

\* The deletions that the DELETE of d waits for.
WaitsFor(d) ==
    IF del[d].pc = "taking"
    THEN LET t == Order(d)[del[d].i]
         IN {e \in Deletion \ {d} : t \in Taken(e) /\ del[e].got[t] \cap del[d].got[t] # {}}
    ELSE IF del[d].pc = "profile" THEN ProfileTakers ELSE {}

----------------------------------------------------------------------------
(***************************************************************************)
(* DELETE /employees/{id}                                                  *)
(***************************************************************************)
\* Otherwise 404.
DelLoads(d) ==
    /\ del[d].pc = "idle"
    /\ user /\ profile
    /\ del' = [del EXCEPT ![d] = [IdleDel EXCEPT
          !.pc = IF avatar = "none" THEN "revoke" ELSE "avatar"]]
    /\ UNCHANGED <<store, avatar, add, dismissed>>

\* s3.delete: deleting an object that is gone is no error.
DelAvatar(d) ==
    /\ del[d].pc = "avatar"
    /\ avatar' = "deleted"
    /\ del' = [del EXCEPT ![d].pc = "revoke"]
    /\ UNCHANGED <<store, add, dismissed>>

\* The employee's sessions are gone from Redis.
DelRevokes(d) ==
    /\ del[d].pc = "revoke"
    /\ del' = [del EXCEPT ![d] = Finds(d, 1)]
    /\ UNCHANGED <<store, avatar, add, dismissed>>

\* 500: S3 or Redis cannot be reached.
DelStoreFails(d) ==
    /\ del[d].pc \in {"avatar", "revoke"}
    /\ del' = [del EXCEPT ![d] = IdleDel]
    /\ UNCHANGED <<store, avatar, add, dismissed>>

(***************************************************************************)
(* The panel's "delete" of a user, or of a profile alone.                  *)
(***************************************************************************)
PanelCollects(d, whole) ==
    /\ del[d].pc = "idle"
    /\ IF whole THEN user ELSE profile
    /\ del' = [del EXCEPT ![d] = [Finds(d, 1) EXCEPT !.whole = whole]]
    /\ UNCHANGED <<store, avatar, add, dismissed>>

(***************************************************************************)
(* The tables, for both: the rows that refer to the profile, table after   *)
(* table, then the profile, then the user.                                 *)
(***************************************************************************)
\* The DELETE has its rows; the next statement begins.
DelTakesRows(d) ==
    /\ del[d].pc = "taking" /\ WaitsFor(d) = {}
    /\ del' = [del EXCEPT ![d] = IF del[d].i < Len(Order(d)) THEN Finds(d, del[d].i + 1)
                                 ELSE [del[d] EXCEPT !.i = @ + 1, !.pc = "profile"]]
    /\ UNCHANGED <<store, avatar, add, dismissed>>

\* Some committed row refers to the profile and is not one of those deleted.
StillReferred(d) == \E t \in Table : ~ rows[t] \subseteq (IF t \in Taken(d) THEN del[d].got[t] ELSE {})

\* A profile that another deletion has removed meanwhile is no error.
DelTakesProfile(d) ==
    /\ del[d].pc = "profile" /\ WaitsFor(d) = {} /\ ProfileSharers = {}
    /\ profile => ~StillReferred(d)
    /\ del' = [del EXCEPT ![d].pc = "commit"]
    /\ UNCHANGED <<store, avatar, add, dismissed>>

Refused(d) ==
    /\ del[d].pc = "profile" /\ WaitsFor(d) = {} /\ ProfileSharers = {}
    /\ profile /\ StillReferred(d)

\* Variant: the DELETE of the profile waits for the rows to go.
DelFails_Waits(d) == Refused(d) /\ FALSE /\ UNCHANGED vars

\* Variant: the exception is caught and the request answered.
DelFails_Swallowed(d) ==
    /\ Refused(d)
    /\ del' = [del EXCEPT ![d] = IdleDel]
    /\ dismissed' = (dismissed \/ d \in ApiDel)
    /\ UNCHANGED <<store, avatar, add>>

\* Variant: the transaction is not rolled back.
DelFails_KeepsRows(d) ==
    /\ Refused(d)
    /\ del' = [del EXCEPT ![d].pc = "idle"]
    /\ UNCHANGED <<store, avatar, add, dismissed>>

\* 500: the foreign key of the row. What S3 and Redis have lost stays lost.
DelFails(d) ==
    /\ Refused(d)
    /\ del' = [del EXCEPT ![d] = IdleDel]
    /\ UNCHANGED <<store, avatar, add, dismissed>>

\* DELETE of the user, COMMIT.
DelCommits(d) ==
    /\ del[d].pc = "commit"
    /\ profile' = FALSE
    /\ user' = (user /\ ~del[d].whole)
    /\ rows' = [t \in Table |-> rows[t] \ del[d].got[t]]
    /\ dismissed' = (dismissed \/ d \in ApiDel)
    /\ del' = [del EXCEPT ![d] = IdleDel]
    /\ UNCHANGED <<added, avatar, add>>

DelStep(d) ==
    \/ DelAvatar(d) \/ DelRevokes(d)
    \/ DelTakesRows(d) \/ DelTakesProfile(d) \/ DelFails(d) \/ DelCommits(d)

\* Two deletions that wait for each other: PostgreSQL aborts one (500).
BreakDeadlock(d, e) ==
    /\ d \in WaitsFor(e) /\ e \in WaitsFor(d)
    /\ del' = [del EXCEPT ![d] = IdleDel]
    /\ UNCHANGED <<store, avatar, add, dismissed>>

(***************************************************************************)
(* POST /qr/scan, POST .../adjustments, the panel's "add" forms.           *)
(***************************************************************************)
\* Bound: a fresh id is left for every request.
RoomForRow == added + Cardinality({a \in Adder : add[a].pc = "checked"}) < MaxAdds

\* The profile is there (404 otherwise). The API inserts schedules with a PATCH only.
AddChecks(a, t, panel) ==
    /\ add[a].pc = "idle"
    /\ t = "schedule" => panel
    /\ RoomForRow
    /\ profile
    /\ add' = [add EXCEPT ![a] = [pc |-> "checked", table |-> t, id |-> 0, panel |-> panel]]
    /\ UNCHANGED <<store, avatar, del, dismissed>>

AddInserts(a) ==
    /\ add[a].pc = "checked"
    /\ profile /\ ProfileTakers = {}
    /\ added' = added + 1
    /\ add' = [add EXCEPT ![a].pc = "inserted", ![a].id = added + 1]
    /\ UNCHANGED <<user, profile, rows, avatar, del, dismissed>>

\* 500: the profile that the row refers to is gone.
AddFails(a) ==
    /\ add[a].pc = "checked" /\ ~profile
    /\ add' = [add EXCEPT ![a] = IdleAdd]
    /\ UNCHANGED <<store, avatar, del, dismissed>>

AddCommits(a) ==
    /\ add[a].pc = "inserted"
    /\ rows' = [rows EXCEPT ![add[a].table] = @ \cup {add[a].id}]
    /\ add' = [add EXCEPT ![a] = IdleAdd]
    /\ del' = [d \in Deletion |-> [del[d] EXCEPT
          !.overtaken = @ \/ del[d].pc \in {"taking", "profile", "commit"}]]
    /\ UNCHANGED <<user, profile, added, avatar, dismissed>>

AddStep(a) == AddInserts(a) \/ AddFails(a) \/ AddCommits(a)

\* The API's process dies: its transactions roll back, S3 and Redis stay.
Crash ==
    /\ del' = [d \in Deletion |-> IF d \in ApiDel THEN IdleDel ELSE del[d]]
    /\ add' = [a \in Adder |-> IF add[a].panel THEN add[a] ELSE IdleAdd]
    /\ UNCHANGED <<store, avatar, dismissed>>

Next ==
    \/ \E d \in ApiDel : DelLoads(d) \/ DelStoreFails(d)
    \/ \E d \in PanelDel, whole \in BOOLEAN : PanelCollects(d, whole)
    \/ \E d \in Deletion : DelStep(d)
    \/ \E d, e \in Deletion : BreakDeadlock(d, e)
    \/ \E a \in Adder : AddStep(a) \/ \E t \in Table, panel \in BOOLEAN : AddChecks(a, t, panel)
    \/ Crash

Spec == Init /\ [][Next]_vars

\* As in EmployeeRecords: coroutines are resumed, PostgreSQL breaks cycles and wakes
\* those that wait for a lock in their order. S3 and Redis may fail, and need not.
FairSpec ==
    /\ Spec
    /\ \A d \in Deletion : SF_vars(DelStep(d))
    /\ WF_vars(\E d, e \in Deletion : BreakDeadlock(d, e))
    /\ \A a \in Adder : SF_vars(AddStep(a))
----------------------------------------------------------------------------
\* A deletion that is about to fail on a foreign key has been overtaken: a row was
\* inserted after its first DELETE. Of the rows there before that it forgets none.
FailsOnlyWhenOvertaken ==
    \A d \in Deletion :
        del[d].pc = "profile" /\ profile /\ StillReferred(d) => del[d].overtaken

\* Once a deletion was answered with 204 nothing of the employee is left in the
\* tables, nor the avatar that the deletion found in S3, whatever inserts, deletions and
\* failures came between its steps, and nothing comes back. (Uploads are in Avatars.)
DismissedForGood ==
    dismissed =>
        /\ ~user /\ ~profile /\ \A t \in Table : rows[t] = {}
        /\ avatar # "stored"

\* Deletions that wait for each other and for inserts, and inserts that wait for
\* deletions, are all answered.
RequestsEnd ==
    /\ \A d \in Deletion : del[d].pc # "idle" ~> del[d].pc = "idle"
    /\ \A a \in Adder : add[a].pc # "idle" ~> add[a].pc = "idle"
============================================================================
