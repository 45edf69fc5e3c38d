------------------------- MODULE MCEmployeeRecords -------------------------
(***************************************************************************)
(* Instances of EmployeeRecords for TLC: two rate types, two amounts and   *)
(* two dates.                                                              *)
(***************************************************************************)
EXTENDS EmployeeRecords

CONSTANTS hourly, monthly, d1, d2

Patches(type, amount, dates) ==
    [type |-> type, amount |-> amount, dates |-> dates, active |-> FALSE]
Bars(body) == [body EXCEPT !.active = TRUE]

\* One column of the rate, both, a new schedule, an empty one, rate and schedule.
MCBodies == {Patches(monthly, Keep, Keep), Patches(hourly, 2, Keep),
             Patches(Keep, Keep, {d1}), Patches(Keep, Keep, {}),
             Patches(Keep, 2, {d2}), Patches(monthly, 1, {d1, d2})}

\* For requests that overlap: those that can meet at the profile or at a row.
MCMeeting == {Bars(Patches(monthly, Keep, Keep)), Patches(Keep, Keep, {}),
              Bars(Patches(Keep, 2, {d2})), Patches(monthly, 1, {d1, d2})}

MCPlans == {{}, {d1, d2}}
============================================================================
