----------------------------- MODULE MCPayroll -----------------------------
(***************************************************************************)
(* Instances of Payroll for TLC: two-day months, the last day of month 1   *)
(* and the days after it.                                                  *)
(***************************************************************************)
EXTENDS Payroll, TLC

Shift(d, n) == [date |-> d, type |-> "shift", amount |-> n,
                start_time |-> 9, end_time |-> 18]
Night(d, n) == [date |-> d, type |-> "hourly", amount |-> n,
                start_time |-> 22, end_time |-> 6]

\* Days of months 0 to 2, with night shifts, one of them at less than nothing; and none.
MCPlans == {{}, {Shift(1, 100), Night(2, 3), Night(3, -2), Shift(4, 7)}}

MCNewAdjs == {[type |-> "bonus", amount |-> 1, date |-> 3],
              [type |-> "fine", amount |-> 2, date |-> 4]}

MCPatches == {[type |-> "fine", amount |-> Keep, date |-> Keep],
              [type |-> "bonus", amount |-> Keep, date |-> 4]}

\* Nothing, one day left out and one moved into the month, the sums given.
MCWhatIfs == {[schedule |-> {}, exclude |-> {}, bonuses |-> Null, fines |-> Null],
              [schedule |-> {}, exclude |-> {2, 3}, bonuses |-> Null, fines |-> 5],
              [schedule |-> {Shift(3, 9)}, exclude |-> {}, bonuses |-> 5, fines |-> Null]}

PayrollSymmetry == Permutations(Adj)
============================================================================
