---------------------------- MODULE MCTimeClock ----------------------------
(***************************************************************************)
(* Instances of TimeClock for TLC.                                         *)
(***************************************************************************)
EXTENDS TimeClock, TLC

CONSTANTS c1, c2, e1, e2

\* One company, or one employee in each of two.
OneCompany == [e \in Employee |-> c1]
TwoCompanies == [e \in Employee |-> IF e = e1 THEN c1 ELSE c2]

Patch(in, out) == [check_in |-> in, check_out |-> out]

\* Close an entry, move its check-in, reopen it, or ask for a NULL check-in.
AllBodies == {Patch(Keep, 1), Patch(0, Keep), Patch(Keep, Null), Patch(Null, Keep)}

\* What an admin sends who never reopens an entry.
ClosingBodies == {Patch(Keep, 1), Patch(1, Keep)}

ConcurrentSymmetry ==
    Permutations(ScanReq) \cup Permutations(GenReq) \cup Permutations(Entry)
        \cup Permutations(Code)

SerialSymmetry == ConcurrentSymmetry \cup Permutations(Employee)
============================================================================
