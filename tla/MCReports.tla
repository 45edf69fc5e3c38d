----------------------------- MODULE MCReports -----------------------------
(***************************************************************************)
(* Instances of Reports for TLC.                                           *)
(***************************************************************************)
EXTENDS Reports, TLC

Symmetry == Permutations(Employee) \cup Permutations(Company)
============================================================================
