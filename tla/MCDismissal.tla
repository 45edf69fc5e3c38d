---------------------------- MODULE MCDismissal ----------------------------
(***************************************************************************)
(* Instances of Dismissal for TLC.                                         *)
(***************************************************************************)
EXTENDS Dismissal
============================================================================
