----------------------------- MODULE MCAvatars -----------------------------
(***************************************************************************)
(* Instances of Avatars for TLC.                                           *)
(***************************************************************************)
EXTENDS Avatars, TLC

AvatarSymmetry == Permutations(Employee) \cup Permutations(Key) \cup Permutations(Req)
============================================================================
