---------------------------- MODULE MCSessions ----------------------------
(***************************************************************************)
(* Instances of Sessions for TLC.                                          *)
(***************************************************************************)
EXTENDS Sessions, TLC

SessionSymmetry ==
    Permutations(User) \cup Permutations(Email) \cup Permutations(Session)
        \cup Permutations(RegReq) \cup Permutations(CallReq) \cup Permutations(LoginReq)
============================================================================
