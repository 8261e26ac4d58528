---------------------------- MODULE MCSessions ----------------------------
(***************************************************************************)
(* Model checking of Sessions: the tokens, the accounts and the slots of   *)
(* the requests are interchangeable.                                       *)
(***************************************************************************)
EXTENDS Sessions, TLC

Symmetry ==
    Permutations(Tokens) \cup Permutations(Accounts) \cup Permutations(Requests)
=============================================================================
