---------------------------- MODULE MCItemLinks ----------------------------
(***************************************************************************)
(* Model checking of ItemLinks: items, spaces and requests interchange.    *)
(***************************************************************************)
EXTENDS ItemLinks, TLC

Symmetry ==
    Permutations(Items) \cup Permutations(Spaces) \cup Permutations(Requests)
=============================================================================
