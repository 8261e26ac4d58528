-------------------------- MODULE MCClassification --------------------------
(***************************************************************************)
(* Classification with the two spaces, the two values and the names        *)
(* interchangeable: no action or property tells one from another.          *)
(***************************************************************************)
EXTENDS Classification, TLC

Symmetry == Permutations(Spaces) \cup Permutations(Values)
=============================================================================
