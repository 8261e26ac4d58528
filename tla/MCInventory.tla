---------------------------- MODULE MCInventory ----------------------------
(* Small instances of Inventory for TLC.                                   *)
EXTENDS Inventory, TLC

\* Requests, items, spaces and names are interchangeable in what is checked
\* under this symmetry.
Symmetry ==
    Permutations(Requests) \cup Permutations(Items) \cup Permutations(Spaces)
        \cup Permutations(Names)
=============================================================================
