-------------------------- MODULE MCSpaceMembers --------------------------
(* Small instances of SpaceMembers for TLC.                                *)
EXTENDS SpaceMembers, TLC

\* Requests are interchangeable, and so are the accounts that no constant names.
Symmetry ==
    Permutations(Requests) \cup Permutations(Accounts \ (Admins \cup {Founder}))
=============================================================================
