--------------------------- MODULE DocumentShelf ---------------------------
(***************************************************************************)
(* What a user may expect of the documents of the items: each is added at  *)
(* most once, to an item that is then in its space and not trashed, within *)
(* the quota of the item in that space; it stays readable there, wherever  *)
(* the item goes, until someone takes it off; and an upload is said to     *)
(* have succeeded only of a document that was on the shelf.  Of an upload  *)
(* that failed without knowing whether it was carried out, one thing less: *)
(* the document it adds may turn out to be lost.                           *)
(* Documents.tla implements this with a file and a row that no transaction *)
(* covers together.                                                        *)
(***************************************************************************)
EXTENDS Naturals, FiniteSets

CONSTANTS
    Docs,      \* the identifiers of the documents
    Items,
    Spaces,
    Quota,     \* how many documents an item may keep in a space
    Nothing    \* the place of a document that was never added

VARIABLES
    item,      \* where each item is, and whether it is trashed
    shelf,     \* each document: absent, kept (anyone may read it), gone, lost
    place,     \* the item and the space it was added to
    told,      \* the documents whose upload was answered with success
    unsure     \* the documents whose upload failed without knowing

vars == <<item, shelf, place, told, unsure>>

KeptAt(i, s) == {d \in Docs : shelf[d] = "kept" /\ place[d] = <<i, s>>}

Init ==
    /\ item \in [Items -> [space : Spaces, trashed : BOOLEAN]]
    /\ shelf = [d \in Docs |-> "absent"]
    /\ place = [d \in Docs |-> Nothing]
    /\ told = {}
    /\ unsure = {}

\* An item moves, is trashed or restored.  Its documents do not follow it.
MoveItem(i) ==
    /\ item' \in [Items -> [space : Spaces, trashed : BOOLEAN]]
    /\ \A j \in Items \ {i} : item'[j] = item[j]
    /\ UNCHANGED <<shelf, place, told, unsure>>

Add(d, i) ==
    /\ shelf[d] = "absent"
    /\ ~ item[i].trashed
    /\ Cardinality(KeptAt(i, item[i].space)) < Quota
    /\ \/ shelf' = [shelf EXCEPT ![d] = "kept"]
       \/ d \in unsure /\ shelf' = [shelf EXCEPT ![d] = "lost"]
    /\ place' = [place EXCEPT ![d] = <<i, item[i].space>>]
    /\ UNCHANGED <<item, told, unsure>>

TakeOff(d) ==
    /\ shelf[d] = "kept"
    /\ shelf' = [shelf EXCEPT ![d] = "gone"]
    /\ UNCHANGED <<item, place, told, unsure>>

Confirm(d) ==
    /\ shelf[d] = "kept"
    /\ d \notin unsure
    /\ told' = told \cup {d}
    /\ UNCHANGED <<item, shelf, place, unsure>>

\* An upload gives up; its document may still be added.
GiveUp(d) ==
    /\ shelf[d] = "absent"
    /\ unsure' = unsure \cup {d}
    /\ UNCHANGED <<item, shelf, place, told>>

Lose(d) ==
    /\ d \in unsure
    /\ shelf[d] \in {"kept", "gone"}
    /\ shelf' = [shelf EXCEPT ![d] = "lost"]
    /\ UNCHANGED <<item, place, told, unsure>>

Next ==
    \/ \E i \in Items : MoveItem(i)
    \/ \E d \in Docs :
           \/ TakeOff(d) \/ Confirm(d) \/ GiveUp(d) \/ Lose(d)
           \/ \E i \in Items : Add(d, i)

Spec == Init /\ [][Next]_vars
=============================================================================
