----------------------------- MODULE Documents -----------------------------
(***************************************************************************)
(* documents.rs: a document is a file, named by its identifier, and a row  *)
(* of item_documents.  An upload writes the file first, then the row in a  *)
(* transaction that holds the item; whatever fails afterwards, the file is *)
(* removed only if no row is found.  The handler may be dropped (its       *)
(* client is gone, the server stops) between any two steps, and a COMMIT   *)
(* whose reply is lost may be carried out at any later time, or never.     *)
(***************************************************************************)
EXTENDS Naturals, FiniteSets

CONSTANTS
    Docs,      \* the identifiers uploads draw (UUIDs: one upload for each)
    Items,
    Spaces,
    Quota,     \* MAX_DOCUMENTS_PER_ITEM
    Nothing    \* no row, no place

ASSUME QuotaAssumption == Quota \in Nat \ {0}
ASSUME NothingAssumption == Nothing \notin Items \X Spaces

VARIABLES
    item,      \* inventory_items: the space and whether the state is trashed
    file,      \* the file of each identifier
    row,       \* item_documents
    upload,    \* the upload that drew each identifier
    doubt      \* the COMMIT of each, if the upload was left in doubt of it

vars == <<item, file, row, upload, doubt>>

\* open: still to be carried out or rolled back; missed: so it was when the upload
\* looked for its row; late: that was then settled.
Doubts == {"none", "open", "missed", "late"}

\* How an upload ends: answered with success, or with an error and nothing
\* left, or with an error and perhaps something left, or not at all.
Ends == {"created", "refused", "unclean", "interrupted"}

Upload == [pc : {"new", "writing", "written", "locked", "counted", "committed",
                 "failed", "removing"} \cup Ends,
           place : (Items \X Spaces) \cup {Nothing}]

Row == [place : Items \X Spaces, deleted : BOOLEAN]

ASSUME RowAssumption == Nothing \notin Row

\* The type of the state; an identifier serves one upload only.
TypeOK ==
    /\ item \in [Items -> [space : Spaces, trashed : BOOLEAN]]
    /\ file \in [Docs -> {"absent", "partial", "whole"}]
    /\ row \in [Docs -> Row \cup {Nothing}]
    /\ upload \in [Docs -> Upload]
    /\ doubt \in [Docs -> Doubts]
    /\ \A d \in Docs : row[d] # Nothing => row[d].place = upload[d].place

Init ==
    /\ item \in [Items -> [space : Spaces, trashed : {FALSE}]]
    /\ file = [d \in Docs |-> "absent"]
    /\ row = [d \in Docs |-> Nothing]
    /\ upload = [d \in Docs |-> [pc |-> "new", place |-> Nothing]]
    /\ doubt = [d \in Docs |-> "none"]

----------------------------------------------------------------------------
ItemOf(d) == upload[d].place[1]
SpaceOf(d) == upload[d].place[2]

\* The queries of documents(), document(): the rows not deleted of an item in a
\* space.
Active(d) == row[d] # Nothing /\ ~ row[d].deleted
ActiveAt(place) == {d \in Docs : Active(d) /\ row[d].place = place}

\* The transaction of an upload holds the item until it is over, which a COMMIT in
\* doubt is not.
Pending(d) == doubt[d] \in {"open", "missed"}
Holds(d) == upload[d].pc \in {"locked", "counted"} \/ Pending(d)

ItemIsFree(i) == \A d \in Docs : Holds(d) => ItemOf(d) # i

Goto(d, pc) == upload' = [upload EXCEPT ![d].pc = pc]

----------------------------------------------------------------------------
\* The request is authorised and its body complete; the file is created.
OpenFile(d) == file' = [file EXCEPT ![d] = "partial"]

\* Mutant: an identifier is drawn again.
ReceiveAgain(d, place) ==
    /\ upload[d].pc \in {"new"} \cup Ends
    /\ upload' = [upload EXCEPT ![d] = [pc |-> "writing", place |-> place]]
    /\ OpenFile(d)
    /\ UNCHANGED <<item, row, doubt>>

Receive(d, place) ==
    /\ upload[d].pc = "new"
    /\ upload' = [upload EXCEPT ![d] = [pc |-> "writing", place |-> place]]
    /\ OpenFile(d)
    /\ UNCHANGED <<item, row, doubt>>

WriteFile(d) ==
    /\ upload[d].pc = "writing"
    /\ \/ file' = [file EXCEPT ![d] = "whole"] /\ Goto(d, "written")
       \/ UNCHANGED file /\ Goto(d, "removing")
    /\ UNCHANGED <<item, row, doubt>>

\* SELECT ... FOR UPDATE of the item, then the checks on what it holds.
LockItem(d) ==
    LET i == ItemOf(d) IN
    /\ upload[d].pc = "written"
    /\ ItemIsFree(i)
    /\ Goto(d, IF item[i].space = SpaceOf(d) /\ ~ item[i].trashed
               THEN "locked" ELSE "failed")
    /\ UNCHANGED <<item, file, row, doubt>>

CountDocuments(d) ==
    /\ upload[d].pc = "locked"
    /\ Goto(d, IF Cardinality(ActiveAt(upload[d].place)) < Quota
               THEN "counted" ELSE "failed")
    /\ UNCHANGED <<item, file, row, doubt>>

Inserted(d) ==
    row' = [row EXCEPT ![d] = [place |-> upload[d].place, deleted |-> FALSE]]

Commit(d) ==
    /\ upload[d].pc = "counted"
    /\ Inserted(d)
    /\ Goto(d, "committed")
    /\ UNCHANGED <<item, file, doubt>>

\* Mutant: the upload starts its transaction again, as often as it fails.
RetriedForEver(d) ==
    /\ upload[d].pc \in {"written", "locked", "counted", "committed"}
    /\ Goto(d, "written")
    /\ UNCHANGED <<item, file, row, doubt>>

\* The database fails the transaction, or the reply to its COMMIT is lost: the
\* upload cannot tell which.
DatabaseFails(d) ==
    /\ upload[d].pc \in {"written", "locked", "counted", "committed"}
    /\ \/ UNCHANGED doubt
       \/ upload[d].pc = "counted" /\ doubt' = [doubt EXCEPT ![d] = "open"]
    /\ Goto(d, "failed")
    /\ UNCHANGED <<item, file, row>>

\* The server carries out the COMMIT in doubt, or rolls the transaction back.
Settle(d) ==
    /\ Pending(d)
    /\ Inserted(d) \/ UNCHANGED row
    /\ doubt' = [doubt EXCEPT ![d] = IF @ = "open" THEN "none" ELSE "late"]
    /\ UNCHANGED <<item, file, upload>>

\* document(): the row may have been deleted since.
ReadBack(d) ==
    /\ upload[d].pc = "committed"
    /\ Goto(d, IF Active(d) THEN "created" ELSE "failed")
    /\ UNCHANGED <<item, file, row, doubt>>

\* A row that is not there when the upload looks may still appear.
Missed(d) == IF doubt[d] = "open" THEN "missed" ELSE doubt[d]

\* Mutants: only an active row keeps its file; the file is never removed.
KeepsActiveOnly(d) ==
    /\ upload[d].pc = "failed"
    /\ Goto(d, IF Active(d) THEN "refused" ELSE "removing")
    /\ doubt' = [doubt EXCEPT ![d] = Missed(d)]
    /\ UNCHANGED <<item, file, row>>

NeverRemoves(d) ==
    /\ upload[d].pc = "failed"
    /\ Goto(d, "refused")
    /\ UNCHANGED <<item, file, row, doubt>>

\* Does the row exist, deleted or not?  Any connection of the pool is asked.  A
\* query that fails counts as yes.
LookForRow(d) ==
    /\ upload[d].pc = "failed"
    /\ \/ row[d] # Nothing /\ Goto(d, "refused") /\ UNCHANGED doubt
       \/ /\ row[d] = Nothing /\ Goto(d, "removing")
          /\ doubt' = [doubt EXCEPT ![d] = Missed(d)]
       \/ Goto(d, "unclean") /\ UNCHANGED doubt
    /\ UNCHANGED <<item, file, row>>

\* remove_file: its own failure is ignored.
RemoveFile(d) ==
    /\ upload[d].pc = "removing"
    /\ \/ file' = [file EXCEPT ![d] = "absent"] /\ Goto(d, "refused")
       \/ UNCHANGED file /\ Goto(d, "unclean")
    /\ UNCHANGED <<item, row, doubt>>

\* The handler is dropped.  The operation it was waiting for, on a file or on
\* the database, may still be carried out.
Abandon(d) ==
    /\ upload[d].pc \notin {"new"} \cup Ends
    /\ Goto(d, "interrupted")
    /\ \/ UNCHANGED <<file, row>>
       \/ /\ upload[d].pc = "writing"
          /\ file' = [file EXCEPT ![d] = "whole"]
          /\ UNCHANGED row
       \/ upload[d].pc = "counted" /\ Inserted(d) /\ UNCHANGED file
       \/ /\ upload[d].pc = "removing"
          /\ file' = [file EXCEPT ![d] = "absent"]
          /\ UNCHANGED row
    /\ UNCHANGED <<item, doubt>>

----------------------------------------------------------------------------
\* delete_document: one UPDATE, of no item lock.  The file stays.
Delete(d) ==
    /\ Active(d)
    /\ row' = [row EXCEPT ![d].deleted = TRUE]
    /\ UNCHANGED <<item, file, upload, doubt>>

\* A transfer, and the routes that trash and restore, hold the item's row.
TransferItem(i, s) ==
    /\ ItemIsFree(i)
    /\ ~ item[i].trashed /\ item[i].space # s
    /\ item' = [item EXCEPT ![i].space = s]
    /\ UNCHANGED <<file, row, upload, doubt>>

TrashOrRestore(i) ==
    /\ ItemIsFree(i)
    /\ item' = [item EXCEPT ![i].trashed = ~ @]
    /\ UNCHANGED <<file, row, upload, doubt>>

ServerStep(d) ==
    \/ WriteFile(d) \/ LockItem(d) \/ CountDocuments(d) \/ Commit(d)
    \/ DatabaseFails(d) \/ Settle(d)
    \/ ReadBack(d) \/ LookForRow(d) \/ RemoveFile(d)

Next ==
    \/ \E d \in Docs :
           \/ \E place \in Items \X Spaces : Receive(d, place)
           \/ ServerStep(d) \/ Abandon(d) \/ Delete(d)
    \/ \E i \in Items : TrashOrRestore(i) \/ \E s \in Spaces : TransferItem(i, s)

Spec == Init /\ [][Next]_vars

\* The database and the file system answer, a COMMIT is carried out or rolled back
\* in the end, and a lock is granted in turn.
FairSpec == Spec /\ \A d \in Docs : SF_vars(ServerStep(d))

----------------------------------------------------------------------------
\* document_bytes: the file has the size and the digest of its row.
Readable(d) == file[d] = "whole"

\* Can download_document serve it?
Shelved(d) ==
    CASE row[d] = Nothing -> "absent"
      [] row[d] # Nothing /\ ~ Readable(d) -> "lost"
      [] Active(d) /\ Readable(d) -> "kept"
      [] OTHER -> "gone"

Shelf == INSTANCE DocumentShelf WITH
    Docs <- Docs, Items <- Items, Spaces <- Spaces, Quota <- Quota,
    Nothing <- Nothing,
    item <- item,
    shelf <- [d \in Docs |-> Shelved(d)],
    place <- [d \in Docs |-> IF row[d] = Nothing THEN Nothing ELSE row[d].place],
    told <- {d \in Docs : upload[d].pc = "created"},
    unsure <- {d \in Docs : doubt[d] \in {"missed", "late"}}

\* The file and the row, written and removed apart and in the face of failures,
\* behave as one document: no row is without its whole file (the comment of
\* upload_document fears a document "permanently unreadable"), but where the upload
\* looked for its row before a COMMIT in doubt was carried out; the quota and the
\* state of the item hold when the row appears, however late; and no success is
\* announced of a document that nobody could read.
ImplementsShelf == Shelf!Spec

\* No upload leaves a file behind that no row refers to, but one that was
\* interrupted, or whose clean-up itself failed.
NoOrphan ==
    \A d \in Docs : file[d] # "absent" /\ row[d] = Nothing =>
        upload[d].pc \notin {"new", "committed", "created", "refused"}

\* Every upload ends, whatever the others do to the item meanwhile.
UploadsEnd == \A d \in Docs : upload[d].pc = "writing" ~> upload[d].pc \in Ends
=============================================================================
