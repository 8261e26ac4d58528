-------------------------- MODULE DocumentsProofs -------------------------
(***************************************************************************)
(* The file and the row of a document, written by an upload that may stop  *)
(* anywhere, implement the shelf, for every number of uploads, items and   *)
(* spaces, and every quota.                                                *)
(***************************************************************************)
EXTENDS Documents, FiniteSetTheorems, TLAPS

\* How far an upload is, and what may then be found of its file, its row and the
\* doubt it is left in.
FileOK(pc, f, w, c) ==
    /\ pc = "new" => f = "absent"
    /\ pc \in {"new", "writing", "written", "locked", "counted"} => w = Nothing
    /\ pc = "removing" => c # "open" /\ (c # "late" => w = Nothing)
    /\ pc \in {"committed", "created"} => w # Nothing
    /\ pc \in {"written", "locked", "counted", "failed"} => f = "whole"
    /\ pc = "refused" => f = "absent" \/ w # Nothing
    /\ w # Nothing /\ c # "late" => f = "whole"
    /\ c \in {"open", "missed"} => w = Nothing
    /\ c = "open" => f = "whole"
    /\ c # "none" => pc \in {"failed", "removing", "refused", "unclean", "interrupted"}

\* An upload that may still insert its row: it has found room for it.
Counts(d) == upload[d].pc = "counted" \/ Pending(d)

\* An upload that holds its item: the item is where the upload wants it.
Fits(d) == item[ItemOf(d)].space = SpaceOf(d) /\ ~ item[ItemOf(d)].trashed

UploadOK(d) ==
    /\ upload[d].pc # "new" => upload[d].place \in Items \X Spaces
    /\ FileOK(upload[d].pc, file[d], row[d], doubt[d])
    /\ Holds(d) => Fits(d)
    /\ Counts(d) => Cardinality(ActiveAt(upload[d].place)) < Quota

\* No item has two holders.
LocksExclude ==
    \A d, e \in Docs : d # e /\ Holds(d) /\ Holds(e) => ItemOf(d) # ItemOf(e)

\* Only so many rows have been inserted.
Inserts == {d \in Docs : row[d] # Nothing}

IInv ==
    /\ TypeOK
    /\ \A d \in Docs : UploadOK(d)
    /\ LocksExclude
    /\ IsFiniteSet(Inserts)

----------------------------------------------------------------------------
LEMMA InitIInv == Init => IInv
<1> SUFFICES ASSUME Init PROVE IInv
  OBVIOUS
<1>1. /\ item \in [Items -> [space : Spaces, trashed : BOOLEAN]]
      /\ file \in [Docs -> {"absent", "partial", "whole"}]
      /\ row \in [Docs -> Row \cup {Nothing}]
      /\ upload \in [Docs -> Upload]
      /\ doubt \in [Docs -> Doubts]
  BY DEF Init, Upload, Doubts
<1>2. \A d \in Docs : /\ upload[d].pc = "new" /\ file[d] = "absent"
                      /\ row[d] = Nothing /\ doubt[d] = "none"
  BY DEF Init
<1>3. TypeOK
  BY <1>1, <1>2 DEF TypeOK
<1>4. ASSUME NEW d \in Docs PROVE UploadOK(d)
  BY <1>2 DEF UploadOK, FileOK, Holds, Counts, Pending
<1>5. LocksExclude
  BY <1>2 DEF LocksExclude, Holds, Pending
<1>6. Inserts = {}
  BY <1>2 DEF Inserts
<1> QED BY <1>3, <1>4, <1>5, <1>6, FS_EmptySet DEF IInv

\* A smaller set of documents fits the quota if a larger one does.
LEMMA FewerFit ==
    ASSUME NEW S, IsFiniteSet(S), Cardinality(S) < Quota, NEW T \in SUBSET S
    PROVE  Cardinality(T) < Quota
<1>1. Cardinality(S) \in Nat /\ Cardinality(T) \in Nat /\ Cardinality(T) <= Cardinality(S)
  BY FS_Subset, FS_CardinalityType
<1> QED BY <1>1, QuotaAssumption

LEMMA ActiveAreInserts ==
    ASSUME IInv, NEW place
    PROVE  IsFiniteSet(ActiveAt(place))
<1>1. ActiveAt(place) \subseteq Inserts
  BY DEF ActiveAt, Active, Inserts
<1> QED BY <1>1, FS_Subset DEF IInv

\* Who may still insert holds its item: it fits, and nobody else holds the item.
LEMMA CountsHold ==
    ASSUME IInv, NEW d \in Docs, Counts(d)
    PROVE  /\ Holds(d) /\ Fits(d) /\ upload[d].pc # "new" /\ row[d] = Nothing
           /\ Cardinality(ActiveAt(upload[d].place)) < Quota
           /\ \A e \in Docs \ {d} : Holds(e) => ItemOf(e) # ItemOf(d)
<1>1. Holds(d) /\ UploadOK(d)
  BY DEF IInv, Counts, Holds
<1>2. upload[d].pc # "new" /\ row[d] = Nothing
  BY <1>1 DEF UploadOK, FileOK, Counts, Pending
<1> QED BY <1>1, <1>2 DEF UploadOK, IInv, LocksExclude

\* A step of the upload of d, or of its COMMIT.  The row it inserts, if any, is of
\* a place it has counted and whose item it holds: no other upload that has counted
\* the same place is waiting to insert.
LEMMA GotoStep ==
    ASSUME IInv, NEW d \in Docs, upload[d].pc # "new",
           NEW pc \in {"writing", "written", "locked", "counted", "committed",
                       "failed", "removing"} \cup Ends,
           NEW f \in {"absent", "partial", "whole"}, NEW w \in Row \cup {Nothing},
           NEW c \in Doubts, Goto(d, pc), UNCHANGED item,
           file' = [file EXCEPT ![d] = f], row' = [row EXCEPT ![d] = w],
           doubt' = [doubt EXCEPT ![d] = c], FileOK(pc, f, w, c),
           \/ w = row[d]
           \/ /\ Counts(d) /\ pc # "counted" /\ c \notin {"open", "missed"}
              /\ w = [place |-> upload[d].place, deleted |-> FALSE],
           pc \in {"locked", "counted"} \/ c \in {"open", "missed"} =>
               /\ Fits(d)
               /\ \A e \in Docs \ {d} : Holds(e) => ItemOf(e) # ItemOf(d),
           pc = "counted" \/ c \in {"open", "missed"} =>
               Cardinality(ActiveAt(upload[d].place)) < Quota
    PROVE  IInv'
<1>1. /\ upload' = [upload EXCEPT ![d] = [upload[d] EXCEPT !.pc = pc]]
      /\ upload[d] \in Upload
  BY DEF Goto, IInv, TypeOK
<1>2. PICK u \in Upload : /\ upload' = [upload EXCEPT ![d] = u]
                          /\ u.pc = pc /\ u.place = upload[d].place
  <2>1. [upload[d] EXCEPT !.pc = pc] \in Upload
    BY <1>1 DEF Upload, Ends
  <2>2. [upload[d] EXCEPT !.pc = pc].pc = pc
    BY <1>1 DEF Upload
  <2>3. [upload[d] EXCEPT !.pc = pc].place = upload[d].place
    BY <1>1 DEF Upload
  <2> QED BY <1>1, <2>1, <2>2, <2>3
<1>3. /\ upload'[d] = u /\ file'[d] = f /\ row'[d] = w /\ doubt'[d] = c
      /\ \A e \in Docs \ {d} : /\ upload'[e] = upload[e] /\ doubt'[e] = doubt[e]
                               /\ file'[e] = file[e] /\ row'[e] = row[e]
  BY <1>2 DEF IInv, TypeOK
<1>4. upload[d].place \in Items \X Spaces
  BY DEF IInv, UploadOK
<1>5. TypeOK'
  <2>1. /\ upload' \in [Docs -> Upload] /\ row' \in [Docs -> Row \cup {Nothing}]
        /\ file' \in [Docs -> {"absent", "partial", "whole"}]
        /\ item' \in [Items -> [space : Spaces, trashed : BOOLEAN]]
        /\ doubt' \in [Docs -> Doubts]
    BY <1>2 DEF IInv, TypeOK
  <2>2. ASSUME NEW e \in Docs, row'[e] # Nothing PROVE row'[e].place = upload'[e].place
    <3>1. CASE e = d
      BY <1>2, <1>3, <2>2, <3>1 DEF IInv, TypeOK
    <3>2. CASE e # d
      BY <1>3, <2>2, <3>2 DEF IInv, TypeOK
    <3> QED BY <3>1, <3>2
  <2> QED BY <2>1, <2>2 DEF TypeOK
<1>6. ASSUME NEW e \in Docs, e # d
      PROVE  ItemOf(e)' = ItemOf(e) /\ Holds(e)' = Holds(e) /\ Counts(e)' = Counts(e)
  BY <1>3, <1>6 DEF ItemOf, Holds, Counts, Pending
<1>7. /\ ItemOf(d)' = ItemOf(d)
      /\ Holds(d)' => pc \in {"locked", "counted"} \/ c \in {"open", "missed"}
      /\ Counts(d)' => pc = "counted" \/ c \in {"open", "missed"}
  BY <1>2, <1>3 DEF ItemOf, Holds, Counts, Pending
<1>8. LocksExclude'
  <2> SUFFICES ASSUME NEW a \in Docs, NEW b \in Docs, a # b, Holds(a)', Holds(b)'
               PROVE  ItemOf(a)' # ItemOf(b)'
    BY DEF LocksExclude
  <2>1. CASE a # d /\ b # d
    BY <1>6, <2>1 DEF IInv, LocksExclude
  <2>2. CASE a = d
    BY <1>6, <1>7, <2>2
  <2>3. CASE b = d
    BY <1>6, <1>7, <2>3
  <2> QED BY <2>1, <2>2, <2>3
<1>9. UploadOK(d)'
  <2>1. Holds(d)' => Fits(d)'
    BY <1>2, <1>3, <1>7 DEF Fits, ItemOf, SpaceOf
  <2>2. Counts(d)' => Cardinality(ActiveAt(upload[d].place)') < Quota
    <3>1. ASSUME Counts(d)' PROVE row' = row
      BY <1>7, <3>1 DEF IInv, TypeOK
    <3>2. upload'[d].place = upload[d].place
      BY <1>2, <1>3
    <3> QED BY <1>7, <3>1, <3>2 DEF ActiveAt, Active
  <2> QED BY <1>2, <1>3, <1>4, <2>1, <2>2 DEF UploadOK, ActiveAt, Active
<1>10. ASSUME NEW e \in Docs, e # d PROVE UploadOK(e)'
  <2>1. UploadOK(e)
    BY DEF IInv
  <2>2. Holds(e)' => Fits(e)'
    BY <1>3, <1>6, <1>10, <2>1 DEF UploadOK, Fits, ItemOf, SpaceOf
  <2>3. ASSUME Counts(e)
        PROVE  Cardinality({x \in Docs : Active(x)' /\ row'[x].place = upload[e].place}) < Quota
    <3>1. {x \in Docs : Active(x)' /\ row'[x].place = upload[e].place}
              \in SUBSET ActiveAt(upload[e].place)
      <4>1. CASE w = row[d]
        <5>1. row' = row
          BY <4>1 DEF IInv, TypeOK
        <5> QED BY <5>1 DEF Active, ActiveAt
      <4>2. CASE w = [place |-> upload[d].place, deleted |-> FALSE] /\ Counts(d)
        <5>1. ItemOf(e) # ItemOf(d)
          BY <1>10, <2>3, <4>2, CountsHold
        <5>2. row'[d].place # upload[e].place
          BY <1>3, <4>2, <5>1 DEF ItemOf
        <5> QED BY <1>3, <5>2 DEF Active, ActiveAt
      <4> QED BY <4>1, <4>2
    <3>2. Cardinality(ActiveAt(upload[e].place)) < Quota
      BY <2>3, CountsHold
    <3> QED BY <3>1, <3>2, ActiveAreInserts, FewerFit
  <2>4. ASSUME Counts(e)' PROVE Cardinality(ActiveAt(upload[e].place)') < Quota
    <3>1. Counts(e)
      BY <1>6, <1>10, <2>4
    <3>2. upload'[e] = upload[e]
      BY <1>3, <1>10
    <3>3. ActiveAt(upload[e].place)' =
              {x \in Docs : Active(x)' /\ row'[x].place = upload[e].place}
      BY <3>2 DEF ActiveAt
    <3> QED BY <2>3, <3>1, <3>3
  <2>5. /\ upload'[e] = upload[e] /\ file'[e] = file[e]
        /\ row'[e] = row[e] /\ doubt'[e] = doubt[e]
    BY <1>3, <1>10
  <2> QED BY <2>1, <2>2, <2>4, <2>5 DEF UploadOK, ActiveAt, Active
<1>11. IsFiniteSet(Inserts')
  <2>1. Inserts' \subseteq Inserts \cup {d}
    BY <1>3 DEF Inserts
  <2>2. IsFiniteSet(Inserts \cup {d})
    BY FS_AddElement DEF IInv
  <2> QED BY <2>1, <2>2, FS_Subset
<1> QED BY <1>5, <1>8, <1>9, <1>10, <1>11 DEF IInv

\* Where the file and the row stay as they are.
LEMMA Unwritten ==
    ASSUME IInv, NEW d \in Docs
    PROVE  /\ file[d] \in {"absent", "partial", "whole"}
           /\ row[d] \in Row \cup {Nothing}
           /\ doubt[d] \in Doubts
           /\ file = [file EXCEPT ![d] = file[d]]
           /\ row = [row EXCEPT ![d] = row[d]]
           /\ doubt = [doubt EXCEPT ![d] = doubt[d]]
           /\ FileOK(upload[d].pc, file[d], row[d], doubt[d])
           /\ doubt[d] \in {"open", "missed"} => Counts(d)
BY DEF IInv, TypeOK, UploadOK, Counts, Pending

LEMMA InsertedRow ==
    ASSUME IInv, NEW d \in Docs, upload[d].pc # "new"
    PROVE  [place |-> upload[d].place, deleted |-> FALSE] \in Row
BY DEF IInv, UploadOK, Row

----------------------------------------------------------------------------
\* An identifier is drawn: it has no file and no row yet.
LEMMA ReceiveStep ==
    ASSUME IInv, NEW d \in Docs, NEW place \in Items \X Spaces, Receive(d, place)
    PROVE  IInv'
<1>1. PICK u : u = [pc |-> "writing", place |-> place]
  OBVIOUS
<1>2. u \in Upload /\ u.pc = "writing" /\ u.place = place
  BY <1>1 DEF Upload
<1>3. /\ upload[d].pc = "new" /\ upload' = [upload EXCEPT ![d] = u]
      /\ file' = [file EXCEPT ![d] = "partial"] /\ UNCHANGED <<item, row, doubt>>
  BY <1>1 DEF Receive, OpenFile
<1>4. row[d] = Nothing /\ doubt[d] = "none"
  BY <1>3 DEF IInv, UploadOK, FileOK
<1>5. /\ upload'[d] = u /\ file'[d] = "partial" /\ row'[d] = Nothing
      /\ \A e \in Docs \ {d} : upload'[e] = upload[e] /\ file'[e] = file[e]
  BY <1>3, <1>4 DEF IInv, TypeOK
<1>6. TypeOK'
  BY <1>2, <1>3, <1>4, <1>5 DEF IInv, TypeOK
<1>7. UploadOK(d)'
  BY <1>2, <1>3, <1>4, <1>5 DEF UploadOK, FileOK, Holds, Counts, Pending
<1>8. ASSUME NEW e \in Docs, e # d PROVE UploadOK(e)'
  <2>1. /\ upload'[e] = upload[e] /\ file'[e] = file[e]
        /\ row' = row /\ item' = item /\ doubt' = doubt
    BY <1>3, <1>5, <1>8
  <2> QED BY <2>1 DEF IInv, UploadOK, Holds, Counts, Pending, Fits, ItemOf, SpaceOf,
             ActiveAt, Active
<1>9. LocksExclude'
  <2>1. ~ Holds(d)'
    BY <1>2, <1>3, <1>4, <1>5 DEF Holds, Pending
  <2> QED BY <1>3, <1>5, <2>1 DEF IInv, LocksExclude, Holds, Pending, ItemOf
<1>10. IsFiniteSet(Inserts')
  BY <1>3 DEF IInv, Inserts
<1> QED BY <1>6, <1>7, <1>8, <1>9, <1>10 DEF IInv

\* The steps of an upload that take no lock and write no row.
LEMMA QuietStep ==
    ASSUME IInv, NEW d \in Docs, upload[d].pc # "new", UNCHANGED <<item, row>>,
           NEW pc \in {"written", "failed", "removing"} \cup Ends, Goto(d, pc),
           NEW f \in {"absent", "partial", "whole"}, file' = [file EXCEPT ![d] = f],
           NEW c \in Doubts, doubt' = [doubt EXCEPT ![d] = c],
           c \in {"open", "missed"} => Counts(d),
           FileOK(pc, f, row[d], c)
    PROVE  IInv'
BY GotoStep, Unwritten, CountsHold DEF Ends

LEMMA WriteFileStep ==
    ASSUME IInv, NEW d \in Docs, WriteFile(d)
    PROVE  IInv'
<1>1. /\ upload[d].pc = "writing" /\ row[d] = Nothing /\ doubt[d] = "none"
      /\ UNCHANGED <<item, row, doubt>>
  BY DEF WriteFile, IInv, UploadOK, FileOK
<1>2. CASE file' = [file EXCEPT ![d] = "whole"] /\ Goto(d, "written")
  <2>1. FileOK("written", "whole", row[d], "none")
    BY <1>1 DEF FileOK
  <2>2. PICK c \in Doubts :
            /\ c = "none" /\ doubt' = [doubt EXCEPT ![d] = c]
            /\ FileOK("written", "whole", row[d], c)
    BY <1>1, <2>1, Unwritten
  <2>3. c \notin {"open", "missed"} /\ upload[d].pc # "new"
    BY <1>1, <2>2
  <2> QED BY <1>1, <1>2, <2>2, <2>3, QuietStep
<1>3. CASE UNCHANGED file /\ Goto(d, "removing")
  <2>1. FileOK("removing", file[d], row[d], "none")
    BY <1>1 DEF FileOK
  <2> QED BY <1>1, <1>3, <2>1, QuietStep, Unwritten
<1> QED BY <1>2, <1>3 DEF WriteFile

\* The item is free, where it should be, and not trashed; or the upload fails.
LEMMA LockItemStep ==
    ASSUME IInv, NEW d \in Docs, LockItem(d)
    PROVE  IInv'
<1>1. /\ upload[d].pc = "written" /\ UNCHANGED <<item, file, row, doubt>>
      /\ \A e \in Docs : Holds(e) => ItemOf(e) # ItemOf(d)
      /\ Goto(d, IF Fits(d) THEN "locked" ELSE "failed")
  BY DEF LockItem, ItemIsFree, Fits
<1>2. doubt[d] = "none" /\ FileOK("written", file[d], row[d], "none")
  BY <1>1, Unwritten DEF FileOK
<1>3. CASE Fits(d)
  <2>1. FileOK("locked", file[d], row[d], "none")
    BY <1>2 DEF FileOK
  <2> QED BY <1>1, <1>2, <1>3, <2>1, GotoStep, Unwritten
<1>4. CASE ~ Fits(d)
  <2>1. FileOK("failed", file[d], row[d], "none")
    BY <1>2 DEF FileOK
  <2> QED BY <1>1, <1>2, <1>4, <2>1, QuietStep, Unwritten
<1> QED BY <1>3, <1>4

LEMMA CountStep ==
    ASSUME IInv, NEW d \in Docs, CountDocuments(d)
    PROVE  IInv'
<1>1. /\ upload[d].pc = "locked" /\ UNCHANGED <<item, file, row, doubt>>
      /\ Goto(d, IF Cardinality(ActiveAt(upload[d].place)) < Quota
                 THEN "counted" ELSE "failed")
  BY DEF CountDocuments
<1>2. Fits(d) /\ \A e \in Docs \ {d} : Holds(e) => ItemOf(e) # ItemOf(d)
  BY <1>1 DEF IInv, UploadOK, LocksExclude, Holds
<1>3. doubt[d] = "none" /\ FileOK("locked", file[d], row[d], "none")
  BY <1>1, Unwritten DEF FileOK
<1>4. CASE Cardinality(ActiveAt(upload[d].place)) < Quota
  <2>1. FileOK("counted", file[d], row[d], "none")
    BY <1>3 DEF FileOK
  <2> QED BY <1>1, <1>2, <1>3, <1>4, <2>1, GotoStep, Unwritten
<1>5. CASE ~ Cardinality(ActiveAt(upload[d].place)) < Quota
  <2>1. FileOK("failed", file[d], row[d], "none")
    BY <1>3 DEF FileOK
  <2> QED BY <1>1, <1>3, <1>5, <2>1, QuietStep, Unwritten
<1> QED BY <1>4, <1>5

\* The row appears, and the lock is gone with the transaction, whether the upload
\* hears of it, is not there to hear, or has been in doubt.
LEMMA InsertStep ==
    ASSUME IInv, NEW d \in Docs, Counts(d), Inserted(d), UNCHANGED <<item, file>>,
           NEW pc \in {"committed", "failed", "removing"} \cup Ends, Goto(d, pc),
           NEW c \in {"none", "late"}, doubt' = [doubt EXCEPT ![d] = c],
           NEW w \in Row, w = [place |-> upload[d].place, deleted |-> FALSE],
           FileOK(pc, file[d], w, c)
    PROVE  IInv'
<1>1. row' = [row EXCEPT ![d] = w]
  BY DEF Inserted
<1>2. c \in Doubts /\ c \notin {"open", "missed"}
  BY DEF Doubts
<1>3. upload[d].pc # "new"
  BY CountsHold
<1>4. /\ pc \in {"writing", "written", "locked", "counted", "committed", "failed",
                "removing"} \cup Ends
      /\ pc \notin {"locked", "counted"}
  BY DEF Ends
<1>5. /\ file' = [file EXCEPT ![d] = file[d]]
      /\ file[d] \in {"absent", "partial", "whole"}
  BY Unwritten
<1> QED BY <1>1, <1>2, <1>3, <1>4, <1>5, GotoStep

LEMMA CommitStep ==
    ASSUME IInv, NEW d \in Docs, upload[d].pc = "counted", Inserted(d),
           NEW pc \in {"committed", "interrupted"}, Goto(d, pc),
           UNCHANGED <<item, file, doubt>>
    PROVE  IInv'
<1>1. PICK w \in Row : w = [place |-> upload[d].place, deleted |-> FALSE]
  BY InsertedRow
<1>2. doubt[d] = "none" /\ file[d] = "whole" /\ Counts(d)
  BY DEF IInv, UploadOK, FileOK, Counts
<1>3. FileOK(pc, file[d], w, "none")
  BY <1>1, <1>2, RowAssumption DEF FileOK
<1> QED BY <1>1, <1>2, <1>3, InsertStep, Unwritten DEF Ends

\* The COMMIT is carried out or rolled back, wherever the upload has got to.
LEMMA SettleStep ==
    ASSUME IInv, NEW d \in Docs, Settle(d)
    PROVE  IInv'
<1>1. Counts(d) /\ upload[d].pc # "new" /\ UNCHANGED <<item, file, upload>>
  BY CountsHold DEF Settle, Counts
<1>2. PICK c \in {"none", "late"} :
          /\ doubt' = [doubt EXCEPT ![d] = c]
          /\ c = "none" <=> doubt[d] = "open"
  BY DEF Settle, IInv, TypeOK
<1>3. /\ doubt[d] \in {"open", "missed"} /\ row[d] = Nothing
      /\ doubt[d] = "open" => file[d] = "whole"
      /\ upload[d].pc \in {"failed", "removing", "refused", "unclean", "interrupted"}
      /\ FileOK(upload[d].pc, file[d], row[d], doubt[d])
  BY Unwritten DEF Settle, Pending, FileOK
<1>4. Goto(d, upload[d].pc)
  BY <1>1 DEF Goto, IInv, TypeOK, Upload
<1>5. CASE Inserted(d)
  <2>1. PICK w \in Row : w = [place |-> upload[d].place, deleted |-> FALSE]
    BY <1>1, InsertedRow
  <2>2. FileOK(upload[d].pc, file[d], w, c)
    BY <1>2, <1>3, <2>1, RowAssumption DEF FileOK
  <2> QED BY <1>1, <1>2, <1>3, <1>4, <1>5, <2>1, <2>2, InsertStep DEF Ends
<1>6. CASE UNCHANGED row
  <2>1. FileOK(upload[d].pc, file[d], row[d], c)
    BY <1>2, <1>3 DEF FileOK
  <2>2. c \in Doubts /\ c \notin {"open", "missed"}
    BY DEF Doubts
  <2>3. upload[d].pc \in {"written", "failed", "removing"} \cup Ends
    BY <1>3 DEF Ends
  <2>4. /\ file' = [file EXCEPT ![d] = file[d]]
        /\ file[d] \in {"absent", "partial", "whole"}
    BY <1>1, Unwritten
  <2> QED BY <1>1, <1>2, <1>4, <1>6, <2>1, <2>2, <2>3, <2>4, QuietStep
<1> QED BY <1>5, <1>6 DEF Settle

LEMMA FailureStep ==
    ASSUME IInv, NEW d \in Docs, DatabaseFails(d)
    PROVE  IInv'
<1>1. /\ upload[d].pc \in {"written", "locked", "counted", "committed"}
      /\ UNCHANGED <<item, file, row>> /\ Goto(d, "failed")
  BY DEF DatabaseFails
<1>2. doubt[d] = "none" /\ FileOK("failed", file[d], row[d], "none")
  BY <1>1, Unwritten DEF FileOK
<1>3. CASE UNCHANGED doubt
  BY <1>1, <1>2, <1>3, QuietStep, Unwritten
<1>4. CASE upload[d].pc = "counted" /\ doubt' = [doubt EXCEPT ![d] = "open"]
  <2>1. PICK c \in Doubts : c = "open"
    BY DEF Doubts
  <2>2. FileOK("failed", file[d], row[d], c)
    BY <1>2, <1>4, <2>1, Unwritten DEF FileOK
  <2>3. Counts(d) /\ doubt' = [doubt EXCEPT ![d] = c]
    BY <1>4, <2>1 DEF Counts
  <2>4. /\ file' = [file EXCEPT ![d] = file[d]] /\ upload[d].pc # "new"
        /\ file[d] \in {"absent", "partial", "whole"}
    BY <1>1, Unwritten
  <2> QED BY <1>1, <2>2, <2>3, <2>4, QuietStep
<1> QED BY <1>3, <1>4 DEF DatabaseFails

LEMMA ReadBackStep ==
    ASSUME IInv, NEW d \in Docs, ReadBack(d)
    PROVE  IInv'
<1>1. upload[d].pc = "committed" /\ UNCHANGED <<item, file, row, doubt>>
  BY DEF ReadBack
<1>2. PICK pc \in {"created", "failed"} : Goto(d, pc)
  BY DEF ReadBack
<1>3. FileOK(pc, file[d], row[d], doubt[d])
  BY <1>1, Unwritten DEF FileOK
<1> QED BY <1>1, <1>2, <1>3, QuietStep, Unwritten DEF Ends

\* The query finds the row, finds none, which a COMMIT in doubt leaves open, or
\* fails.
LEMMA LookForRowStep ==
    ASSUME IInv, NEW d \in Docs, LookForRow(d)
    PROVE  IInv'
<1>1. upload[d].pc = "failed" /\ UNCHANGED <<item, file, row>>
  BY DEF LookForRow
<1>2. CASE row[d] # Nothing /\ Goto(d, "refused") /\ UNCHANGED doubt
  <2>1. FileOK("refused", file[d], row[d], doubt[d])
    BY <1>1, <1>2, Unwritten DEF FileOK
  <2> QED BY <1>1, <1>2, <2>1, QuietStep, Unwritten DEF Ends
<1>3. CASE /\ row[d] = Nothing /\ Goto(d, "removing")
           /\ doubt' = [doubt EXCEPT ![d] = Missed(d)]
  <2>1. PICK c \in Doubts : /\ c = Missed(d) /\ c # "open"
                            /\ c \in {"open", "missed"} => Counts(d)
    BY Unwritten DEF Missed, Doubts
  <2>2. FileOK("removing", file[d], row[d], c)
    BY <1>1, <1>3, <2>1, Unwritten DEF FileOK
  <2>3. doubt' = [doubt EXCEPT ![d] = c]
    BY <1>3, <2>1
  <2>4. /\ file' = [file EXCEPT ![d] = file[d]] /\ upload[d].pc # "new"
        /\ file[d] \in {"absent", "partial", "whole"}
    BY <1>1, Unwritten
  <2>5. PICK pc \in {"written", "failed", "removing"} \cup Ends :
            pc = "removing" /\ Goto(d, pc)
    BY <1>3
  <2> QED BY <1>1, <2>1, <2>2, <2>3, <2>4, <2>5, QuietStep
<1>4. CASE Goto(d, "unclean") /\ UNCHANGED doubt
  <2>1. FileOK("unclean", file[d], row[d], doubt[d])
    BY <1>1, Unwritten DEF FileOK
  <2> QED BY <1>1, <1>4, <2>1, QuietStep, Unwritten DEF Ends
<1> QED BY <1>2, <1>3, <1>4 DEF LookForRow

LEMMA RemoveFileStep ==
    ASSUME IInv, NEW d \in Docs, RemoveFile(d)
    PROVE  IInv'
<1>1. /\ upload[d].pc = "removing" /\ UNCHANGED <<item, row, doubt>>
      /\ doubt[d] # "open" /\ FileOK("removing", file[d], row[d], doubt[d])
  BY Unwritten DEF RemoveFile, FileOK
<1>2. CASE file' = [file EXCEPT ![d] = "absent"] /\ Goto(d, "refused")
  <2>1. FileOK("refused", "absent", row[d], doubt[d])
    BY <1>1 DEF FileOK
  <2> QED BY <1>1, <1>2, <2>1, QuietStep, Unwritten DEF Ends
<1>3. CASE UNCHANGED file /\ Goto(d, "unclean")
  <2>1. FileOK("unclean", file[d], row[d], doubt[d])
    BY <1>1 DEF FileOK
  <2> QED BY <1>1, <1>3, <2>1, QuietStep, Unwritten DEF Ends
<1> QED BY <1>2, <1>3 DEF RemoveFile

\* A handler that is dropped: what it was waiting for may happen all the same.
LEMMA AbandonStep ==
    ASSUME IInv, NEW d \in Docs, Abandon(d)
    PROVE  IInv'
<1>1. upload[d].pc # "new" /\ Goto(d, "interrupted") /\ UNCHANGED <<item, doubt>>
  BY DEF Abandon
<1>2. CASE UNCHANGED <<file, row>>
  <2>1. FileOK("interrupted", file[d], row[d], doubt[d])
    BY Unwritten DEF FileOK
  <2> QED BY <1>1, <1>2, <2>1, QuietStep, Unwritten DEF Ends
<1>3. CASE /\ upload[d].pc \in {"writing", "removing"} /\ UNCHANGED row
           /\ \E f \in {"whole", "absent"} :
                  /\ file' = [file EXCEPT ![d] = f]
                  /\ f = "whole" => upload[d].pc = "writing"
  <2>1. \A f \in {"whole", "absent"} : FileOK("interrupted", f, row[d], doubt[d])
    BY <1>3, Unwritten DEF FileOK
  <2> QED BY <1>1, <1>3, <2>1, QuietStep, Unwritten DEF Ends
<1>4. CASE upload[d].pc = "counted" /\ Inserted(d) /\ UNCHANGED file
  BY <1>1, <1>4, CommitStep
<1> QED BY <1>2, <1>3, <1>4 DEF Abandon

----------------------------------------------------------------------------
\* A deletion leaves the row, and makes room at most.
LEMMA DeleteStep ==
    ASSUME IInv, NEW d \in Docs, Delete(d)
    PROVE  IInv'
<1>1. PICK w : w = [row[d] EXCEPT !.deleted = TRUE]
  OBVIOUS
<1>2. row[d] \in Row /\ row[d] # Nothing
  BY DEF Delete, Active, IInv, TypeOK
<1>3. w \in Row /\ w # Nothing /\ w.place = row[d].place /\ w.deleted
  BY <1>1, <1>2, RowAssumption DEF Row
<1>4. row' = [row EXCEPT ![d] = w] /\ UNCHANGED <<item, file, upload, doubt>>
  BY <1>1 DEF Delete
<1>5. row'[d] = w /\ \A e \in Docs \ {d} : row'[e] = row[e]
  BY <1>4 DEF IInv, TypeOK
<1>6. TypeOK'
  BY <1>2, <1>3, <1>4, <1>5 DEF IInv, TypeOK
<1>7. ASSUME NEW e \in Docs PROVE UploadOK(e)'
  <2>1. UploadOK(e)
    BY DEF IInv
  <2>2. FileOK(upload[e].pc, file[e], row'[e], doubt[e])
    BY <1>2, <1>3, <1>5, <2>1 DEF UploadOK, FileOK
  <2>3. ASSUME Counts(e)
        PROVE  Cardinality(ActiveAt(upload[e].place)') < Quota
    <3>1. ActiveAt(upload[e].place)' \in SUBSET ActiveAt(upload[e].place)
      BY <1>3, <1>4, <1>5 DEF ActiveAt, Active
    <3> QED BY <2>1, <2>3, <3>1, ActiveAreInserts, FewerFit DEF UploadOK
  <2> QED BY <1>4, <2>1, <2>2, <2>3 DEF UploadOK, Holds, Counts, Pending, Fits,
             ItemOf, SpaceOf
<1>8. LocksExclude'
  BY <1>4 DEF IInv, LocksExclude, Holds, Pending, ItemOf
<1>9. Inserts' = Inserts
  BY <1>2, <1>3, <1>5 DEF Inserts
<1> QED BY <1>6, <1>7, <1>8, <1>9 DEF IInv

\* An item changes only while no upload holds it.
LEMMA ItemStep ==
    ASSUME IInv, NEW i \in Items, ItemIsFree(i), NEW it \in [space : Spaces, trashed : BOOLEAN],
           item' = [item EXCEPT ![i] = it], UNCHANGED <<file, row, upload, doubt>>
    PROVE  IInv'
<1>1. \A j \in Items \ {i} : item'[j] = item[j]
  BY DEF IInv, TypeOK
<1>2. TypeOK'
  BY DEF IInv, TypeOK
<1>3. ASSUME NEW e \in Docs PROVE UploadOK(e)'
  <2>1. UploadOK(e)
    BY DEF IInv
  <2>2. Holds(e) => Fits(e)'
    <3>1. Holds(e) => ItemOf(e) \in Items \ {i}
      BY <2>1 DEF UploadOK, FileOK, Holds, Pending, ItemIsFree, ItemOf
    <3> QED BY <1>1, <2>1, <3>1 DEF UploadOK, Fits, ItemOf, SpaceOf
  <2> QED BY <2>1, <2>2 DEF UploadOK, Holds, Counts, Pending, ActiveAt, Active
<1>4. LocksExclude' /\ IsFiniteSet(Inserts')
  BY DEF IInv, LocksExclude, Holds, Pending, ItemOf, Inserts
<1> QED BY <1>2, <1>3, <1>4 DEF IInv

LEMMA MoveStep ==
    ASSUME IInv, NEW i \in Items,
           TrashOrRestore(i) \/ \E s \in Spaces : TransferItem(i, s)
    PROVE  /\ IInv'
           /\ \E it \in [space : Spaces, trashed : BOOLEAN] :
                  item' = [item EXCEPT ![i] = it]
           /\ UNCHANGED <<file, row, upload, doubt>>
<1>1. item[i] \in [space : Spaces, trashed : BOOLEAN]
  BY DEF IInv, TypeOK
<1>2. CASE TrashOrRestore(i)
  <2>1. /\ ItemIsFree(i) /\ UNCHANGED <<file, row, upload, doubt>>
        /\ item' = [item EXCEPT ![i] = [item[i] EXCEPT !.trashed = ~ item[i].trashed]]
    BY <1>2 DEF TrashOrRestore
  <2>2. [item[i] EXCEPT !.trashed = ~ item[i].trashed] \in [space : Spaces, trashed : BOOLEAN]
    BY <1>1
  <2> QED BY <2>1, <2>2, ItemStep
<1>3. ASSUME NEW s \in Spaces, TransferItem(i, s)
      PROVE  /\ IInv'
             /\ \E it \in [space : Spaces, trashed : BOOLEAN] :
                    item' = [item EXCEPT ![i] = it]
             /\ UNCHANGED <<file, row, upload, doubt>>
  <2>1. /\ ItemIsFree(i) /\ UNCHANGED <<file, row, upload, doubt>>
        /\ item' = [item EXCEPT ![i] = [item[i] EXCEPT !.space = s]]
    BY <1>3 DEF TransferItem
  <2>2. [item[i] EXCEPT !.space = s] \in [space : Spaces, trashed : BOOLEAN]
    BY <1>1
  <2> QED BY <2>1, <2>2, ItemStep
<1> QED BY <1>2, <1>3

----------------------------------------------------------------------------
LEMMA StepIInv == IInv /\ [Next]_vars => IInv'
<1> SUFFICES ASSUME IInv, [Next]_vars PROVE IInv'
  OBVIOUS
<1>1. CASE UNCHANGED vars
  <2>1. UNCHANGED <<item, file, row, upload, doubt>>
    BY <1>1 DEF vars
  <2> QED BY <2>1 DEF IInv, TypeOK, UploadOK, LocksExclude, Inserts, Holds, Counts,
             Pending, Fits, ItemOf, SpaceOf, ActiveAt, Active
<1>2. ASSUME NEW d \in Docs, NEW place \in Items \X Spaces, Receive(d, place)
      PROVE  IInv'
  BY <1>2, ReceiveStep
<1>3. ASSUME NEW d \in Docs, ServerStep(d) PROVE IInv'
  <2>1. CASE Commit(d)
    BY <2>1, CommitStep DEF Commit
  <2> QED BY <1>3, <2>1, WriteFileStep, LockItemStep, CountStep, FailureStep,
             SettleStep, ReadBackStep, LookForRowStep, RemoveFileStep DEF ServerStep
<1>4. ASSUME NEW d \in Docs, Abandon(d) \/ Delete(d) PROVE IInv'
  BY <1>4, AbandonStep, DeleteStep
<1>5. ASSUME NEW i \in Items, TrashOrRestore(i) \/ \E s \in Spaces : TransferItem(i, s)
      PROVE  IInv'
  BY <1>5, MoveStep
<1> QED BY <1>1, <1>2, <1>3, <1>4, <1>5 DEF Next

LEMMA Invariance == Spec => []IInv
BY InitIInv, StepIInv, PTL DEF Spec

----------------------------------------------------------------------------
\* The state is always of its type; an identifier serves one upload only.
THEOREM DocumentsTypeCorrect == Spec => []TypeOK
<1>1. IInv => TypeOK
  BY DEF IInv
<1> QED BY <1>1, Invariance, PTL

\* No upload leaves a file that no row refers to, but one that was interrupted or
\* failed to clean up.
THEOREM NoFileIsOrphaned == Spec => []NoOrphan
<1>1. IInv => NoOrphan
  BY DEF IInv, UploadOK, FileOK, NoOrphan
<1> QED BY <1>1, Invariance, PTL

----------------------------------------------------------------------------
(* The refinement: what the shelf shows of a document is what its row and   *)
(* its file say.                                                           *)

ShelfMark(w, f) ==
    IF w = Nothing THEN "absent"
    ELSE IF f # "whole" THEN "lost" ELSE IF w.deleted THEN "gone" ELSE "kept"
PlaceOf(w) == IF w = Nothing THEN Nothing ELSE w.place

LEMMA RowTells ==
    /\ IInv => \A d \in Docs : Shelved(d) = ShelfMark(row[d], file[d])
    /\ IInv' => \A d \in Docs : Shelved(d)' = ShelfMark(row'[d], file'[d])
<1>1. ASSUME NEW f, NEW w, w = Nothing \/ w.deleted \in BOOLEAN
      PROVE  ShelfMark(w, f) =
                 CASE w = Nothing -> "absent"
                   [] w # Nothing /\ ~ (f = "whole") -> "lost"
                   [] (w # Nothing /\ ~ w.deleted) /\ (f = "whole") -> "kept"
                   [] OTHER -> "gone"
  <2>1. CASE w = Nothing
    BY <2>1 DEF ShelfMark
  <2>2. CASE w # Nothing /\ f # "whole"
    BY <2>2 DEF ShelfMark
  <2>3. CASE w # Nothing /\ f = "whole" /\ w.deleted
    BY <1>1, <2>3 DEF ShelfMark
  <2>4. CASE w # Nothing /\ f = "whole" /\ ~ w.deleted
    BY <1>1, <2>4 DEF ShelfMark
  <2> QED BY <2>1, <2>2, <2>3, <2>4
<1>2. ASSUME IInv, NEW d \in Docs PROVE Shelved(d) = ShelfMark(row[d], file[d])
  <2>1. row[d] = Nothing \/ row[d].deleted \in BOOLEAN
    BY <1>2 DEF IInv, TypeOK, Row
  <2> QED BY <1>1, <2>1 DEF Shelved, Readable, Active
<1>3. ASSUME IInv', NEW d \in Docs PROVE Shelved(d)' = ShelfMark(row'[d], file'[d])
  <2>1. row'[d] = Nothing \/ row'[d].deleted \in BOOLEAN
    BY <1>3 DEF IInv, TypeOK, Row
  <2> QED BY <1>1, <2>1 DEF Shelved, Readable, Active
<1> QED BY <1>2, <1>3

LEMMA InitRefines == Init => Shelf!Init
<1> SUFFICES ASSUME Init PROVE Shelf!Init
  OBVIOUS
<1>1. \A d \in Docs : row[d] = Nothing /\ upload[d].pc = "new" /\ doubt[d] = "none"
  BY DEF Init
<1>2. \A d \in Docs : Shelved(d) = "absent"
  BY <1>1, InitIInv, RowTells DEF ShelfMark
<1>3. item \in [Items -> [space : Spaces, trashed : BOOLEAN]]
  BY DEF Init
<1> QED BY <1>1, <1>2, <1>3 DEF Shelf!Init

\* The state of the shelf, before and after a step.
Told == {d \in Docs : upload[d].pc = "created"}
Unsure == {d \in Docs : doubt[d] \in {"missed", "late"}}

LEMMA ShelfState ==
    ASSUME IInv, IInv'
    PROVE  /\ \A d \in Docs :
                  /\ [e \in Docs |-> Shelved(e)][d] = ShelfMark(row[d], file[d])
                  /\ [e \in Docs |-> Shelved(e)]'[d] = ShelfMark(row'[d], file'[d])
           /\ [e \in Docs |-> Shelved(e)] = [e \in Docs |-> ShelfMark(row[e], file[e])]
           /\ [e \in Docs |-> Shelved(e)]' =
                  [e \in Docs |-> ShelfMark(row'[e], file'[e])]
BY RowTells

\* A step that changes no item, no row and no file that a row refers to, and
\* answers no upload, cannot be seen on the shelf.
LEMMA StutterRefines ==
    ASSUME IInv, IInv', UNCHANGED <<item, row>>, Told' = Told, Unsure' = Unsure,
           \A d \in Docs : ShelfMark(row[d], file'[d]) = ShelfMark(row[d], file[d])
    PROVE  UNCHANGED Shelf!vars
BY ShelfState DEF Shelf!vars, Told, Unsure

\* The shelf counts as the upload does.
LEMMA SameCardinality == \A S : Shelf!Cardinality(S) = Cardinality(S)
BY DEF Shelf!Cardinality, Cardinality

\* A row that appears puts the document on the shelf, where its item is; a document
\* that was given up may be lost by then.
LEMMA InsertRefines ==
    ASSUME IInv, IInv', NEW d \in Docs, Counts(d), Inserted(d),
           UNCHANGED <<item, file>>, Told' = Told, Unsure' = Unsure,
           file[d] = "whole" \/ d \in Unsure
    PROVE  Shelf!Next
<1>1. UploadOK(d)
  BY DEF IInv
<1>2. PICK i \in Items, s \in Spaces : upload[d].place = <<i, s>>
  BY <1>1, CountsHold DEF UploadOK
<1>3. item[i].space = s /\ ~ item[i].trashed
  BY <1>2, CountsHold DEF Fits, ItemOf, SpaceOf
<1>4. PICK w \in Row : w = [place |-> <<i, s>>, deleted |-> FALSE]
  BY <1>2, InsertedRow, CountsHold
<1>5. /\ row' = [row EXCEPT ![d] = w] /\ w # Nothing /\ row'[d] = w
      /\ \A e \in Docs \ {d} : row'[e] = row[e]
  BY <1>2, <1>4, RowAssumption DEF Inserted, IInv, TypeOK
<1>6. PICK mark : mark = IF file[d] = "whole" THEN "kept" ELSE "lost"
  OBVIOUS
<1>7. ShelfMark(w, file[d]) = mark /\ ShelfMark(row[d], file[d]) = "absent"
  BY <1>4, <1>5, <1>6, CountsHold DEF ShelfMark
<1>8. Shelf!KeptAt(i, s) \in SUBSET ActiveAt(<<i, s>>)
  <2>1. \A e \in Docs : ShelfMark(row[e], file[e]) = "kept" => Active(e)
    BY DEF ShelfMark, Active, IInv, TypeOK, Row
  <2>2. ASSUME NEW e \in Shelf!KeptAt(i, s) PROVE e \in ActiveAt(<<i, s>>)
    <3>1. e \in Docs /\ ShelfMark(row[e], file[e]) = "kept"
      BY <2>2, ShelfState DEF Shelf!KeptAt
    <3>2. Active(e) /\ row[e] # Nothing
      BY <2>1, <3>1 DEF Active
    <3>3. row[e].place = <<i, s>>
      BY <2>2, <3>1, <3>2 DEF Shelf!KeptAt
    <3> QED BY <3>1, <3>2, <3>3 DEF ActiveAt
  <2> QED BY <2>2
<1>9. Cardinality(Shelf!KeptAt(i, s)) < Quota
  BY <1>2, <1>8, CountsHold, ActiveAreInserts, FewerFit
<1>10. [e \in Docs |-> Shelved(e)]' = [[e \in Docs |-> Shelved(e)] EXCEPT ![d] = mark]
  <2>1. ShelfMark(row'[d], file'[d]) = mark
    BY <1>5, <1>7
  <2>2. \A e \in Docs \ {d} : ShelfMark(row'[e], file'[e]) = ShelfMark(row[e], file[e])
    BY <1>5
  <2>3. [e \in Docs |-> ShelfMark(row'[e], file'[e])] =
            [[e \in Docs |-> ShelfMark(row[e], file[e])] EXCEPT ![d] = mark]
    BY <2>1, <2>2
  <2> QED BY <2>3, ShelfState
<1>11. [e \in Docs |-> IF row[e] = Nothing THEN Nothing ELSE row[e].place]' =
           [[e \in Docs |-> IF row[e] = Nothing THEN Nothing ELSE row[e].place]
                EXCEPT ![d] = <<i, item[i].space>>]
  <2>1. row'[d] # Nothing /\ row'[d].place = <<i, item[i].space>>
    BY <1>3, <1>4, <1>5
  <2>2. \A e \in Docs \ {d} : row'[e] = row[e]
    BY <1>5
  <2> QED BY <2>1, <2>2
<1>12. Shelf!Add(d, i)
  <2>1. [e \in Docs |-> Shelved(e)][d] = "absent"
    BY <1>7, ShelfState
  <2>2. Shelf!Cardinality(Shelf!KeptAt(i, item[i].space)) < Quota
    BY <1>3, <1>9, SameCardinality
  <2>3. \/ mark = "kept"
        \/ mark = "lost" /\ d \in {e \in Docs : doubt[e] \in {"missed", "late"}}
    BY <1>6 DEF Unsure
  <2>4. UNCHANGED <<item, {e \in Docs : upload[e].pc = "created"},
                    {e \in Docs : doubt[e] \in {"missed", "late"}}>>
    BY DEF Told, Unsure
  <2> QED BY <1>3, <1>10, <1>11, <2>1, <2>2, <2>3, <2>4 DEF Shelf!Add
<1> QED BY <1>12 DEF Shelf!Next

\* The file of a row that appeared late is removed: the document is lost.
LEMMA RemovalRefines ==
    ASSUME IInv, IInv', NEW d \in Docs, UNCHANGED <<item, row, doubt>>, Told' = Told,
           file' = [file EXCEPT ![d] = "absent"], row[d] = Nothing \/ d \in Unsure
    PROVE  Shelf!Next \/ UNCHANGED Shelf!vars
<1>1. /\ file'[d] = "absent" /\ \A e \in Docs \ {d} : file'[e] = file[e]
      /\ Unsure' = Unsure
  BY DEF IInv, TypeOK, Unsure
<1>2. CASE ShelfMark(row[d], file[d]) \in {"absent", "lost"}
  <2>1. ShelfMark(row[d], file'[d]) = ShelfMark(row[d], file[d])
    BY <1>1, <1>2 DEF ShelfMark
  <2> QED BY <1>1, <2>1, StutterRefines
<1>3. CASE ShelfMark(row[d], file[d]) \in {"kept", "gone"}
  <2>1. ShelfMark(row[d], file'[d]) = "lost" /\ d \in Unsure
    BY <1>1, <1>3 DEF ShelfMark
  <2>2. [e \in Docs |-> Shelved(e)]' = [[e \in Docs |-> Shelved(e)] EXCEPT ![d] = "lost"]
    BY <1>1, <2>1, ShelfState
  <2>3. [e \in Docs |-> Shelved(e)][d] \in {"kept", "gone"}
    BY <1>3, ShelfState
  <2>4. Shelf!Lose(d)
    BY <1>1, <2>1, <2>2, <2>3 DEF Shelf!Lose, Told, Unsure
  <2> QED BY <2>4 DEF Shelf!Next
<1> QED BY <1>2, <1>3 DEF ShelfMark

\* A document that is lost cannot be seen to be deleted.
LEMMA DeleteRefines ==
    ASSUME IInv, IInv', NEW d \in Docs, Delete(d)
    PROVE  Shelf!Next \/ UNCHANGED Shelf!vars
<1>1. PICK w : w = [row[d] EXCEPT !.deleted = TRUE]
  OBVIOUS
<1>2. row[d] \in Row /\ row[d] # Nothing /\ ~ row[d].deleted
  BY DEF Delete, Active, IInv, TypeOK
<1>3. w # Nothing /\ w.place = row[d].place /\ w.deleted
  BY <1>1, <1>2, RowAssumption DEF Row
<1>4. row' = [row EXCEPT ![d] = w] /\ UNCHANGED <<item, file, upload, doubt>>
  BY <1>1 DEF Delete
<1>5. row'[d] = w /\ \A e \in Docs \ {d} : row'[e] = row[e]
  BY <1>4 DEF IInv, TypeOK
<1>6. UNCHANGED [e \in Docs |-> IF row[e] = Nothing THEN Nothing ELSE row[e].place]
  BY <1>2, <1>3, <1>5
<1>7. CASE file[d] = "whole"
  <2>1. ShelfMark(row[d], file[d]) = "kept" /\ ShelfMark(w, file[d]) = "gone"
    BY <1>2, <1>3, <1>7 DEF ShelfMark
  <2>2. [e \in Docs |-> Shelved(e)]' = [[e \in Docs |-> Shelved(e)] EXCEPT ![d] = "gone"]
    <3>1. ShelfMark(row'[d], file'[d]) = "gone"
      BY <1>4, <1>5, <2>1
    <3>2. \A e \in Docs \ {d} : ShelfMark(row'[e], file'[e]) = ShelfMark(row[e], file[e])
      BY <1>4, <1>5
    <3>3. [e \in Docs |-> ShelfMark(row'[e], file'[e])] =
              [[e \in Docs |-> ShelfMark(row[e], file[e])] EXCEPT ![d] = "gone"]
      BY <3>1, <3>2
    <3> QED BY <3>3, ShelfState
  <2>3. [e \in Docs |-> Shelved(e)][d] = "kept"
    BY <2>1, ShelfState
  <2>4. Shelf!TakeOff(d)
    BY <1>4, <1>6, <2>2, <2>3 DEF Shelf!TakeOff
  <2> QED BY <2>4 DEF Shelf!Next
<1>8. CASE file[d] # "whole"
  <2>1. ShelfMark(w, file[d]) = ShelfMark(row[d], file[d])
    BY <1>2, <1>3, <1>8 DEF ShelfMark
  <2>2. UNCHANGED [e \in Docs |-> Shelved(e)]
    BY <1>4, <1>5, <2>1, ShelfState
  <2> QED BY <1>4, <1>6, <2>2 DEF Shelf!vars
<1> QED BY <1>7, <1>8

\* An upload is told of its success when it has read its row back.
LEMMA ConfirmRefines ==
    ASSUME IInv, IInv', NEW d \in Docs, ReadBack(d)
    PROVE  Shelf!Next \/ UNCHANGED Shelf!vars
<1>1. /\ upload[d].pc = "committed" /\ UNCHANGED <<item, file, row, doubt>>
      /\ Goto(d, IF Active(d) THEN "created" ELSE "failed")
  BY DEF ReadBack
<1>2. /\ upload'[d].pc = IF Active(d) THEN "created" ELSE "failed"
      /\ \A e \in Docs \ {d} : upload'[e] = upload[e]
  BY <1>1 DEF Goto, IInv, TypeOK, Upload
<1>3. Unsure' = Unsure /\ d \notin Unsure /\ doubt[d] = "none"
  BY <1>1, Unwritten DEF FileOK, Unsure
<1>4. CASE Active(d)
  <2>1. ShelfMark(row[d], file[d]) = "kept"
    BY <1>1, <1>3, <1>4, Unwritten DEF Active, ShelfMark, FileOK
  <2>2. Told' = Told \cup {d}
    BY <1>2, <1>4 DEF Told
  <2>3. [e \in Docs |-> Shelved(e)][d] = "kept" /\ UNCHANGED [e \in Docs |-> Shelved(e)]
    BY <1>1, <2>1, ShelfState
  <2>4. Shelf!Confirm(d)
    BY <1>1, <1>3, <2>2, <2>3 DEF Shelf!Confirm, Told, Unsure
  <2> QED BY <2>4 DEF Shelf!Next
<1>5. CASE ~ Active(d)
  <2>1. Told' = Told
    BY <1>1, <1>2, <1>5 DEF Told
  <2> QED BY <1>1, <1>3, <2>1, StutterRefines
<1> QED BY <1>4, <1>5

LEMMA MoveRefines ==
    ASSUME IInv, IInv', NEW i \in Items,
           TrashOrRestore(i) \/ \E s \in Spaces : TransferItem(i, s)
    PROVE  Shelf!Next
<1>1. PICK it \in [space : Spaces, trashed : BOOLEAN] : item' = [item EXCEPT ![i] = it]
  BY MoveStep
<1>2. UNCHANGED <<file, row, upload, doubt>>
  BY MoveStep
<1>3. /\ item' \in [Items -> [space : Spaces, trashed : BOOLEAN]]
      /\ \A j \in Items \ {i} : item'[j] = item[j]
  BY <1>1 DEF IInv, TypeOK
<1>4. Shelf!MoveItem(i)
  BY <1>2, <1>3, ShelfState DEF Shelf!MoveItem
<1> QED BY <1>4 DEF Shelf!Next

\* The other steps of an upload: they answer nobody with success.
LEMMA GotoTells ==
    ASSUME IInv, NEW d \in Docs, NEW pc, Goto(d, pc), pc # "created",
           upload[d].pc # "created"
    PROVE  Told' = Told
<1>1. /\ upload'[d].pc = pc
      /\ \A e \in Docs \ {d} : upload'[e] = upload[e]
  BY DEF Goto, IInv, TypeOK, Upload
<1> QED BY <1>1 DEF Told

\* Those that look for the row: one that is not there may still appear.
LEMMA LookForRowRefines ==
    ASSUME IInv, IInv', NEW d \in Docs, LookForRow(d)
    PROVE  Shelf!Next \/ UNCHANGED Shelf!vars
<1>1. upload[d].pc = "failed" /\ UNCHANGED <<item, file, row>>
  BY DEF LookForRow
<1>2. Told' = Told
  BY <1>1, GotoTells DEF LookForRow
<1>3. CASE UNCHANGED doubt
  <2>1. Unsure' = Unsure
    BY <1>3 DEF Unsure
  <2> QED BY <1>1, <1>2, <2>1, StutterRefines
<1>4. CASE row[d] = Nothing /\ doubt' = [doubt EXCEPT ![d] = Missed(d)]
  <2>1. CASE doubt[d] # "open"
    BY <1>3, <1>4, <2>1 DEF Missed, IInv, TypeOK
  <2>2. CASE doubt[d] = "open"
    <3>1. Unsure' = Unsure \cup {d}
      BY <1>4, <2>2 DEF Missed, Unsure, IInv, TypeOK
    <3>2. ShelfMark(row[d], file[d]) = "absent"
      BY <1>4 DEF ShelfMark
    <3>3. /\ [e \in Docs |-> Shelved(e)][d] = "absent"
          /\ UNCHANGED [e \in Docs |-> Shelved(e)]
      BY <1>1, <3>2, ShelfState
    <3>4. Shelf!GiveUp(d)
      BY <1>1, <1>2, <3>1, <3>3 DEF Shelf!GiveUp, Told, Unsure
    <3> QED BY <3>4 DEF Shelf!Next
  <2> QED BY <2>1, <2>2
<1> QED BY <1>3, <1>4 DEF LookForRow

\* The COMMIT in doubt is settled.
LEMMA SettleRefines ==
    ASSUME IInv, IInv', NEW d \in Docs, Settle(d)
    PROVE  Shelf!Next \/ UNCHANGED Shelf!vars
<1>1. /\ Pending(d) /\ Counts(d) /\ UNCHANGED <<item, file, upload>>
      /\ doubt' = [doubt EXCEPT ![d] = IF doubt[d] = "open" THEN "none" ELSE "late"]
  BY DEF Settle, Counts
<1>2. Told' = Told /\ Unsure' = Unsure
  BY <1>1 DEF Told, Unsure, Pending, IInv, TypeOK
<1>3. file[d] = "whole" \/ d \in Unsure
  BY <1>1, Unwritten DEF FileOK, Pending, Unsure
<1>4. CASE Inserted(d)
  BY <1>1, <1>2, <1>3, <1>4, InsertRefines
<1>5. CASE UNCHANGED row
  BY <1>1, <1>2, <1>5, StutterRefines
<1> QED BY <1>4, <1>5 DEF Settle

LEMMA UploadRefines ==
    ASSUME IInv, IInv', NEW d \in Docs,
           ServerStep(d) \/ Abandon(d) \/ \E place \in Items \X Spaces : Receive(d, place)
    PROVE  Shelf!Next \/ UNCHANGED Shelf!vars
<1>1. ASSUME NEW f, file' = [file EXCEPT ![d] = f], UNCHANGED <<item, row>>,
             Told' = Told, Unsure' = Unsure, row[d] = Nothing \/ f = file[d]
      PROVE  UNCHANGED Shelf!vars
  <2>1. file'[d] = f /\ \A e \in Docs \ {d} : file'[e] = file[e]
    BY <1>1 DEF IInv, TypeOK
  <2>2. \A e \in Docs : ShelfMark(row[e], file'[e]) = ShelfMark(row[e], file[e])
    BY <1>1, <2>1 DEF ShelfMark
  <2> QED BY <1>1, <2>2, StutterRefines
<1>2. CASE \E place \in Items \X Spaces : Receive(d, place)
  <2>1. PICK place \in Items \X Spaces : Receive(d, place)
    BY <1>2
  <2>2. /\ upload[d].pc = "new" /\ UNCHANGED <<item, row, doubt>>
        /\ upload' = [upload EXCEPT ![d] = [pc |-> "writing", place |-> place]]
        /\ file' = [file EXCEPT ![d] = "partial"]
    BY <2>1 DEF Receive, OpenFile
  <2>3. Told' = Told /\ Unsure' = Unsure
    BY <2>2 DEF Told, Unsure, IInv, TypeOK
  <2>4. row[d] = Nothing
    BY <2>2, Unwritten DEF FileOK
  <2> QED BY <1>1, <2>2, <2>3, <2>4
<1>3. CASE ReadBack(d)
  BY <1>3, ConfirmRefines
<1>4. CASE WriteFile(d)
  <2>1. /\ upload[d].pc = "writing" /\ UNCHANGED <<item, row, doubt>>
        /\ \E f : file' = [file EXCEPT ![d] = f]
    BY <1>4, Unwritten DEF WriteFile
  <2>2. Told' = Told /\ Unsure' = Unsure /\ row[d] = Nothing
    BY <1>4, <2>1, GotoTells, Unwritten DEF WriteFile, Unsure, FileOK
  <2> QED BY <1>1, <2>1, <2>2
<1>5. CASE LockItem(d) \/ CountDocuments(d)
  <2>1. UNCHANGED <<item, file, row, doubt>> /\ upload[d].pc # "created"
    BY <1>5 DEF LockItem, CountDocuments
  <2>2. \E pc : pc # "created" /\ Goto(d, pc)
    <3>1. CASE LockItem(d)
      BY <3>1 DEF LockItem
    <3>2. CASE CountDocuments(d)
      BY <3>2 DEF CountDocuments
    <3> QED BY <1>5, <3>1, <3>2
  <2>3. Told' = Told /\ Unsure' = Unsure
    BY <2>1, <2>2, GotoTells DEF Unsure
  <2> QED BY <2>1, <2>3, StutterRefines
<1>6. CASE LookForRow(d)
  BY <1>6, LookForRowRefines
<1>7. ASSUME upload[d].pc = "removing", UNCHANGED <<item, row, doubt>>, Told' = Told,
             UNCHANGED file \/ file' = [file EXCEPT ![d] = "absent"]
      PROVE  Shelf!Next \/ UNCHANGED Shelf!vars
  <2>1. row[d] = Nothing \/ d \in Unsure
    BY <1>7, Unwritten DEF FileOK, Unsure
  <2>2. Unsure' = Unsure
    BY <1>7 DEF Unsure
  <2> QED BY <1>7, <2>1, <2>2, RemovalRefines, StutterRefines
<1>8. CASE RemoveFile(d)
  <2>1. Told' = Told
    BY <1>8, GotoTells DEF RemoveFile
  <2> QED BY <1>7, <1>8, <2>1 DEF RemoveFile
<1>9. ASSUME upload[d].pc = "counted", UNCHANGED <<item, file, doubt>>, Told' = Told,
             Inserted(d)
      PROVE  Shelf!Next
  <2>1. file[d] = "whole" /\ Counts(d) /\ Unsure' = Unsure
    BY <1>9, Unwritten DEF FileOK, Counts, Unsure
  <2> QED BY <1>9, <2>1, InsertRefines
<1>10. CASE Commit(d)
  <2>1. Told' = Told
    BY <1>10, GotoTells DEF Commit
  <2> QED BY <1>9, <1>10, <2>1 DEF Commit
<1>11. CASE DatabaseFails(d)
  <2>1. UNCHANGED <<item, file, row>> /\ Told' = Told
    BY <1>11, GotoTells DEF DatabaseFails
  <2>2. upload[d].pc = "counted" => doubt[d] = "none"
    BY Unwritten DEF FileOK
  <2>3. Unsure' = Unsure
    BY <1>11, <2>2 DEF DatabaseFails, Unsure, IInv, TypeOK
  <2> QED BY <2>1, <2>3, StutterRefines
<1>12. CASE Settle(d)
  BY <1>12, SettleRefines
<1>13. CASE Abandon(d)
  <2>1. upload[d].pc # "created" /\ UNCHANGED <<item, doubt>> /\ Goto(d, "interrupted")
    BY <1>13 DEF Abandon, Ends
  <2>2. Told' = Told /\ Unsure' = Unsure
    BY <2>1, GotoTells DEF Unsure
  <2>3. CASE UNCHANGED <<file, row>>
    BY <2>1, <2>2, <2>3, StutterRefines
  <2>4. CASE upload[d].pc = "writing" /\ file' = [file EXCEPT ![d] = "whole"] /\ UNCHANGED row
    <3>1. row[d] = Nothing
      BY <2>4, Unwritten DEF FileOK
    <3> QED BY <1>1, <2>1, <2>2, <2>4, <3>1
  <2>5. CASE upload[d].pc = "counted" /\ Inserted(d) /\ UNCHANGED file
    BY <1>9, <2>1, <2>2, <2>5
  <2>6. CASE upload[d].pc = "removing" /\ file' = [file EXCEPT ![d] = "absent"] /\ UNCHANGED row
    BY <1>7, <2>1, <2>2, <2>6
  <2> QED BY <1>13, <2>3, <2>4, <2>5, <2>6 DEF Abandon
<1> QED BY <1>2, <1>3, <1>4, <1>5, <1>6, <1>8, <1>10, <1>11, <1>12, <1>13
        DEF ServerStep

LEMMA StepRefines == IInv /\ IInv' /\ [Next]_vars => [Shelf!Next]_(Shelf!vars)
<1> SUFFICES ASSUME IInv, IInv', [Next]_vars
             PROVE  Shelf!Next \/ UNCHANGED Shelf!vars
  OBVIOUS
<1>1. CASE UNCHANGED vars
  BY <1>1, StutterRefines DEF vars, Told, Unsure
<1>2. ASSUME NEW d \in Docs, Delete(d) PROVE Shelf!Next \/ UNCHANGED Shelf!vars
  BY <1>2, DeleteRefines
<1>3. ASSUME NEW d \in Docs,
             ServerStep(d) \/ Abandon(d) \/ \E place \in Items \X Spaces : Receive(d, place)
      PROVE  Shelf!Next \/ UNCHANGED Shelf!vars
  BY <1>3, UploadRefines
<1>4. ASSUME NEW i \in Items, TrashOrRestore(i) \/ \E s \in Spaces : TransferItem(i, s)
      PROVE  Shelf!Next
  BY <1>4, MoveRefines
<1> QED BY <1>1, <1>2, <1>3, <1>4 DEF Next

\* Documents implement the shelf: no row is without its whole file, but of an upload
\* that looked for it before a COMMIT in doubt was carried out; a document is added
\* within the quota to an item that is there and not trashed; and success is
\* announced only of a document on the shelf.
THEOREM DocumentsAreShelved == Spec => ImplementsShelf
BY InitRefines, StepRefines, Invariance, PTL DEF Spec, ImplementsShelf, Shelf!Spec
=============================================================================
