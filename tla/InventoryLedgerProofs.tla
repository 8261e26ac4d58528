---------------------- MODULE InventoryLedgerProofs ----------------------
(***************************************************************************)
(* The tables keep their types, and the numbers of a space are never       *)
(* reused, whatever the items, spaces, keys and names.                     *)
(***************************************************************************)
EXTENDS InventoryLedger, TLAPS

\* A new row under a new key leaves the others in place, and has its own type.
LEMMA InsertType ==
    ASSUME NEW Row, NEW table, table \in [DOMAIN table -> Row], NEW key, NEW row \in Row
    PROVE  Insert(table, key, row) \in [DOMAIN Insert(table, key, row) -> Row]
BY DEF Insert

\* Replacing a row by another of its type keeps the table's type.
LEMMA UpdateType ==
    ASSUME NEW Row, NEW table, table \in [DOMAIN table -> Row],
           NEW key \in DOMAIN table, NEW row \in Row, NEW after,
           after = [table EXCEPT ![key] = row]
    PROVE  after \in [DOMAIN after -> Row] /\ DOMAIN after = DOMAIN table
OBVIOUS

\* A change of an item's row keeps the types of its columns.
LEMMA RowTypes ==
    ASSUME NEW row \in ItemRow
    PROVE  /\ Edited(row) \in ItemRow
           /\ \A target \in States : InState(row, target) \in ItemRow
           /\ \A s \in Spaces, n \in PositiveNat : MovedTo(row, s, n) \in ItemRow
<1>1. Edited(row) \in ItemRow
  BY DEF Edited, ItemRow, PositiveNat
<1>2. ASSUME NEW target \in States PROVE InState(row, target) \in ItemRow
  BY DEF InState, ItemRow, PositiveNat
<1>3. ASSUME NEW s \in Spaces, NEW n \in PositiveNat PROVE MovedTo(row, s, n) \in ItemRow
  BY DEF MovedTo, ItemRow, PositiveNat
<1> QED BY <1>1, <1>2, <1>3

\* The empty tables have their types.
LEMMA InitType == Init => TypeOK
BY DEF Init, TypeOK, FirstNumber, PositiveNat

----------------------------------------------------------------------------
\* So have the tables after a creation,
LEMMA CreateType ==
    ASSUME TypeOK, NEW s \in Spaces, NEW i \in Items, Create(s, i)
    PROVE  /\ DOMAIN item' \subseteq Items
           /\ item' \in [DOMAIN item' -> ItemRow]
           /\ nextNumber' \in [Spaces -> PositiveNat]
<1>1. NewRow(s, nextNumber[s]) \in ItemRow
  BY DEF TypeOK, NewRow, ItemRow, States, PositiveNat
<1>2. item' = Insert(item, i, NewRow(s, nextNumber[s]))
  BY DEF Create
<1>3. item' \in [DOMAIN item' -> ItemRow]
  BY <1>1, <1>2, InsertType DEF TypeOK
<1>4. DOMAIN item' \subseteq Items
  BY <1>2 DEF Insert, TypeOK
<1>5. nextNumber' \in [Spaces -> PositiveNat]
  BY DEF Create, TypeOK, PositiveNat
<1> QED BY <1>3, <1>4, <1>5

\* and after every other change.
LEMMA StepType == TypeOK /\ [Next]_tables => TypeOK'
<1> SUFFICES ASSUME TypeOK, [Next]_tables PROVE TypeOK'
  OBVIOUS
<1>1. ASSUME NEW s \in Spaces, NEW i \in Items, Create(s, i), UNCHANGED reservation
      PROVE  TypeOK'
  <2>1. UNCHANGED <<transfers, stateEvents, reservation>>
    BY <1>1 DEF Create
  <2> QED BY <1>1, <2>1, CreateType DEF TypeOK
<1>2. ASSUME NEW s \in Spaces, NEW i \in Items, NEW k \in Keys, NEW n \in Names,
             CreateOnce(s, i, k, n)
      PROVE  TypeOK'
  <2> DEFINE row == [item |-> i, number |-> nextNumber[s], name |-> n]
  <2>1. Create(s, i) /\ UNCHANGED <<transfers, stateEvents>>
    BY <1>2 DEF CreateOnce, Create
  <2>2. row \in ReservationRow
    BY DEF TypeOK, ReservationRow
  <2>3. reservation' = Insert(reservation, <<s, k>>, row)
    BY <1>2 DEF CreateOnce
  <2>4. reservation' \in [DOMAIN reservation' -> ReservationRow]
    BY <2>2, <2>3, InsertType DEF TypeOK
  <2>5. DOMAIN reservation' \subseteq Spaces \X Keys
    BY <2>3 DEF Insert, TypeOK
  <2> QED BY <2>1, <2>4, <2>5, CreateType DEF TypeOK
<1>3. ASSUME NEW i \in DOMAIN item, Edit(i) PROVE TypeOK'
  <2> DEFINE row == Edited(item[i])
  <2>1. row \in ItemRow
    BY RowTypes DEF TypeOK
  <2>2. item' = [item EXCEPT ![i] = row]
    BY <1>3 DEF Edit
  <2>3. UNCHANGED <<nextNumber, transfers, stateEvents, reservation>>
    BY <1>3 DEF Edit
  <2> HIDE DEF row
  <2> QED BY <2>3, <2>1, <2>2, UpdateType DEF TypeOK
<1>4. ASSUME NEW i \in DOMAIN item, NEW target \in States, SetState(i, target)
      PROVE  TypeOK'
  <2> DEFINE row == InState(item[i], target)
             event == [space |-> item[i].space, before |-> item[i].state,
                       after |-> target]
  <2>1. row \in ItemRow
    BY RowTypes DEF TypeOK
  <2>2. event \in StateEvent
    BY DEF TypeOK, ItemRow, StateEvent
  <2>3. /\ item' = [item EXCEPT ![i] = row]
        /\ stateEvents' = [stateEvents EXCEPT ![i] = Append(@, event)]
        /\ UNCHANGED <<nextNumber, transfers, reservation>>
    BY <1>4 DEF SetState
  <2> HIDE DEF row, event
  <2>4. stateEvents' \in [Items -> Seq(StateEvent)]
    BY <2>2, <2>3 DEF TypeOK
  <2> QED BY <2>1, <2>3, <2>4, UpdateType DEF TypeOK
<1>5. ASSUME NEW i \in DOMAIN item, NEW s \in Spaces, Transfer(i, s) PROVE TypeOK'
  <2> DEFINE row == MovedTo(item[i], s, nextNumber[s])
  <2>1. nextNumber[s] \in PositiveNat /\ item[i] \in ItemRow /\ i \in Items
    BY DEF TypeOK
  <2>2. row \in ItemRow
    BY <2>1, RowTypes
  <2>3. item' = [item EXCEPT ![i] = row]
    BY <1>5 DEF Transfer
  <2>4. nextNumber' \in [Spaces -> PositiveNat]
    BY <1>5 DEF TypeOK, Transfer, PositiveNat
  <2>5. transfers' \subseteq TransferRow
    BY <1>5, <2>1 DEF TypeOK, Transfer, ItemRow, TransferRow
  <2> HIDE DEF row
  <2> QED BY <1>5, <2>2, <2>3, <2>4, <2>5, UpdateType DEF TypeOK, Transfer
<1>6. CASE UNCHANGED tables
  BY <1>6 DEF TypeOK, tables
<1> QED BY <1>1, <1>2, <1>3, <1>4, <1>5, <1>6 DEF Next

\* The tables keep the types of their columns.
THEOREM LedgerTypeCorrect == Spec => []TypeOK
BY InitType, StepType, PTL DEF Spec

----------------------------------------------------------------------------
\* What each change writes, row by row.
LEMMA CreateFrame ==
    ASSUME TypeOK, NEW s \in Spaces, NEW i \in Items, Create(s, i)
    PROVE  /\ DOMAIN item' = DOMAIN item \cup {i} /\ i \notin DOMAIN item
           /\ item'[i].space = s /\ item'[i].number = nextNumber[s]
           /\ item'[i].state = "active"
           /\ \A j \in DOMAIN item : item'[j] = item[j]
           /\ \A r \in Spaces :
                  nextNumber'[r] = IF r = s THEN nextNumber[s] + 1 ELSE nextNumber[r]
           /\ UNCHANGED <<transfers, stateEvents>>
<1>1. PICK row : row = NewRow(s, nextNumber[s])
  OBVIOUS
<1>2. item' = Insert(item, i, row) /\ i \notin DOMAIN item
  BY <1>1 DEF Create
<1>3. /\ DOMAIN item' = DOMAIN item \cup {i}
      /\ \A j \in DOMAIN item \cup {i} : item'[j] = IF j = i THEN row ELSE item[j]
  BY <1>2 DEF Insert
<1>4. row.space = s /\ row.number = nextNumber[s] /\ row.state = "active"
  BY <1>1 DEF NewRow
<1>5. \A r \in Spaces :
          nextNumber'[r] = IF r = s THEN nextNumber[s] + 1 ELSE nextNumber[r]
  BY DEF Create, TypeOK
<1> QED BY <1>2, <1>3, <1>4, <1>5 DEF Create

LEMMA TransferFrame ==
    ASSUME TypeOK, NEW s \in Spaces, NEW i \in DOMAIN item, Transfer(i, s)
    PROVE  /\ DOMAIN item' = DOMAIN item
           /\ item'[i].space = s /\ item'[i].number = nextNumber[s]
           /\ item'[i].state = item[i].state
           /\ \A j \in DOMAIN item : j # i => item'[j] = item[j]
           /\ \A r \in Spaces :
                  nextNumber'[r] = IF r = s THEN nextNumber[s] + 1 ELSE nextNumber[r]
           /\ \E t : /\ transfers' = transfers \cup {t}
                     /\ t.item = i
                     /\ t.source = item[i].space /\ t.sourceNumber = item[i].number
                     /\ t.destination = s /\ t.destinationNumber = nextNumber[s]
           /\ UNCHANGED <<stateEvents, reservation>>
<1>1. PICK row : row = MovedTo(item[i], s, nextNumber[s])
  OBVIOUS
<1>2. row.space = s /\ row.number = nextNumber[s] /\ row.state = item[i].state
  BY <1>1 DEF MovedTo
<1>3. item' = [item EXCEPT ![i] = row]
  BY <1>1 DEF Transfer
<1>4. /\ DOMAIN item' = DOMAIN item
      /\ \A j \in DOMAIN item : item'[j] = IF j = i THEN row ELSE item[j]
  BY <1>3 DEF TypeOK
<1>5. \A r \in Spaces :
          nextNumber'[r] = IF r = s THEN nextNumber[s] + 1 ELSE nextNumber[r]
  BY DEF Transfer, TypeOK
<1>6. PICK t : t = [item |-> i, source |-> item[i].space, sourceNumber |-> item[i].number,
                    destination |-> s, destinationNumber |-> nextNumber[s]]
  OBVIOUS
<1>7. /\ transfers' = transfers \cup {t}
      /\ t.item = i /\ t.source = item[i].space /\ t.sourceNumber = item[i].number
      /\ t.destination = s /\ t.destinationNumber = nextNumber[s]
  BY <1>6 DEF Transfer
<1> QED BY <1>2, <1>4, <1>5, <1>7 DEF Transfer

LEMMA OtherFrame ==
    ASSUME TypeOK, NEW i \in DOMAIN item,
           Edit(i) \/ \E target \in States : SetState(i, target)
    PROVE  /\ DOMAIN item' = DOMAIN item
           /\ \A j \in DOMAIN item : /\ item'[j].space = item[j].space
                                     /\ item'[j].number = item[j].number
           /\ UNCHANGED <<nextNumber, transfers, reservation>>
<1>1. PICK after : /\ item' = [item EXCEPT ![i] = after]
                   /\ after.space = item[i].space
                   /\ after.number = item[i].number
  BY DEF Edit, SetState, Edited, InState, TypeOK, ItemRow
<1> QED BY <1>1 DEF Edit, SetState, TypeOK

----------------------------------------------------------------------------
\* Every place an item has had lies below the counter of its space.
PlacesAreBelow ==
    /\ \A i \in DOMAIN item : item[i].number < nextNumber[item[i].space]
    /\ \A t \in transfers : t.sourceNumber < nextNumber[t.source]

NumberingInv == TypeOK /\ PlacesAreBelow /\ NumbersNeverReused

\* Empty tables have given no number.
LEMMA InitNumbering == Init => NumberingInv
BY InitType DEF Init, NumberingInv, PlacesAreBelow, NumbersNeverReused

\* Creations and transfers give the number under the counter, which no place
\* has, and move the counter past it.
LEMMA CreateNumbering ==
    ASSUME NumberingInv, NEW s \in Spaces, NEW i \in Items, Create(s, i)
    PROVE  PlacesAreBelow' /\ NumbersNeverReused'
<1> USE DEF NumberingInv, NowAt, LeftAt
<1>1. /\ DOMAIN item' = DOMAIN item \cup {i}
      /\ \A j \in DOMAIN item : item'[j] = item[j]
      /\ i \notin DOMAIN item
  BY CreateFrame
<1>2. \A r \in Spaces : nextNumber'[r] = IF r = s THEN nextNumber[s] + 1 ELSE nextNumber[r]
  BY CreateFrame
<1>3. /\ transfers' = transfers
      /\ item'[i].space = s /\ item'[i].number = nextNumber[s]
  BY CreateFrame
<1>4. /\ \A j \in DOMAIN item : item[j].space \in Spaces /\ item[j].number \in Nat
      /\ \A t \in transfers : t.source \in Spaces /\ t.sourceNumber \in Nat
      /\ \A r \in Spaces : nextNumber[r] \in Nat
  BY DEF TypeOK, ItemRow, TransferRow, PositiveNat
<1>5. PlacesAreBelow'
  BY <1>1, <1>2, <1>3, <1>4 DEF PlacesAreBelow
<1>6. NumbersNeverReused'
  BY <1>1, <1>3, <1>4 DEF PlacesAreBelow, NumbersNeverReused
<1> QED BY <1>5, <1>6

\* A transfer leaves a place behind and takes the next one of its destination.
LEMMA TransferNumbering ==
    ASSUME NumberingInv, NEW s \in Spaces, NEW i \in DOMAIN item, Transfer(i, s)
    PROVE  PlacesAreBelow' /\ NumbersNeverReused'
<1> USE DEF NumberingInv, NowAt, LeftAt
<1>1. /\ DOMAIN item' = DOMAIN item
      /\ item'[i].space = s /\ item'[i].number = nextNumber[s]
      /\ \A j \in DOMAIN item : j # i => item'[j] = item[j]
  BY TransferFrame
<1>2. \A r \in Spaces : nextNumber'[r] = IF r = s THEN nextNumber[s] + 1 ELSE nextNumber[r]
  BY TransferFrame
<1>3. PICK row : /\ transfers' = transfers \cup {row}
                 /\ row.source = item[i].space /\ row.sourceNumber = item[i].number
  BY TransferFrame
<1>4. /\ \A j \in DOMAIN item : item[j].space \in Spaces /\ item[j].number \in Nat
      /\ \A t \in transfers : t.source \in Spaces /\ t.sourceNumber \in Nat
      /\ \A r \in Spaces : nextNumber[r] \in Nat
  BY DEF TypeOK, ItemRow, TransferRow, PositiveNat
<1>5. PlacesAreBelow'
  BY <1>1, <1>2, <1>3, <1>4 DEF PlacesAreBelow
<1>6. \A j, k \in DOMAIN item' : NowAt(j)' = NowAt(k)' => j = k
  BY <1>1, <1>4 DEF PlacesAreBelow, NumbersNeverReused
<1>7. \A j \in DOMAIN item', t \in transfers' : NowAt(j)' # LeftAt(t)
  BY <1>1, <1>3, <1>4 DEF PlacesAreBelow, NumbersNeverReused
<1>8. \A t, u \in transfers' : LeftAt(t) = LeftAt(u) => t = u
  BY <1>1, <1>3, <1>4 DEF PlacesAreBelow, NumbersNeverReused
<1> QED BY <1>5, <1>6, <1>7, <1>8 DEF NumbersNeverReused

\* The other changes give no number.
LEMMA StepNumbering == NumberingInv /\ [Next]_tables => NumberingInv'
<1> SUFFICES ASSUME NumberingInv, [Next]_tables
             PROVE  PlacesAreBelow' /\ NumbersNeverReused'
  BY StepType DEF NumberingInv
<1>1. ASSUME NEW s \in Spaces, NEW i \in Items, Create(s, i)
      PROVE  PlacesAreBelow' /\ NumbersNeverReused'
  BY <1>1, CreateNumbering
<1>2. ASSUME NEW i \in DOMAIN item, NEW s \in Spaces, Transfer(i, s)
      PROVE  PlacesAreBelow' /\ NumbersNeverReused'
  BY <1>2, TransferNumbering
<1>3. ASSUME NEW i \in DOMAIN item,
             Edit(i) \/ \E target \in States : SetState(i, target)
      PROVE  PlacesAreBelow' /\ NumbersNeverReused'
  <2>1. /\ DOMAIN item' = DOMAIN item
        /\ UNCHANGED <<nextNumber, transfers>>
        /\ \A j \in DOMAIN item : /\ item'[j].space = item[j].space
                                  /\ item'[j].number = item[j].number
    BY <1>3, OtherFrame DEF NumberingInv
  <2> QED
    BY <2>1 DEF NumberingInv, PlacesAreBelow, NumbersNeverReused, NowAt, LeftAt
<1>4. CASE UNCHANGED tables
  BY <1>4 DEF tables, NumberingInv, PlacesAreBelow, NumbersNeverReused, NowAt, LeftAt
<1> QED BY <1>1, <1>2, <1>3, <1>4 DEF Next, CreateOnce

\* No number of a space is ever given twice.
THEOREM LedgerNeverReuses == Spec => []NumbersNeverReused
<1>1. Spec => []NumberingInv
  BY InitNumbering, StepNumbering, PTL DEF Spec
<1>2. NumberingInv => NumbersNeverReused
  BY DEF NumberingInv
<1> QED BY <1>1, <1>2, PTL

----------------------------------------------------------------------------
(* What the tables remember of an item: no number is skipped, no transfer  *)
(* is left in the air, every key names the item it created.                *)

\* A place below the counter of its space was given to an item, that is there or
\* has left it.
AllGiven ==
    \A s \in Spaces, n \in PositiveNat : n < nextNumber[s] =>
        \/ \E i \in DOMAIN item : item[i].space = s /\ item[i].number = n
        \/ \E t \in transfers : t.source = s /\ t.sourceNumber = n

\* No number is burned because the counter moves only with a number that is given;
\* the transfers and the keys name existing items, so that a new item has no past.
HistoryInv ==
    /\ NumberingInv
    /\ AllGiven
    /\ TransfersCanBeTraced
    /\ EachKeyNamesItsOwnItem

LEMMA InitHistory == Init => HistoryInv
<1> SUFFICES ASSUME Init PROVE HistoryInv
  OBVIOUS
<1>1. AllGiven
  BY DEF Init, FirstNumber, AllGiven, PositiveNat
<1>2. TransfersCanBeTraced /\ EachKeyNamesItsOwnItem
  BY DEF Init, TransfersCanBeTraced, EachKeyNamesItsOwnItem
<1> QED BY <1>1, <1>2, InitNumbering DEF HistoryInv

\* What it takes for an item to keep every place it has had.
LEMMA PlacesKept ==
    ASSUME transfers \subseteq transfers', NEW j,
           \/ NowAt(j)' = NowAt(j)
           \/ \E t \in transfers' : t.item = j /\ LeftAt(t) = NowAt(j)
    PROVE  PlacesOf(j) \subseteq PlacesOf(j)'
BY DEF PlacesOf, LeftAt

\* Where every item keeps its places, what is said of them stays true.
LEMMA KeptTransfers ==
    ASSUME HistoryInv, DOMAIN item \subseteq DOMAIN item',
           \A j \in DOMAIN item : PlacesOf(j) \subseteq PlacesOf(j)',
           NEW t \in transfers
    PROVE  t.item \in DOMAIN item' /\ ArrivedAt(t) \in PlacesOf(t.item)'
BY DEF HistoryInv, TransfersCanBeTraced

LEMMA KeptKeys ==
    ASSUME HistoryInv, DOMAIN item \subseteq DOMAIN item', UNCHANGED reservation,
           \A j \in DOMAIN item : PlacesOf(j) \subseteq PlacesOf(j)'
    PROVE  EachKeyNamesItsOwnItem'
BY DEF HistoryInv, EachKeyNamesItsOwnItem

LEMMA CreateHistory ==
    ASSUME HistoryInv, NEW s \in Spaces, NEW i \in Items, Create(s, i)
    PROVE  /\ AllGiven' /\ TransfersCanBeTraced'
           /\ DOMAIN item \subseteq DOMAIN item'
           /\ \A j \in DOMAIN item : PlacesOf(j) \subseteq PlacesOf(j)'
           /\ <<s, nextNumber[s]>> \in PlacesOf(i)'
<1>1. TypeOK
  BY DEF HistoryInv, NumberingInv
<1>2. /\ DOMAIN item' = DOMAIN item \cup {i} /\ i \notin DOMAIN item
      /\ item'[i].space = s /\ item'[i].number = nextNumber[s]
      /\ \A j \in DOMAIN item : item'[j] = item[j]
      /\ \A r \in Spaces :
             nextNumber'[r] = IF r = s THEN nextNumber[s] + 1 ELSE nextNumber[r]
      /\ transfers' = transfers
  BY <1>1, CreateFrame
<1>3. \A j \in DOMAIN item : PlacesOf(j) \subseteq PlacesOf(j)'
  BY <1>2, PlacesKept DEF NowAt
<1>4. <<s, nextNumber[s]>> \in PlacesOf(i)'
  BY <1>2 DEF PlacesOf, NowAt
<1>5. AllGiven'
  <2> SUFFICES ASSUME NEW r \in Spaces, NEW n \in PositiveNat, n < nextNumber'[r]
               PROVE  \/ \E j \in DOMAIN item' : item'[j].space = r /\ item'[j].number = n
                      \/ \E t \in transfers' : t.source = r /\ t.sourceNumber = n
    BY DEF AllGiven
  <2>1. nextNumber[r] \in Nat /\ n \in Nat
    BY <1>1 DEF TypeOK, PositiveNat
  <2>2. n < nextNumber[r] \/ (r = s /\ n = nextNumber[r])
    BY <1>2, <2>1
  <2>3. CASE n < nextNumber[r]
    BY <1>2, <2>3 DEF HistoryInv, AllGiven
  <2>4. CASE r = s /\ n = nextNumber[r]
    BY <1>2, <2>4
  <2> QED BY <2>2, <2>3, <2>4
<1>6. TransfersCanBeTraced'
  BY <1>2, <1>3, KeptTransfers DEF TransfersCanBeTraced, ArrivedAt
<1> QED BY <1>2, <1>3, <1>4, <1>5, <1>6

\* The new key names the new item, which no key can have named before.
LEMMA CreateOnceHistory ==
    ASSUME HistoryInv, NEW s \in Spaces, NEW i \in Items, NEW k \in Keys,
           NEW name \in Names, CreateOnce(s, i, k, name)
    PROVE  EachKeyNamesItsOwnItem'
<1>1. PICK row : row = [item |-> i, number |-> nextNumber[s], name |-> name]
  OBVIOUS
<1>2. PICK key : key = <<s, k>> /\ key[1] = s
  <2>1. <<s, k>>[1] = s
    OBVIOUS
  <2> QED BY <2>1
<1>3. /\ reservation' = Insert(reservation, key, row) /\ Create(s, i)
      /\ key \notin DOMAIN reservation
  BY <1>1, <1>2 DEF CreateOnce
<1>4. /\ DOMAIN reservation' = DOMAIN reservation \cup {key}
      /\ reservation'[key] = row
      /\ \A l \in DOMAIN reservation : reservation'[l] = reservation[l]
  BY <1>3 DEF Insert
<1>5. row.item = i /\ row.number = nextNumber[s]
  BY <1>1
<1>6. /\ DOMAIN item' = DOMAIN item \cup {i} /\ i \notin DOMAIN item
      /\ \A j \in DOMAIN item : PlacesOf(j) \subseteq PlacesOf(j)'
      /\ <<s, nextNumber[s]>> \in PlacesOf(i)'
  BY <1>3, CreateHistory, CreateFrame DEF HistoryInv, NumberingInv
<1>7. \A l \in DOMAIN reservation :
          /\ reservation[l].item \in DOMAIN item
          /\ <<l[1], reservation[l].number>> \in PlacesOf(reservation[l].item)
          /\ \A m \in DOMAIN reservation :
                 reservation[m].item = reservation[l].item => m = l
  BY DEF HistoryInv, EachKeyNamesItsOwnItem
<1>8. ASSUME NEW l \in DOMAIN reservation'
      PROVE  reservation'[l].item \in DOMAIN item'
  BY <1>4, <1>5, <1>6, <1>7
<1>9. ASSUME NEW l \in DOMAIN reservation', NEW m \in DOMAIN reservation',
             reservation'[m].item = reservation'[l].item
      PROVE  m = l
  BY <1>4, <1>5, <1>6, <1>7, <1>9
<1>10. ASSUME NEW l \in DOMAIN reservation
       PROVE  (<<l[1], reservation[l].number>> \in PlacesOf(reservation[l].item))'
  <2>1. PICK j \in DOMAIN item : j = reservation[l].item /\ j = reservation'[l].item
    BY <1>4, <1>7
  <2>2. PICK n : n = reservation[l].number /\ n = reservation'[l].number
    BY <1>4
  <2>3. <<l[1], n>> \in PlacesOf(j)
    BY <1>7, <2>1, <2>2
  <2>4. (<<l[1], n>> \in PlacesOf(j))'
    BY <1>6, <2>3
  <2> QED BY <2>1, <2>2, <2>4 DEF PlacesOf
<1>11. (<<key[1], reservation[key].number>> \in PlacesOf(reservation[key].item))'
  <2>1. reservation'[key].item = i /\ reservation'[key].number = nextNumber[s]
    BY <1>4, <1>5
  <2>2. PICK n : n = nextNumber[s]
    OBVIOUS
  <2>3. (<<s, n>> \in PlacesOf(i))'
    BY <1>6, <2>2
  <2> QED BY <1>2, <2>1, <2>2, <2>3 DEF PlacesOf
<1>12. \A l \in DOMAIN reservation' :
           (<<l[1], reservation[l].number>> \in PlacesOf(reservation[l].item))'
  BY <1>4, <1>10, <1>11
<1> QED BY <1>4, <1>8, <1>9, <1>12 DEF EachKeyNamesItsOwnItem

LEMMA TransferHistory ==
    ASSUME HistoryInv, NEW s \in Spaces, NEW i \in DOMAIN item, Transfer(i, s)
    PROVE  AllGiven' /\ TransfersCanBeTraced' /\ EachKeyNamesItsOwnItem'
<1>1. TypeOK
  BY DEF HistoryInv, NumberingInv
<1>2. /\ DOMAIN item' = DOMAIN item
      /\ item'[i].space = s /\ item'[i].number = nextNumber[s]
      /\ \A j \in DOMAIN item : j # i => item'[j] = item[j]
      /\ \A r \in Spaces :
             nextNumber'[r] = IF r = s THEN nextNumber[s] + 1 ELSE nextNumber[r]
      /\ UNCHANGED reservation
  BY <1>1, TransferFrame
<1>3. PICK t : /\ transfers' = transfers \cup {t}
               /\ t.item = i
               /\ t.source = item[i].space /\ t.sourceNumber = item[i].number
               /\ t.destination = s /\ t.destinationNumber = nextNumber[s]
  BY <1>1, TransferFrame
<1>4. ASSUME NEW j \in DOMAIN item PROVE PlacesOf(j) \subseteq PlacesOf(j)'
  <2>1. CASE j = i
    BY <1>3, <2>1, PlacesKept DEF NowAt, LeftAt
  <2>2. CASE j # i
    BY <1>2, <1>3, <2>2, PlacesKept DEF NowAt
  <2> QED BY <2>1, <2>2
<1>5. AllGiven'
  <2> SUFFICES ASSUME NEW r \in Spaces, NEW n \in PositiveNat, n < nextNumber'[r]
               PROVE  \/ \E j \in DOMAIN item' : item'[j].space = r /\ item'[j].number = n
                      \/ \E u \in transfers' : u.source = r /\ u.sourceNumber = n
    BY DEF AllGiven
  <2>1. nextNumber[r] \in Nat /\ n \in Nat
    BY <1>1 DEF TypeOK, PositiveNat
  <2>2. n < nextNumber[r] \/ (r = s /\ n = nextNumber[r])
    BY <1>2, <2>1
  <2>3. CASE n < nextNumber[r]
    <3>1. CASE \E u \in transfers : u.source = r /\ u.sourceNumber = n
      BY <1>3, <3>1
    <3>2. CASE \E j \in DOMAIN item : item[j].space = r /\ item[j].number = n
      BY <1>2, <1>3, <3>2
    <3> QED BY <2>3, <3>1, <3>2 DEF HistoryInv, AllGiven
  <2>4. CASE r = s /\ n = nextNumber[r]
    BY <1>2, <2>4
  <2> QED BY <2>2, <2>3, <2>4
<1>6. ArrivedAt(t) \in PlacesOf(t.item)'
  BY <1>2, <1>3 DEF ArrivedAt, PlacesOf, NowAt
<1>7. TransfersCanBeTraced'
  BY <1>2, <1>3, <1>4, <1>6, KeptTransfers DEF TransfersCanBeTraced, ArrivedAt
<1>8. EachKeyNamesItsOwnItem'
  BY <1>2, <1>4, KeptKeys
<1> QED BY <1>5, <1>7, <1>8

\* A step that gives no number.
LEMMA OtherHistory ==
    ASSUME HistoryInv, DOMAIN item' = DOMAIN item,
           \A j \in DOMAIN item : /\ item'[j].space = item[j].space
                                  /\ item'[j].number = item[j].number,
           UNCHANGED <<nextNumber, transfers, reservation>>
    PROVE  AllGiven' /\ TransfersCanBeTraced' /\ EachKeyNamesItsOwnItem'
<1>1. \A j \in DOMAIN item : PlacesOf(j) \subseteq PlacesOf(j)'
  BY PlacesKept DEF NowAt
<1>2. AllGiven'
  BY DEF HistoryInv, AllGiven
<1>3. TransfersCanBeTraced'
  BY <1>1, KeptTransfers DEF TransfersCanBeTraced, ArrivedAt
<1>4. EachKeyNamesItsOwnItem'
  BY <1>1, KeptKeys
<1> QED BY <1>2, <1>3, <1>4

LEMMA StepHistory == HistoryInv /\ [Next]_tables => HistoryInv'
<1> SUFFICES ASSUME HistoryInv, [Next]_tables
             PROVE  AllGiven' /\ TransfersCanBeTraced' /\ EachKeyNamesItsOwnItem'
  BY StepNumbering DEF HistoryInv
<1>1. ASSUME NEW s \in Spaces, NEW i \in Items, Create(s, i), UNCHANGED reservation
      PROVE  AllGiven' /\ TransfersCanBeTraced' /\ EachKeyNamesItsOwnItem'
  BY <1>1, CreateHistory, KeptKeys
<1>2. ASSUME NEW s \in Spaces, NEW i \in Items, NEW k \in Keys, NEW n \in Names,
             CreateOnce(s, i, k, n)
      PROVE  AllGiven' /\ TransfersCanBeTraced' /\ EachKeyNamesItsOwnItem'
  BY <1>2, CreateHistory, CreateOnceHistory DEF CreateOnce
<1>3. ASSUME NEW i \in DOMAIN item,
             Edit(i) \/ \E target \in States : SetState(i, target)
      PROVE  AllGiven' /\ TransfersCanBeTraced' /\ EachKeyNamesItsOwnItem'
  BY <1>3, OtherFrame, OtherHistory DEF HistoryInv, NumberingInv
<1>4. ASSUME NEW i \in DOMAIN item, NEW s \in Spaces, Transfer(i, s)
      PROVE  AllGiven' /\ TransfersCanBeTraced' /\ EachKeyNamesItsOwnItem'
  BY <1>4, TransferHistory
<1>5. CASE UNCHANGED tables
  BY <1>5, OtherHistory DEF tables
<1> QED BY <1>1, <1>2, <1>3, <1>4, <1>5 DEF Next

\* The numbers given are those below the counter.
LEMMA NoneSkipped == HistoryInv => NoNumberIsBurned
<1> SUFFICES ASSUME HistoryInv, NEW s \in Spaces
             PROVE  {p[2] : p \in {q \in UNION {PlacesOf(i) : i \in DOMAIN item} : q[1] = s}}
                        = 1 .. (nextNumber[s] - 1)
  BY DEF NoNumberIsBurned
<1>1. TypeOK /\ PlacesAreBelow
  BY DEF HistoryInv, NumberingInv
<1>2. nextNumber[s] \in Nat
  BY <1>1 DEF TypeOK, PositiveNat
<1>3. ASSUME NEW i \in DOMAIN item, NEW p \in PlacesOf(i), p[1] = s
      PROVE  p[2] \in 1 .. (nextNumber[s] - 1)
  <2>1. CASE p = NowAt(i)
    BY <1>1, <1>2, <1>3, <2>1 DEF NowAt, PlacesAreBelow, TypeOK, ItemRow, PositiveNat
  <2>2. CASE \E t \in transfers : p = LeftAt(t)
    BY <1>1, <1>2, <1>3, <2>2 DEF LeftAt, PlacesAreBelow, TypeOK, TransferRow, PositiveNat
  <2> QED BY <2>1, <2>2 DEF PlacesOf
<1>4. ASSUME NEW n \in 1 .. (nextNumber[s] - 1)
      PROVE  \E i \in DOMAIN item : <<s, n>> \in PlacesOf(i)
  <2>1. n \in PositiveNat /\ n < nextNumber[s]
    BY <1>2 DEF PositiveNat
  <2>2. CASE \E i \in DOMAIN item : item[i].space = s /\ item[i].number = n
    BY <2>2 DEF PlacesOf, NowAt
  <2>3. CASE \E t \in transfers : t.source = s /\ t.sourceNumber = n
    <3>1. PICK t \in transfers : t.source = s /\ t.sourceNumber = n
      BY <2>3
    <3>2. t.item \in DOMAIN item /\ <<s, n>> \in PlacesOf(t.item)
      BY <3>1 DEF HistoryInv, TransfersCanBeTraced, PlacesOf, LeftAt
    <3> QED BY <3>2
  <2> QED BY <2>1, <2>2, <2>3 DEF HistoryInv, AllGiven
<1>5. ASSUME NEW n \in 1 .. (nextNumber[s] - 1)
      PROVE  \E p \in UNION {PlacesOf(i) : i \in DOMAIN item} : p[1] = s /\ p[2] = n
  <2>1. PICK i \in DOMAIN item : <<s, n>> \in PlacesOf(i)
    BY <1>4
  <2>2. PICK p : p = <<s, n>> /\ p \in PlacesOf(i) /\ p[1] = s /\ p[2] = n
    BY <2>1
  <2> QED BY <2>2
<1> QED BY <1>3, <1>5

\* The numbers of a space are given without a gap.
THEOREM LedgerBurnsNoNumber == Spec => []NoNumberIsBurned
BY InitHistory, StepHistory, NoneSkipped, PTL DEF Spec

\* Nor is an item lost on its way, whichever transfers it undergoes.
THEOREM LedgerTracesTransfers == Spec => []TransfersCanBeTraced
<1>1. HistoryInv => TransfersCanBeTraced
  BY DEF HistoryInv
<1> QED BY <1>1, InitHistory, StepHistory, PTL DEF Spec

\* And no two keys name one item.
THEOREM LedgerKeepsKeysApart == Spec => []EachKeyNamesItsOwnItem
<1>1. HistoryInv => EachKeyNamesItsOwnItem
  BY DEF HistoryInv
<1> QED BY <1>1, InitHistory, StepHistory, PTL DEF Spec

----------------------------------------------------------------------------
(* The audit of the states.                                                *)

\* The state reached after k events.
Reached(events, k) == IF k = 0 THEN "active" ELSE events[k].after

\* The events lead from active to this state, without a jump.
Leads(events, state) ==
    /\ \A k \in 1 .. Len(events) : events[k].before = Reached(events, k - 1)
    /\ state = Reached(events, Len(events))

\* An item that does not exist yet has no events that it could inherit.
AuditInv ==
    /\ TypeOK
    /\ \A i \in DOMAIN item : Leads(stateEvents[i], item[i].state)
    /\ \A i \in Items \ DOMAIN item : stateEvents[i] = <<>>

LEMMA NoEvents == Leads(<<>>, "active")
BY DEF Leads, Reached

\* One more event, from the state reached.
LEMMA OneMoreEvent ==
    ASSUME NEW events \in Seq(StateEvent), NEW state, Leads(events, state),
           NEW e \in StateEvent, e.before = state
    PROVE  Leads(Append(events, e), e.after)
<1>1. PICK n \in Nat : n = Len(events)
  OBVIOUS
<1>2. PICK more : more = Append(events, e)
  OBVIOUS
<1>3. /\ Len(more) = n + 1 /\ more[n + 1] = e
      /\ \A k \in 1..n : more[k] = events[k]
  BY <1>1, <1>2
<1>4. \A k \in 0..n : Reached(more, k) = Reached(events, k)
  BY <1>3 DEF Reached
<1>5. state = Reached(events, n)
  BY <1>1 DEF Leads
<1>6. ASSUME NEW k \in 1..(n + 1) PROVE more[k].before = Reached(more, k - 1)
  <2>1. CASE k = n + 1
    <3>1. k - 1 = n /\ n \in 0..n
      BY <2>1
    <3> QED BY <1>3, <1>4, <1>5, <2>1, <3>1
  <2>2. CASE k \in 1..n
    <3>1. k - 1 \in 0..n
      BY <2>2
    <3>2. events[k].before = Reached(events, k - 1)
      BY <1>1, <2>2 DEF Leads
    <3> QED BY <1>3, <1>4, <2>2, <3>1, <3>2
  <2> QED BY <2>1, <2>2
<1>7. Reached(more, n + 1) = e.after
  BY <1>3 DEF Reached
<1> QED BY <1>2, <1>3, <1>6, <1>7 DEF Leads

LEMMA InitAudit == Init => AuditInv
<1> SUFFICES ASSUME Init PROVE AuditInv
  OBVIOUS
<1>1. DOMAIN item = {} /\ \A i \in Items : stateEvents[i] = <<>>
  BY DEF Init
<1> QED BY <1>1, InitType DEF AuditInv

\* A step that changes no state and starts no item.
LEMMA SameStates ==
    ASSUME AuditInv, TypeOK', UNCHANGED stateEvents, DOMAIN item' = DOMAIN item,
           \A j \in DOMAIN item : item'[j].state = item[j].state
    PROVE  AuditInv'
BY DEF AuditInv

LEMMA StepAudit == AuditInv /\ [Next]_tables => AuditInv'
<1> SUFFICES ASSUME AuditInv, [Next]_tables PROVE AuditInv'
  OBVIOUS
<1>1. TypeOK /\ TypeOK'
  BY StepType DEF AuditInv
<1>2. ASSUME NEW s \in Spaces, NEW i \in Items, Create(s, i) PROVE AuditInv'
  <2>1. /\ DOMAIN item' = DOMAIN item \cup {i} /\ i \notin DOMAIN item
        /\ item'[i].state = "active" /\ UNCHANGED stateEvents
        /\ \A j \in DOMAIN item : item'[j] = item[j]
    BY <1>1, <1>2, CreateFrame
  <2>2. stateEvents'[i] = <<>>
    BY <2>1 DEF AuditInv
  <2>3. \A j \in DOMAIN item' : Leads(stateEvents'[j], item'[j].state)
    BY <2>1, <2>2, NoEvents DEF AuditInv
  <2>4. \A j \in Items \ DOMAIN item' : stateEvents'[j] = <<>>
    BY <2>1 DEF AuditInv
  <2> QED BY <1>1, <2>3, <2>4 DEF AuditInv
<1>3. ASSUME NEW i \in DOMAIN item, Edit(i) PROVE AuditInv'
  <2>1. PICK row : row = Edited(item[i])
    OBVIOUS
  <2>2. item[i] \in ItemRow
    BY <1>1 DEF TypeOK
  <2>3. row.state = item[i].state
    BY <2>1, <2>2 DEF Edited, ItemRow
  <2>4. item' = [item EXCEPT ![i] = row] /\ UNCHANGED stateEvents
    BY <1>3, <2>1 DEF Edit
  <2>5. /\ DOMAIN item' = DOMAIN item
        /\ \A j \in DOMAIN item : item'[j] = IF j = i THEN row ELSE item[j]
    BY <1>1, <2>4 DEF TypeOK
  <2>6. \A j \in DOMAIN item : item'[j].state = item[j].state
    BY <2>3, <2>5
  <2> QED BY <1>1, <2>4, <2>5, <2>6, SameStates
<1>4. ASSUME NEW i \in DOMAIN item, NEW s \in Spaces, Transfer(i, s) PROVE AuditInv'
  <2>1. /\ DOMAIN item' = DOMAIN item /\ UNCHANGED stateEvents
        /\ \A j \in DOMAIN item : item'[j].state = item[j].state
    BY <1>1, <1>4, TransferFrame
  <2> QED BY <1>1, <2>1, SameStates
<1>5. ASSUME NEW i \in DOMAIN item, NEW target \in States, SetState(i, target)
      PROVE  AuditInv'
  <2>1. PICK row : row = InState(item[i], target) /\ row.state = target
    <3>1. InState(item[i], target).state = target
      BY DEF InState
    <3> QED BY <3>1
  <2>2. PICK e : e = [space |-> item[i].space, before |-> item[i].state, after |-> target]
    OBVIOUS
  <2>3. item[i] \in ItemRow /\ i \in Items
    BY <1>1 DEF TypeOK
  <2>4. e \in StateEvent /\ e.before = item[i].state /\ e.after = target
    BY <2>2, <2>3 DEF StateEvent, ItemRow
  <2>5. /\ item' = [item EXCEPT ![i] = row]
        /\ stateEvents' = [stateEvents EXCEPT ![i] = Append(stateEvents[i], e)]
    BY <1>5, <2>1, <2>2 DEF SetState
  <2>6. /\ DOMAIN item' = DOMAIN item
        /\ \A j \in DOMAIN item : item'[j] = IF j = i THEN row ELSE item[j]
        /\ \A j \in Items : stateEvents'[j] =
               IF j = i THEN Append(stateEvents[i], e) ELSE stateEvents[j]
    BY <1>1, <2>5 DEF TypeOK
  <2>7. stateEvents[i] \in Seq(StateEvent) /\ Leads(stateEvents[i], item[i].state)
    BY <1>1, <2>3 DEF TypeOK, AuditInv
  <2>8. Leads(Append(stateEvents[i], e), target)
    BY <2>4, <2>7, OneMoreEvent
  <2>9. ASSUME NEW j \in DOMAIN item PROVE Leads(stateEvents'[j], item'[j].state)
    <3>1. j \in Items
      BY <1>1 DEF TypeOK
    <3>2. CASE j = i
      BY <2>1, <2>6, <2>8, <3>1, <3>2
    <3>3. CASE j # i
      BY <2>6, <3>1, <3>3 DEF AuditInv
    <3> QED BY <3>2, <3>3
  <2>10. \A j \in Items \ DOMAIN item : stateEvents'[j] = <<>>
    BY <2>6 DEF AuditInv
  <2> QED BY <1>1, <2>6, <2>9, <2>10 DEF AuditInv
<1>6. CASE UNCHANGED tables
  BY <1>1, <1>6, SameStates DEF tables
<1> QED BY <1>2, <1>3, <1>4, <1>5, <1>6 DEF Next, CreateOnce

LEMMA AuditTells == AuditInv => AuditTellsTheState
BY DEF AuditInv, Leads, Reached, AuditTellsTheState

\* The audit of the states of an item can be replayed from active to the present.
THEOREM LedgerAuditReplays == Spec => []AuditTellsTheState
BY InitAudit, StepAudit, AuditTells, PTL DEF Spec
=============================================================================
