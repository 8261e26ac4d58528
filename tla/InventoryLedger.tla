------------------------- MODULE InventoryLedger -------------------------
(***************************************************************************)
(* What the inventory of CollectionOps promises, with no requests, locks   *)
(* or transactions: the tables, and the four atomic changes they may       *)
(* undergo.  Inventory.tla models the code and is shown to implement this  *)
(* specification; the properties of the tables are stated here once.       *)
(*                                                                         *)
(* A table is a function from the primary keys of its rows to the rows.    *)
(***************************************************************************)
EXTENDS Naturals, Sequences

CONSTANTS
    Items,      \* item identifiers (UUIDs) that may ever be generated
    Spaces,     \* the spaces; each owns one inventory_counters row
    Keys,       \* idempotency keys; one stands for an (account, UUID) pair
    Names       \* item names, kept only to tell two keyed requests apart

VARIABLES
    item,         \* inventory_items
    nextNumber,   \* inventory_counters.next_number of every space
    transfers,    \* inventory_transfers, a set of rows
    stateEvents,  \* inventory_item_audit_events of every item, oldest first
    reservation   \* item_creation_requests, completed rows only

tables == <<item, nextNumber, transfers, stateEvents, reservation>>

States == {"active", "archived", "trashed"}
PositiveNat == Nat \ {0}

ItemRow == [space : Spaces, number : PositiveNat,
            revision : PositiveNat, state : States]
TransferRow == [item : Items, source : Spaces, sourceNumber : PositiveNat,
                destination : Spaces, destinationNumber : PositiveNat]
StateEvent == [space : Spaces, before : States, after : States]
ReservationRow == [item : Items, number : PositiveNat, name : Names]

\* The table with a row added under a key it did not hold.
Insert(table, key, row) ==
    [k \in DOMAIN table \cup {key} |-> IF k = key THEN row ELSE table[k]]

----------------------------------------------------------------------------
FirstNumber == 1

Reachable(state) ==
    CASE state = "active"   -> {"archived", "trashed"}
      [] state = "archived" -> {"active", "trashed"}
      [] state = "trashed"  -> {"active"}

\* Every change to an item's row counts as one revision of it.
Edited(row) == [row EXCEPT !.revision = @ + 1]
InState(row, target) ==
    [space |-> row.space, number |-> row.number,
     revision |-> row.revision + 1, state |-> target]
MovedTo(row, s, n) ==
    [space |-> s, number |-> n, revision |-> row.revision + 1, state |-> row.state]

NewRow(s, n) == [space |-> s, number |-> n, revision |-> 1, state |-> "active"]

----------------------------------------------------------------------------
Init ==
    /\ item = [i \in {} |-> NewRow(i, 1)]
    /\ nextNumber = [s \in Spaces |-> FirstNumber]
    /\ transfers = {}
    /\ stateEvents = [i \in Items |-> <<>>]
    /\ reservation = [k \in {} |-> k]

\* A new item takes the next number of its space.
Create(s, i) ==
    /\ i \notin DOMAIN item
    /\ item' = Insert(item, i, NewRow(s, nextNumber[s]))
    /\ nextNumber' = [nextNumber EXCEPT ![s] = @ + 1]
    /\ UNCHANGED <<transfers, stateEvents>>

\* The same, remembered under a request key that was not used before.
CreateOnce(s, i, k, name) ==
    /\ <<s, k>> \notin DOMAIN reservation
    /\ reservation' = Insert(reservation, <<s, k>>,
                             [item |-> i, number |-> nextNumber[s], name |-> name])
    /\ Create(s, i)

\* Any change that leaves an item's space, number and state alone.
Edit(i) ==
    /\ item[i].state # "trashed"
    /\ item' = [item EXCEPT ![i] = Edited(@)]
    /\ UNCHANGED <<nextNumber, transfers, stateEvents, reservation>>

SetState(i, target) ==
    /\ target \in Reachable(item[i].state)
    /\ item' = [item EXCEPT ![i] = InState(@, target)]
    /\ stateEvents' = [stateEvents EXCEPT ![i] =
           Append(@, [space |-> item[i].space,
                      before |-> item[i].state, after |-> target])]
    /\ UNCHANGED <<nextNumber, transfers, reservation>>

\* An item leaves its space for another one and is renumbered there.
Transfer(i, s) ==
    /\ item[i].state # "trashed"
    /\ s # item[i].space
    /\ item' = [item EXCEPT ![i] = MovedTo(@, s, nextNumber[s])]
    /\ nextNumber' = [nextNumber EXCEPT ![s] = @ + 1]
    /\ transfers' = transfers \cup
           {[item |-> i, source |-> item[i].space, sourceNumber |-> item[i].number,
             destination |-> s, destinationNumber |-> nextNumber[s]]}
    /\ UNCHANGED <<stateEvents, reservation>>

Next ==
    \/ \E s \in Spaces, i \in Items : Create(s, i) /\ UNCHANGED reservation
    \/ \E s \in Spaces, i \in Items, k \in Keys, n \in Names : CreateOnce(s, i, k, n)
    \/ \E i \in DOMAIN item : Edit(i)
    \/ \E i \in DOMAIN item, target \in States : SetState(i, target)
    \/ \E i \in DOMAIN item, s \in Spaces : Transfer(i, s)

Spec == Init /\ [][Next]_tables

----------------------------------------------------------------------------
TypeOK ==
    /\ DOMAIN item \subseteq Items
    /\ item \in [DOMAIN item -> ItemRow]
    /\ nextNumber \in [Spaces -> PositiveNat]
    /\ transfers \subseteq TransferRow
    /\ stateEvents \in [Items -> Seq(StateEvent)]
    /\ DOMAIN reservation \subseteq Spaces \X Keys
    /\ reservation \in [DOMAIN reservation -> ReservationRow]

\* A place is a space and a number in it.  NowAt is the place an item has, LeftAt
\* and ArrivedAt are the two ends of a transfer.
NowAt(i) == <<item[i].space, item[i].number>>
LeftAt(t) == <<t.source, t.sourceNumber>>
ArrivedAt(t) == <<t.destination, t.destinationNumber>>

\* Every place an item has had: where it is now, and where its transfers took
\* it from.
PlacesOf(i) == {NowAt(i)} \cup {LeftAt(t) : t \in {u \in transfers : u.item = i}}

\* A number of a space is given once: no two items carry it, an item that has
\* left does not make it free again, not even for its own return ("les anciens
\* numeros ne sont pas reutilises").
NumbersNeverReused ==
    /\ \A i, j \in DOMAIN item : NowAt(i) = NowAt(j) => i = j
    /\ \A i \in DOMAIN item, t \in transfers : NowAt(i) # LeftAt(t)
    /\ \A t, u \in transfers : LeftAt(t) = LeftAt(u) => t = u

\* The numbers given in a space are exactly those below its counter: none is
\* skipped by a refused, retried or aborted attempt ("un numero n'est jamais
\* gaspille par une tentative refusee"), none is ahead of the counter.
NoNumberIsBurned ==
    LET given == UNION {PlacesOf(i) : i \in DOMAIN item}
    IN  \A s \in Spaces :
            {p[2] : p \in {q \in given : q[1] = s}} = 1 .. (nextNumber[s] - 1)

\* The history of an item can be followed without a hole: where a transfer put
\* the item, it still is or a later transfer took it from.
TransfersCanBeTraced ==
    \A t \in transfers :
        /\ t.item \in DOMAIN item
        /\ ArrivedAt(t) \in PlacesOf(t.item)

\* The audit of an item's states starts from active, each event starts from the
\* state the one before it reached, and the last one reached the item's state.
AuditTellsTheState ==
    \A i \in DOMAIN item :
        LET events == stateEvents[i]
            Reached(k) == IF k = 0 THEN "active" ELSE events[k].after
        IN  /\ \A k \in 1 .. Len(events) : events[k].before = Reached(k - 1)
            /\ item[i].state = Reached(Len(events))

\* A completed request key names an item that exists, by a number that item has
\* carried in the space of the request, and no other key names that item.
EachKeyNamesItsOwnItem ==
    \A k \in DOMAIN reservation :
        /\ reservation[k].item \in DOMAIN item
        /\ <<k[1], reservation[k].number>> \in PlacesOf(reservation[k].item)
        /\ \A l \in DOMAIN reservation :
               reservation[l].item = reservation[k].item => l = k
=============================================================================
