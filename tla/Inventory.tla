---------------------------- MODULE Inventory ----------------------------
(***************************************************************************)
(* The inventory of CollectionOps as the backend runs it: HTTP requests    *)
(* that are authorized first and then execute one MariaDB transaction.     *)
(*                                                                         *)
(* A transaction is modelled by the row locks it takes, one step for each  *)
(* SELECT ... FOR UPDATE (or unique-key insert) that can wait for another  *)
(* transaction, and one step for its writes and COMMIT: its own rows stay  *)
(* locked, so nobody can see its writes before.  Returning an error drops  *)
(* the transaction, which rolls it back.                                   *)
(***************************************************************************)
EXTENDS Naturals, Sequences, FiniteSets

CONSTANTS
    Items,        \* item identifiers (UUIDs) the server may generate
    Spaces,       \* spaces, each with its inventory_counters row
    Keys,         \* idempotency keys, each one (account, UUID) pair
    Names,        \* item names
    Requests,     \* slots for the requests that are in progress at a time
    None,         \* an absent field
    MaxRevision   \* bound: no request expects this revision or a later one

ASSUME BoundAssumption == MaxRevision \in Nat

VARIABLES
    item, nextNumber, transfers, stateEvents, reservation, \* the tables
    request       \* what each slot is doing

tables == <<item, nextNumber, transfers, stateEvents, reservation>>
vars == <<tables, request>>

Ledger == INSTANCE InventoryLedger

States == {"active", "archived", "trashed"}
Ops == {"create", "edit", "transfer"} \cup States \* a state: the route to it

Request ==
    [pc : {"idle", "authorized", "keyLocked", "itemLocked", "counterLocked",
           "committed"},
     op : Ops \cup {None},
     item : Items \cup {None},     \* the item addressed, or created
     space : Spaces \cup {None},   \* where to create, or the destination
     key : Keys \cup {None},       \* the Idempotency-Key header
     name : Names \cup {None},
     expected : Nat,               \* expected_revision
     authorized : Spaces \cup {None}, \* the space whose rights were checked
     known : BOOLEAN,              \* had the item reached expected by then?
     number : Nat]                 \* the counter as read under its lock

Idle == [pc |-> "idle", op |-> None, item |-> None, space |-> None,
         key |-> None, name |-> None, expected |-> 0, authorized |-> None,
         known |-> FALSE, number |-> 0]

----------------------------------------------------------------------------
(* Row locks, told from how far each transaction is.                       *)

LocksItem(r, i) ==
    r.op # "create" /\ r.item = i /\ r.pc \in {"itemLocked", "counterLocked"}

LocksCounter(r, s) == r.space = s /\ r.pc = "counterLocked"

LocksKey(r, s, k) ==
    /\ r.op = "create" /\ r.space = s /\ r.key = k /\ k # None
    /\ r.pc \in {"keyLocked", "counterLocked"}

\* Mutants: the row is read without FOR UPDATE, the insert is not unique.
ItemNotLocked(i) == TRUE
CounterNotLocked(s) == TRUE
KeyNotUnique(s, k) == TRUE

ItemIsFree(i) == \A p \in Requests : ~ LocksItem(request[p], i)
CounterIsFree(s) == \A p \in Requests : ~ LocksCounter(request[p], s)
KeyIsFree(s, k) == \A p \in Requests : ~ LocksKey(request[p], s, k)

\* The counter row, and the table after the number read from it has been given.
NumberBefore(s) == nextNumber[s] - 1
CounterRead(s) == nextNumber[s]
CounterKept(s) == nextNumber
CounterAdvanced(s) == [nextNumber EXCEPT ![s] = @ + 1]

----------------------------------------------------------------------------
Init ==
    /\ item = [i \in {} |-> i]
    /\ nextNumber = [s \in Spaces |-> 1]
    /\ transfers = {}
    /\ stateEvents = [i \in Items |-> <<>>]
    /\ reservation = [k \in {} |-> k]
    /\ request = [q \in Requests |-> Idle]

Goto(q, pc) == request' = [request EXCEPT ![q].pc = pc]
Finish(q) == request' = [request EXCEPT ![q] = Idle]

----------------------------------------------------------------------------
(* Arrival and authorization, outside any transaction.                     *)

\* Bound: identifiers are left for the creations in progress.
RoomForItem ==
    Cardinality({q \in Requests : request[q].op = "create"
                                  /\ request[q].pc # "committed"})
        + Cardinality(DOMAIN item) < Cardinality(Items)

\* A creation names its space in the path, so its rights are checked there.  A
\* retry is a request like any other: it brings a key that was used before.
ReceiveCreate(q, s, k, n) ==
    /\ request[q] = Idle
    /\ RoomForItem \/ <<s, k>> \in DOMAIN reservation
    /\ request' = [request EXCEPT ![q] =
           [pc |-> "authorized", op |-> "create", item |-> None, space |-> s,
            key |-> k, name |-> n, expected |-> 0, authorized |-> s,
            known |-> FALSE, number |-> 0]]
    /\ UNCHANGED tables

\* A change is authorized in the space the item is in now; the transaction comes
\* later and does not check the rights again.  The revision it expects is any
\* positive number: one the client has been shown, or a guess at a coming one.
ReceiveChange(q, op, i, s, revision) ==
    /\ request[q] = Idle
    /\ op # "create"
    /\ op = "transfer" <=> s # None
    /\ revision < MaxRevision
    /\ request' = [request EXCEPT ![q] =
           [pc |-> "authorized", op |-> op, item |-> i, space |-> s,
            key |-> None, name |-> None, expected |-> revision,
            authorized |-> item[i].space,
            known |-> revision <= item[i].revision, number |-> 0]]
    /\ UNCHANGED tables

----------------------------------------------------------------------------
(* Changing an item: its row is locked, then checked.                      *)

AnyTransition(from, to) == from # to
CanTransition(from, to) ==
    \/ from = "active" /\ to \in {"archived", "trashed"}
    \/ from = "archived" /\ to \in {"active", "trashed"}
    \/ from = "trashed" /\ to = "active"

RevisionUnchecked(r) == TRUE
RevisionMatches(r) == item[r.item].revision = r.expected

TrashUnchecked(r) == TRUE
NotTrashed(r) == item[r.item].state # "trashed"

\* What the locked row must satisfy for the request to go on.
Acceptable(r) ==
    /\ RevisionMatches(r)
    /\ r.op \in States => CanTransition(item[r.item].state, r.op)
    /\ r.op \in {"edit", "transfer"} => NotTrashed(r)
    /\ r.op = "transfer" => item[r.item].space # r.space

LockItem(q) ==
    /\ request[q].pc = "authorized" /\ request[q].op # "create"
    /\ ItemIsFree(request[q].item)
    /\ Acceptable(request[q])
    /\ Goto(q, "itemLocked")
    /\ UNCHANGED tables

\* revision_conflict, invalid_state, invalid_transition, same_space: the
\* transaction is rolled back.
RefuseChange(q) ==
    /\ request[q].pc = "authorized" /\ request[q].op # "create"
    /\ ItemIsFree(request[q].item)
    /\ ~ Acceptable(request[q])
    /\ Finish(q)
    /\ UNCHANGED tables

\* rename_item and update_item_details.
CommitEdit(q) ==
    LET r == request[q] IN
    /\ r.pc = "itemLocked" /\ r.op = "edit"
    /\ item' = [item EXCEPT ![r.item] = Ledger!Edited(@)]
    /\ Finish(q)
    /\ UNCHANGED <<nextNumber, transfers, stateEvents, reservation>>

EventSwapped(r) ==
    [space |-> item[r.item].space, before |-> r.op, after |-> item[r.item].state]
EventOf(r) ==
    [space |-> item[r.item].space, before |-> item[r.item].state, after |-> r.op]

\* set_item_state, with its audit event.
CommitState(q) ==
    LET r == request[q] IN
    /\ r.pc = "itemLocked" /\ r.op \in States
    /\ item' = [item EXCEPT ![r.item] = Ledger!InState(@, r.op)]
    /\ stateEvents' = [stateEvents EXCEPT ![r.item] = Append(@, EventOf(r))]
    /\ Finish(q)
    /\ UNCHANGED <<nextNumber, transfers, reservation>>

TransferSwapped(r) ==
    [item |-> r.item,
     source |-> item[r.item].space, sourceNumber |-> r.number,
     destination |-> r.space, destinationNumber |-> item[r.item].number]
TransferOf(r) ==
    [item |-> r.item,
     source |-> item[r.item].space, sourceNumber |-> item[r.item].number,
     destination |-> r.space, destinationNumber |-> r.number]

CommitTransfer(q) ==
    LET r == request[q] IN
    /\ r.pc = "counterLocked" /\ r.op = "transfer"
    /\ item' = [item EXCEPT ![r.item] = Ledger!MovedTo(@, r.space, r.number)]
    /\ nextNumber' = CounterAdvanced(r.space)
    /\ transfers' = transfers \cup {TransferOf(r)}
    /\ Finish(q)
    /\ UNCHANGED <<stateEvents, reservation>>

----------------------------------------------------------------------------
(* Creating an item: its request key if it has one, then the counter.      *)

NeedsKey(r) == r.pc = "authorized" /\ r.op = "create" /\ r.key # None

\* The unique-key insert: the first request with this key goes on to create.
ReserveKey(q) ==
    LET r == request[q] IN
    /\ NeedsKey(r) /\ KeyIsFree(r.space, r.key)
    /\ <<r.space, r.key>> \notin DOMAIN reservation
    /\ Goto(q, "keyLocked")
    /\ UNCHANGED tables

\* A later one with the same name is answered with the first one's item.
ReplayKey(q) ==
    LET r == request[q] IN
    /\ NeedsKey(r) /\ KeyIsFree(r.space, r.key)
    /\ <<r.space, r.key>> \in DOMAIN reservation
    /\ reservation[<<r.space, r.key>>].name = r.name
    /\ request' = [request EXCEPT
           ![q].pc = "committed",
           ![q].item = reservation[<<r.space, r.key>>].item,
           ![q].number = reservation[<<r.space, r.key>>].number]
    /\ UNCHANGED tables

\* idempotency_key_reused.
RefuseKey(q) ==
    LET r == request[q] IN
    /\ NeedsKey(r) /\ KeyIsFree(r.space, r.key)
    /\ <<r.space, r.key>> \in DOMAIN reservation
    /\ reservation[<<r.space, r.key>>].name # r.name
    /\ Finish(q)
    /\ UNCHANGED tables

\* Mutant: the reservation is written on another connection of the pool, which
\* waits for the lock this transaction holds.
ReadyOnOneConnection(r) ==
    \/ r.pc = "itemLocked" /\ r.op = "transfer"
    \/ r.pc = "authorized" /\ r.op = "create" /\ r.key = None
ReadyForCounter(r) ==
    \/ r.pc = "itemLocked" /\ r.op = "transfer"
    \/ r.pc = "authorized" /\ r.op = "create" /\ r.key = None
    \/ r.pc = "keyLocked"

\* SELECT next_number ... FOR UPDATE, in the space an item is about to enter.
LockCounter(q) ==
    LET r == request[q] IN
    /\ ReadyForCounter(r)
    /\ CounterIsFree(r.space)
    /\ request' = [request EXCEPT ![q].pc = "counterLocked",
                                  ![q].number = CounterRead(r.space)]
    /\ UNCHANGED tables

SnapshotTooLate(r, i) ==
    [item |-> i, number |-> CounterAdvanced(r.space)[r.space], name |-> r.name]
SnapshotOf(r, i) == [item |-> i, number |-> r.number, name |-> r.name]

\* create_item, and the completion of its reservation.
CommitCreate(q, i) ==
    LET r == request[q] IN
    /\ r.pc = "counterLocked" /\ r.op = "create"
    /\ i \notin DOMAIN item
    /\ item' = Ledger!Insert(item, i,
           [space |-> r.space, number |-> r.number, revision |-> 1,
            state |-> "active"])
    /\ nextNumber' = CounterAdvanced(r.space)
    /\ reservation' =
           IF r.key = None THEN reservation
           ELSE Ledger!Insert(reservation, <<r.space, r.key>>, SnapshotOf(r, i))
    /\ request' = [request EXCEPT ![q].pc = "committed", ![q].item = i]
    /\ UNCHANGED <<transfers, stateEvents>>

----------------------------------------------------------------------------
\* The answer to a creation is sent, and may or may not arrive.  (The answer to a
\* change leaves the server with the commit.)
Respond(q) ==
    /\ request[q].pc = "committed"
    /\ Finish(q)
    /\ UNCHANGED tables

\* A request ends early at any point: rights refused, a failed statement, a
\* lock wait that times out, a client that disconnects (the handler's future is
\* dropped) or a crash.  An open transaction is rolled back; a committed one
\* stays, and only its answer is lost.
Abandon(q) ==
    /\ request[q].pc # "idle"
    /\ Finish(q)
    /\ UNCHANGED tables

ServerStep(q) ==
    \/ LockItem(q) \/ RefuseChange(q)
    \/ ReserveKey(q) \/ ReplayKey(q) \/ RefuseKey(q)
    \/ LockCounter(q)
    \/ CommitEdit(q) \/ CommitState(q) \/ CommitTransfer(q)
    \/ \E i \in Items : CommitCreate(q, i)
    \/ Respond(q)

Arrival(q) ==
    \/ \E s \in Spaces, k \in Keys, n \in Names : ReceiveCreate(q, s, k, n)
    \/ \E s \in Spaces : ReceiveCreate(q, s, None, None)
    \/ \E op \in Ops, i \in DOMAIN item, s \in Spaces \cup {None},
          revision \in 1 .. MaxRevision :
          ReceiveChange(q, op, i, s, revision)

Next == \E q \in Requests : Arrival(q) \/ ServerStep(q) \/ Abandon(q)

Spec == Init /\ [][Next]_vars

\* A handler that can go on does; InnoDB grants a row lock in the order of the
\* waiters, so a transaction that keeps finding its lock free gets it.
FairSpec == Spec /\ \A q \in Requests : SF_vars(ServerStep(q))

----------------------------------------------------------------------------
TypeOK == Ledger!TypeOK /\ request \in [Requests -> Request]

\* Properties of the tables, stated in InventoryLedger.
NumbersNeverReused == Ledger!NumbersNeverReused
NoNumberIsBurned == Ledger!NoNumberIsBurned
TransfersCanBeTraced == Ledger!TransfersCanBeTraced
AuditTellsTheState == Ledger!AuditTellsTheState
EachKeyNamesItsOwnItem == Ledger!EachKeyNamesItsOwnItem

\* Every interleaving of requests, refusals, retries and rollbacks is seen from
\* the tables as a sequence of the ledger's atomic changes.
ImplementsLedger == Ledger!Spec

\* Rights are checked on a reading of the item that may be stale when its row
\* is locked.  Still, a transaction that is about to change an item finds it in
\* the space whose rights were checked if the revision it expects was one the
\* item had reached by then: that revision pins the space.  (One that the item
\* had not reached pins nothing, and no handler refuses it.)
KnownRevisionsPinTheSpace ==
    \A q \in Requests :
        /\ request[q].op # "create" /\ request[q].known
        /\ request[q].pc \in {"itemLocked", "counterLocked"}
        => item[request[q].item].space = request[q].authorized

\* No update is lost: a row changes only by a request that expected exactly the
\* revision it replaces, and its revision then grows by one.
NoUpdateIsLost ==
    [][\A i \in DOMAIN item : item'[i] # item[i] =>
          /\ item'[i].revision = item[i].revision + 1
          /\ \E q \in Requests : /\ request[q].item = i
                                 /\ request[q].expected = item[i].revision
                                 /\ request'[q] = Idle]_vars

\* A trashed item is read-only: all it can undergo is its restoration.
TrashedItemsAreReadOnly ==
    [][\A i \in DOMAIN item : item[i].state = "trashed" /\ item'[i] # item[i] =>
          item'[i] = [item[i] EXCEPT !.state = "active", !.revision = @ + 1]]_vars

\* A request whose key has already created an item creates none, and never
\* takes the key away from that item, however often it is retried.
RetriesNeverCreateAgain ==
    [][/\ \A k \in DOMAIN reservation : reservation'[k] = reservation[k]
       /\ \A q \in Requests :
             /\ request[q].op = "create" /\ request[q].key # None
             /\ <<request[q].space, request[q].key>> \in DOMAIN reservation
             /\ request'[q] # request[q]
             => DOMAIN item' = DOMAIN item]_vars

\* All the answers to one key, before and after a lost one, name the same item
\* and the same number: those the key holds in the table.
AnswersAgreeWithTheKey ==
    \A q \in Requests : LET r == request[q] IN
        r.op = "create" /\ r.key # None /\ r.pc = "committed" =>
            /\ <<r.space, r.key>> \in DOMAIN reservation
            /\ reservation[<<r.space, r.key>>] =
                   [item |-> r.item, number |-> r.number, name |-> r.name]

\* Every request ends, whatever locks the others hold.
EveryRequestEnds == \A q \in Requests : request[q].pc # "idle" ~> request[q].pc = "idle"
=============================================================================
