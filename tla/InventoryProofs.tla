------------------------- MODULE InventoryProofs -------------------------
(***************************************************************************)
(* The transactions of the inventory keep their locks apart, write only    *)
(* where the rights were checked, and implement the ledger, whatever the   *)
(* numbers of requests, items, spaces, keys and names.                     *)
(***************************************************************************)
EXTENDS Inventory, TLAPS

\* What is proved of the ledger.
Proved == INSTANCE InventoryLedgerProofs

\* Two requests that lock no row both.
Apart(r, t) ==
    /\ \A i \in Items : ~ (LocksItem(r, i) /\ LocksItem(t, i))
    /\ \A s \in Spaces : ~ (LocksCounter(r, s) /\ LocksCounter(t, s))
    /\ \A s \in Spaces, k \in Keys : ~ (LocksKey(r, s, k) /\ LocksKey(t, s, k))

\* No row lock has two holders.
LocksExclude ==
    \A p, q \in Requests : p # q => Apart(request[p], request[q])

\* What a request in progress may rely on.  A change was authorized in the space
\* its item had at some revision.  If that revision was at least the one it
\* expects, the space of the expected revision is the authorized one.  What a
\* transaction read under a lock it holds is still so.
Change(r) ==
    r.op # "create" /\ r.pc # "idle" =>
        /\ r.op \in Ops
        /\ r.item \in DOMAIN item
        /\ r.op = "transfer" => r.space \in Spaces
        /\ r.known => r.expected <= item[r.item].revision
        /\ r.known /\ r.expected = item[r.item].revision =>
               r.authorized = item[r.item].space
        /\ r.pc \in {"itemLocked", "counterLocked"} => Acceptable(r)
        /\ r.pc \in {"authorized", "itemLocked", "counterLocked"}
        /\ r.pc = "counterLocked" => r.op = "transfer"

Creation(r) ==
    r.op = "create" /\ r.pc # "idle" =>
        /\ r.space \in Spaces
        /\ r.key # None => r.key \in Keys /\ r.name \in Names
        /\ r.key # None /\ r.pc \in {"keyLocked", "counterLocked"} =>
               <<r.space, r.key>> \notin DOMAIN reservation
        /\ r.key # None /\ r.pc = "committed" =>
               /\ <<r.space, r.key>> \in DOMAIN reservation
               /\ reservation[<<r.space, r.key>>] =
                      [item |-> r.item, number |-> r.number, name |-> r.name]

Counter(r) == r.pc = "counterLocked" => r.number = nextNumber[r.space]

RequestOK(r) == Change(r) /\ Creation(r) /\ Counter(r)

RequestsOK == \A q \in Requests : RequestOK(request[q])

IInv == TypeOK /\ LocksExclude /\ RequestsOK

----------------------------------------------------------------------------
\* With no request in progress nothing is locked or promised.
LEMMA InitIInv == Init => IInv
<1> SUFFICES ASSUME Init PROVE IInv
  OBVIOUS
<1>1. Ledger!TypeOK
  BY DEF Init, Ledger!TypeOK, Ledger!PositiveNat
<1>2. Idle \in Request
  BY DEF Idle, Request
<1>3. request \in [Requests -> Request]
  BY <1>2 DEF Init
<1>4. \A q \in Requests : request[q].pc = "idle"
  BY DEF Init, Idle
<1>5. LocksExclude
  BY <1>4 DEF LocksExclude, Apart, LocksItem, LocksCounter, LocksKey
<1>6. RequestsOK
  BY <1>4 DEF RequestsOK, RequestOK, Change, Creation, Counter
<1> QED BY <1>1, <1>3, <1>5, <1>6 DEF IInv, TypeOK

\* A step that leaves the tables alone gives one request a new record: it is
\* enough that the record is right, and shares no lock with another request.
LEMMA RequestStep ==
    ASSUME IInv, NEW q \in Requests, NEW r \in Request,
           request' = [request EXCEPT ![q] = r], UNCHANGED tables,
           RequestOK(r), \A p \in Requests \ {q} : Apart(request[p], r)
    PROVE  IInv'
<1>1. \A p \in Requests : request'[p] = IF p = q THEN r ELSE request[p]
  BY DEF IInv, TypeOK
<1>2. TypeOK'
  BY DEF IInv, TypeOK, Ledger!TypeOK, tables
<1>3. LocksExclude'
  <2>1. \A p, t \in Requests : p # t => Apart(request[p], request[t])
    BY DEF IInv, LocksExclude
  <2>2. \A p \in Requests \ {q} : Apart(request[p], r) /\ Apart(r, request[p])
    BY DEF Apart
  <2>3. \A p, t \in Requests : p # t => Apart(request'[p], request'[t])
    BY <1>1, <2>1, <2>2
  <2> QED BY <2>3 DEF LocksExclude, Apart, LocksItem, LocksCounter, LocksKey
<1>4. RequestsOK'
  <2> SUFFICES ASSUME NEW p \in Requests PROVE RequestOK(request[p])'
    BY DEF RequestsOK
  <2>1. RequestOK(request'[p])
    BY <1>1 DEF IInv, RequestsOK
  <2> QED BY <2>1 DEF RequestOK, Change, Creation, Counter, tables, Acceptable,
              RevisionMatches, NotTrashed
<1> QED BY <1>2, <1>3, <1>4 DEF IInv

\* A record that holds no lock is apart from every other.
LEMMA NoLock ==
    ASSUME NEW r, NEW t, r.pc \notin {"keyLocked", "itemLocked", "counterLocked"}
    PROVE  Apart(t, r)
BY DEF Apart, LocksItem, LocksCounter, LocksKey

\* A request that ends without writing leaves everything as it was.
LEMMA FinishStep ==
    ASSUME IInv, NEW q \in Requests, Finish(q), UNCHANGED tables
    PROVE  IInv'
<1>1. /\ Idle \in Request
      /\ Idle.pc = "idle"
  BY DEF Idle, Request
<1>2. RequestOK(Idle)
  BY <1>1 DEF RequestOK, Change, Creation, Counter
<1>3. \A p \in Requests : Apart(request[p], Idle)
  BY <1>1, NoLock
<1>4. request' = [request EXCEPT ![q] = Idle]
  BY DEF Finish
<1> QED BY <1>1, <1>2, <1>3, <1>4, RequestStep

----------------------------------------------------------------------------
\* The arrivals: a new request holds no lock.
LEMMA ReceiveCreateStep ==
    ASSUME IInv, NEW q \in Requests, NEW s \in Spaces,
           NEW k \in Keys \cup {None}, NEW n \in Names \cup {None},
           k # None => n \in Names, ReceiveCreate(q, s, k, n)
    PROVE  IInv'
<1> DEFINE r == [pc |-> "authorized", op |-> "create", item |-> None, space |-> s,
                 key |-> k, name |-> n, expected |-> 0, authorized |-> s,
                 known |-> FALSE, number |-> 0]
<1>1. r \in Request
  BY DEF Request, Ops
<1>2. r.pc = "authorized" /\ r.op = "create" /\ r.space = s /\ r.key = k /\ r.name = n
  OBVIOUS
<1>3. request' = [request EXCEPT ![q] = r] /\ UNCHANGED tables
  BY DEF ReceiveCreate
<1> HIDE DEF r
<1>4. RequestOK(r)
  BY <1>2 DEF RequestOK, Change, Creation, Counter
<1>5. \A p \in Requests : Apart(request[p], r)
  BY <1>2, NoLock
<1> QED BY <1>1, <1>3, <1>4, <1>5, RequestStep

\* The rights are checked where the item is when the request arrives.
LEMMA ReceiveChangeStep ==
    ASSUME IInv, NEW q \in Requests, NEW op \in Ops, NEW i \in DOMAIN item,
           NEW s \in Spaces \cup {None}, NEW revision \in 1 .. MaxRevision,
           ReceiveChange(q, op, i, s, revision)
    PROVE  IInv'
<1> DEFINE r == [pc |-> "authorized", op |-> op, item |-> i, space |-> s,
                 key |-> None, name |-> None, expected |-> revision,
                 authorized |-> item[i].space,
                 known |-> revision <= item[i].revision, number |-> 0]
<1>1. i \in Items /\ item[i].space \in Spaces
  BY DEF IInv, TypeOK, Ledger!TypeOK, Ledger!ItemRow
<1>2. r \in Request
  BY <1>1, BoundAssumption DEF Request
<1>3. /\ r.pc = "authorized" /\ r.op = op /\ r.item = i /\ r.space = s
      /\ r.expected = revision /\ r.authorized = item[i].space
      /\ r.known = (revision <= item[i].revision)
  OBVIOUS
<1>4. /\ request' = [request EXCEPT ![q] = r] /\ UNCHANGED tables
      /\ op # "create"
      /\ op = "transfer" => s \in Spaces
  BY DEF ReceiveChange
<1> HIDE DEF r
<1>5. RequestOK(r)
  BY <1>3, <1>4 DEF RequestOK, Change, Creation, Counter
<1>6. \A p \in Requests : Apart(request[p], r)
  BY <1>3, NoLock
<1> QED BY <1>2, <1>4, <1>5, <1>6, RequestStep

\* Taking an item's lock, which was free, after its checks.
LEMMA LockItemStep ==
    ASSUME IInv, NEW q \in Requests, LockItem(q)
    PROVE  IInv'
<1> DEFINE r == [request[q] EXCEPT !.pc = "itemLocked"]
<1>1. request[q] \in Request /\ RequestOK(request[q])
  BY DEF IInv, TypeOK, RequestsOK
<1>2. r \in Request
  BY <1>1 DEF Request
<1>3. /\ r.pc = "itemLocked" /\ r.op = request[q].op /\ r.item = request[q].item
      /\ r.space = request[q].space /\ r.expected = request[q].expected
      /\ r.authorized = request[q].authorized /\ r.known = request[q].known
  BY <1>1 DEF Request
<1>4. request' = [request EXCEPT ![q] = r] /\ UNCHANGED tables
  BY <1>1 DEF LockItem, Goto, IInv, TypeOK
<1>5. /\ r.op # "create" /\ request[q].pc = "authorized"
      /\ \A p \in Requests : ~ LocksItem(request[p], r.item)
      /\ Acceptable(request[q])
  BY <1>3 DEF LockItem, ItemIsFree
<1> HIDE DEF r
<1>6. Acceptable(r)
  BY <1>3, <1>5 DEF Acceptable, RevisionMatches, NotTrashed
<1>7. RequestOK(r)
  BY <1>1, <1>3, <1>5, <1>6 DEF RequestOK, Change, Creation, Counter
<1>8. \A p \in Requests : Apart(request[p], r)
  BY <1>3, <1>5 DEF Apart, LocksItem, LocksCounter, LocksKey
<1> QED BY <1>2, <1>4, <1>7, <1>8, RequestStep

\* Reserving a request key that nobody holds and no row has.
LEMMA ReserveKeyStep ==
    ASSUME IInv, NEW q \in Requests, ReserveKey(q)
    PROVE  IInv'
<1> DEFINE r == [request[q] EXCEPT !.pc = "keyLocked"]
<1>1. request[q] \in Request /\ RequestOK(request[q])
  BY DEF IInv, TypeOK, RequestsOK
<1>2. r \in Request
  BY <1>1 DEF Request
<1>3. /\ r.pc = "keyLocked" /\ r.op = request[q].op /\ r.space = request[q].space
      /\ r.key = request[q].key /\ r.name = request[q].name
  BY <1>1 DEF Request
<1>4. request' = [request EXCEPT ![q] = r] /\ UNCHANGED tables
  BY <1>1 DEF ReserveKey, Goto, IInv, TypeOK
<1>5. /\ request[q].pc = "authorized" /\ r.op = "create" /\ r.key # None
      /\ \A p \in Requests : ~ LocksKey(request[p], r.space, r.key)
      /\ <<r.space, r.key>> \notin DOMAIN reservation
  BY <1>3 DEF ReserveKey, NeedsKey, KeyIsFree
<1> HIDE DEF r
<1>6. RequestOK(r)
  BY <1>1, <1>3, <1>5 DEF RequestOK, Change, Creation, Counter
<1>7. \A p \in Requests : Apart(request[p], r)
  BY <1>3, <1>5 DEF Apart, LocksItem, LocksCounter, LocksKey
<1> QED BY <1>2, <1>4, <1>6, <1>7, RequestStep

\* A retry is answered with what the row of its key holds.
LEMMA ReplayKeyStep ==
    ASSUME IInv, NEW q \in Requests, ReplayKey(q)
    PROVE  IInv'
<1> DEFINE row == reservation[<<request[q].space, request[q].key>>]
           answer == [request[q] EXCEPT !.pc = "committed", !.item = row.item]
           r == [answer EXCEPT !.number = row.number]
<1>1. request[q] \in Request /\ RequestOK(request[q])
  BY DEF IInv, TypeOK, RequestsOK
<1>2. row \in Ledger!ReservationRow
  BY DEF ReplayKey, IInv, TypeOK, Ledger!TypeOK
<1>3. /\ row.item \in Items /\ row.number \in Nat /\ row.name = request[q].name
      /\ row = [item |-> row.item, number |-> row.number, name |-> request[q].name]
  BY <1>2 DEF Ledger!ReservationRow, Ledger!PositiveNat, ReplayKey
<1>4. request' = [request EXCEPT ![q] = r] /\ UNCHANGED tables
  BY <1>1 DEF ReplayKey, IInv, TypeOK
<1>5. /\ request[q].pc = "authorized" /\ request[q].op = "create"
      /\ <<request[q].space, request[q].key>> \in DOMAIN reservation
  BY DEF ReplayKey, NeedsKey
<1> HIDE DEF row
<1>6. r \in Request
  <2>1. answer \in Request
    BY <1>1, <1>3 DEF Request
  <2> HIDE DEF answer
  <2> QED BY <2>1, <1>3 DEF Request
<1>7. /\ r.pc = "committed" /\ r.op = request[q].op /\ r.space = request[q].space
      /\ r.key = request[q].key /\ r.name = request[q].name
      /\ r.item = row.item /\ r.number = row.number
  BY <1>1 DEF Request
<1> HIDE DEF r
<1>8. RequestOK(r)
  BY <1>1, <1>3, <1>5, <1>7 DEF RequestOK, Change, Creation, Counter, row
<1>9. \A p \in Requests : Apart(request[p], r)
  BY <1>7, NoLock
<1> QED BY <1>4, <1>6, <1>8, <1>9, RequestStep

\* The number read with the counter's lock is the one in the table.
LEMMA LockCounterStep ==
    ASSUME IInv, NEW q \in Requests, LockCounter(q)
    PROVE  IInv'
<1> DEFINE r == [request[q] EXCEPT !.pc = "counterLocked",
                                   !.number = nextNumber[request[q].space]]
<1>1. request[q] \in Request /\ RequestOK(request[q])
  BY DEF IInv, TypeOK, RequestsOK
<1>2. request[q].space \in Spaces
  BY <1>1 DEF LockCounter, ReadyForCounter, RequestOK, Change, Creation
<1>3. nextNumber[request[q].space] \in Nat
  BY <1>2 DEF IInv, TypeOK, Ledger!TypeOK, Ledger!PositiveNat
<1>4. r \in Request
  BY <1>1, <1>3 DEF Request
<1>5. /\ r.pc = "counterLocked" /\ r.op = request[q].op /\ r.item = request[q].item
      /\ r.space = request[q].space /\ r.expected = request[q].expected
      /\ r.key = request[q].key /\ r.name = request[q].name
      /\ r.authorized = request[q].authorized /\ r.known = request[q].known
      /\ r.number = nextNumber[r.space]
  BY <1>1 DEF Request
<1>6. request' = [request EXCEPT ![q] = r] /\ UNCHANGED tables
  BY <1>1 DEF LockCounter, CounterRead, IInv, TypeOK
<1>7. /\ ReadyForCounter(request[q])
      /\ \A p \in Requests : ~ LocksCounter(request[p], r.space)
  BY <1>5 DEF LockCounter, CounterIsFree
<1> HIDE DEF r
<1>8. RequestOK(r)
  BY <1>1, <1>5, <1>7 DEF RequestOK, Change, Creation, Counter, ReadyForCounter,
     Acceptable, RevisionMatches, NotTrashed
<1>9. \A p \in Requests \ {q} : Apart(request[p], r)
  <2> SUFFICES ASSUME NEW p \in Requests \ {q} PROVE Apart(request[p], r)
    OBVIOUS
  <2>1. Apart(request[p], request[q])
    BY DEF IInv, LocksExclude
  <2>2. \A s \in Spaces : ~ (LocksCounter(request[p], s) /\ LocksCounter(r, s))
    BY <1>7 DEF LocksCounter
  <2>3. \A i \in Items : LocksItem(r, i) => LocksItem(request[q], i)
    BY <1>1, <1>5, <1>7 DEF LocksItem, ReadyForCounter, RequestOK, Change
  <2>4. \A s \in Spaces, k \in Keys : LocksKey(r, s, k) => LocksKey(request[q], s, k)
    BY <1>5, <1>7 DEF LocksKey, ReadyForCounter
  <2> QED BY <2>1, <2>2, <2>3, <2>4 DEF Apart
<1> QED BY <1>4, <1>6, <1>8, <1>9, RequestStep

----------------------------------------------------------------------------
(* Commits.  The ledger's part of a commit, and what it leaves to others.  *)

\* Every commit is one of the ledger's changes.
LEMMA EditRefines ==
    ASSUME IInv, NEW q \in Requests, CommitEdit(q)
    PROVE  \E i \in DOMAIN item : Ledger!Edit(i)
<1>1. RequestOK(request[q])
  BY DEF IInv, RequestsOK
<1>2. request[q].item \in DOMAIN item /\ NotTrashed(request[q])
  BY <1>1 DEF CommitEdit, RequestOK, Change, Acceptable
<1>3. Ledger!Edit(request[q].item)
  BY <1>2 DEF CommitEdit, Ledger!Edit, NotTrashed
<1> QED BY <1>2, <1>3

\* A change of state, with its audit event.
LEMMA StateRefines ==
    ASSUME IInv, NEW q \in Requests, CommitState(q)
    PROVE  \E i \in DOMAIN item, target \in States : Ledger!SetState(i, target)
<1> DEFINE i == request[q].item
           target == request[q].op
<1>1. RequestOK(request[q])
  BY DEF IInv, RequestsOK
<1>2. target \in States /\ i \in DOMAIN item /\ CanTransition(item[i].state, target)
  BY <1>1 DEF CommitState, RequestOK, Change, Acceptable, States
<1>3. target \in Ledger!Reachable(item[i].state)
  BY <1>2 DEF CanTransition, Ledger!Reachable
<1>4. Ledger!SetState(i, target)
  BY <1>3 DEF CommitState, EventOf, Ledger!SetState
<1> QED BY <1>2, <1>4

\* A transfer, numbered by the counter as it still is.
LEMMA TransferRefines ==
    ASSUME IInv, NEW q \in Requests, CommitTransfer(q)
    PROVE  \E i \in DOMAIN item, s \in Spaces : Ledger!Transfer(i, s)
<1> DEFINE i == request[q].item
           s == request[q].space
<1>1. RequestOK(request[q])
  BY DEF IInv, RequestsOK
<1>2. /\ i \in DOMAIN item /\ s \in Spaces /\ request[q].number = nextNumber[s]
      /\ NotTrashed(request[q]) /\ item[i].space # s
  BY <1>1 DEF CommitTransfer, RequestOK, Change, Counter, Acceptable
<1>3. Ledger!Transfer(i, s)
  BY <1>2 DEF CommitTransfer, CounterAdvanced, TransferOf, Ledger!Transfer, NotTrashed
<1> QED BY <1>2, <1>3

\* A creation, with or without a key to remember it by.
LEMMA CreateRefines ==
    ASSUME IInv, NEW q \in Requests, NEW i \in Items, CommitCreate(q, i)
    PROVE  \/ \E s \in Spaces, j \in Items : Ledger!Create(s, j) /\ UNCHANGED reservation
           \/ \E s \in Spaces, j \in Items, k \in Keys, n \in Names :
                 Ledger!CreateOnce(s, j, k, n)
<1> DEFINE s == request[q].space
           k == request[q].key
<1>1. RequestOK(request[q])
  BY DEF IInv, RequestsOK
<1>2. s \in Spaces /\ request[q].number = nextNumber[s]
  BY <1>1 DEF CommitCreate, RequestOK, Creation, Counter
<1>3. Ledger!Create(s, i)
  BY <1>2 DEF CommitCreate, CounterAdvanced, Ledger!Create, Ledger!NewRow
<1>4. CASE k = None
  BY <1>2, <1>3, <1>4 DEF CommitCreate
<1>5. CASE k # None
  <2>1. k \in Keys /\ request[q].name \in Names /\ <<s, k>> \notin DOMAIN reservation
    BY <1>1, <1>5 DEF CommitCreate, RequestOK, Creation
  <2>2. Ledger!CreateOnce(s, i, k, request[q].name)
    BY <1>2, <1>3, <1>5, <2>1 DEF CommitCreate, SnapshotOf, Ledger!CreateOnce
  <2> QED BY <1>2, <2>1, <2>2
<1> QED BY <1>4, <1>5

----------------------------------------------------------------------------
(* The ledger that Inventory instantiates is the one its proofs are about. *)

\* They agree on the types,
LEMMA SameTypeOK == Ledger!TypeOK <=> Proved!TypeOK
BY DEF Ledger!TypeOK, Ledger!ItemRow, Ledger!TransferRow, Ledger!StateEvent,
       Ledger!ReservationRow, Ledger!PositiveNat, Ledger!States,
       Proved!TypeOK, Proved!ItemRow, Proved!TransferRow, Proved!StateEvent,
       Proved!ReservationRow, Proved!PositiveNat, Proved!States

\* and on the changes.
LEMMA SameNext == [Ledger!Next]_tables => [Proved!Next]_tables
<1> SUFFICES ASSUME Ledger!Next PROVE Proved!Next
  OBVIOUS
<1> USE DEF Ledger!States, Proved!States, Ledger!Insert, Proved!Insert
<1>1. ASSUME NEW s \in Spaces, NEW i \in Items, Ledger!Create(s, i)
      PROVE  Proved!Create(s, i)
  BY <1>1 DEF Ledger!Create, Proved!Create, Ledger!NewRow, Proved!NewRow
<1>2. ASSUME NEW s \in Spaces, NEW i \in Items, NEW k \in Keys, NEW n \in Names,
             Ledger!CreateOnce(s, i, k, n)
      PROVE  Proved!CreateOnce(s, i, k, n)
  BY <1>1, <1>2 DEF Ledger!CreateOnce, Proved!CreateOnce
<1>3. ASSUME NEW i \in DOMAIN item, Ledger!Edit(i) PROVE Proved!Edit(i)
  BY <1>3 DEF Ledger!Edit, Proved!Edit, Ledger!Edited, Proved!Edited
<1>4. ASSUME NEW i \in DOMAIN item, NEW target \in States, Ledger!SetState(i, target)
      PROVE  Proved!SetState(i, target)
  BY <1>4 DEF Ledger!SetState, Proved!SetState, Ledger!InState, Proved!InState,
     Ledger!Reachable, Proved!Reachable
<1>5. ASSUME NEW i \in DOMAIN item, NEW s \in Spaces, Ledger!Transfer(i, s)
      PROVE  Proved!Transfer(i, s)
  BY <1>5 DEF Ledger!Transfer, Proved!Transfer, Ledger!MovedTo, Proved!MovedTo
<1> QED
  BY <1>1, <1>2, <1>3, <1>4, <1>5 DEF Ledger!Next, Proved!Next, States

----------------------------------------------------------------------------
\* A commit releases the locks of its transaction.
LEMMA ReleaseExclude ==
    ASSUME IInv, NEW q \in Requests, NEW r,
           r.pc \notin {"keyLocked", "itemLocked", "counterLocked"},
           request' = [request EXCEPT ![q] = r]
    PROVE  LocksExclude'
<1>1. \A p \in Requests : request'[p] = IF p = q THEN r ELSE request[p]
  BY DEF IInv, TypeOK
<1>2. \A p, t \in Requests : p # t => Apart(request[p], request[t])
  BY DEF IInv, LocksExclude
<1>3. \A p \in Requests : Apart(request[p], r) /\ Apart(r, request[p])
  BY DEF Apart, LocksItem, LocksCounter, LocksKey
<1>4. \A p, t \in Requests : p # t => Apart(request'[p], request'[t])
  BY <1>1, <1>2, <1>3
<1> QED BY <1>4 DEF LocksExclude, Apart, LocksItem, LocksCounter, LocksKey

\* A committed change outdates every other request for its item, and cannot
\* touch what another transaction has locked.
LEMMA ItemCommit ==
    ASSUME IInv, TypeOK', NEW q \in Requests, NEW row,
           request' = [request EXCEPT ![q] = Idle],
           request[q].op # "create",
           request[q].pc \in {"itemLocked", "counterLocked"},
           item' = [item EXCEPT ![request[q].item] = row],
           row.revision = item[request[q].item].revision + 1,
           \A s \in Spaces : ~ LocksCounter(request[q], s) => nextNumber'[s] = nextNumber[s],
           UNCHANGED reservation
    PROVE  IInv'
<1> DEFINE i == request[q].item
<1>1. Idle.pc = "idle"
  BY DEF Idle
<1>2. \A p \in Requests : request'[p] = IF p = q THEN Idle ELSE request[p]
  BY DEF IInv, TypeOK
<1>3. \A t \in Requests : RequestOK(request[t])
  BY DEF IInv, RequestsOK
<1>4. i \in DOMAIN item /\ i \in Items
  BY <1>3 DEF RequestOK, Change, IInv, TypeOK, Ledger!TypeOK
<1>5. /\ DOMAIN item' = DOMAIN item
      /\ item'[i] = row
      /\ \A j \in DOMAIN item : j # i => item'[j] = item[j]
  BY <1>4 DEF IInv, TypeOK, Ledger!TypeOK
<1>6. ASSUME NEW p \in Requests, p # q PROVE RequestOK(request[p])'
  <2> DEFINE r == request[p]
  <2>1. request'[p] = r /\ RequestOK(r) /\ r \in Request
    BY <1>2, <1>3, <1>6 DEF IInv, TypeOK
  <2>2. Apart(request[q], r)
    BY <1>6 DEF IInv, LocksExclude
  <2>3. r.op # "create" /\ r.item = i => r.pc \notin {"itemLocked", "counterLocked"}
    BY <1>4, <2>2 DEF Apart, LocksItem
  <2>4. r.pc = "counterLocked" =>
            r.space \in Spaces /\ ~ LocksCounter(request[q], r.space)
    BY <2>1, <2>2 DEF Apart, LocksCounter, RequestOK, Change, Creation
  <2>5. r.pc = "counterLocked" => nextNumber'[r.space] = nextNumber[r.space]
    BY <2>4
  <2>6. r.expected \in Nat /\ item[i].revision \in Nat
    BY <1>4, <2>1 DEF Request, IInv, TypeOK, Ledger!TypeOK, Ledger!ItemRow,
       Ledger!PositiveNat
  <2> HIDE DEF r
  <2>7. Creation(request[p])' /\ Counter(request[p])'
    BY <2>1, <2>5 DEF RequestOK, Creation, Counter
  <2>8. CASE r.op # "create" /\ r.pc # "idle" /\ r.item = i
    <3>1. r.known => r.expected # item'[i].revision /\ r.expected <= item'[i].revision
      BY <1>5, <2>1, <2>6, <2>8 DEF RequestOK, Change
    <3>2. Change(request[p])'
      BY <1>5, <2>1, <2>3, <2>8, <3>1 DEF RequestOK, Change
    <3> QED BY <2>7, <3>2 DEF RequestOK, Change, Creation, Counter
  <2>9. CASE r.op = "create" \/ r.pc = "idle" \/ r.item # i
    <3>1. Change(request[p])'
      BY <1>5, <2>1, <2>9 DEF RequestOK, Change, Acceptable, RevisionMatches, NotTrashed
    <3> QED BY <2>7, <3>1 DEF RequestOK, Change, Creation, Counter
  <2> QED BY <2>8, <2>9
<1>7. RequestOK(request[q])'
  BY <1>1, <1>2 DEF RequestOK, Change, Creation, Counter
<1>8. RequestsOK'
  BY <1>6, <1>7 DEF RequestsOK
<1>9. LocksExclude'
  BY <1>1, ReleaseExclude
<1> QED BY <1>8, <1>9 DEF IInv

\* What a ledger step leaves of the tables' types.
LEMMA LedgerKeepsTypes ==
    ASSUME Ledger!TypeOK, [Ledger!Next]_tables
    PROVE  Ledger!TypeOK'
<1>1. Proved!TypeOK /\ [Proved!Next]_Proved!tables
  BY SameTypeOK, SameNext DEF tables, Proved!tables
<1>2. Proved!TypeOK'
  BY <1>1, Proved!StepType
<1>3. Ledger!TypeOK' <=> Proved!TypeOK'
  BY DEF Ledger!TypeOK, Ledger!ItemRow, Ledger!TransferRow, Ledger!StateEvent,
       Ledger!ReservationRow, Ledger!PositiveNat, Ledger!States,
       Proved!TypeOK, Proved!ItemRow, Proved!TransferRow, Proved!StateEvent,
       Proved!ReservationRow, Proved!PositiveNat, Proved!States
<1> QED BY <1>2, <1>3

\* An idle slot is a request record.
LEMMA IdleIsRequest == Idle \in Request
BY DEF Idle, Request

\* The commits keep the invariant: an edit,
LEMMA CommitEditStep ==
    ASSUME IInv, NEW q \in Requests, CommitEdit(q)
    PROVE  IInv'
<1>1. Ledger!TypeOK'
  BY EditRefines, LedgerKeepsTypes DEF IInv, TypeOK, Ledger!Next
<1>2. TypeOK'
  BY <1>1, IdleIsRequest DEF CommitEdit, Finish, IInv, TypeOK
<1> DEFINE row == Ledger!Edited(item[request[q].item])
<1>3. row.revision = item[request[q].item].revision + 1
  <2>1. RequestOK(request[q])
    BY DEF IInv, RequestsOK
  <2>2. item[request[q].item] \in Ledger!ItemRow
    BY <2>1 DEF CommitEdit, RequestOK, Change, IInv, TypeOK, Ledger!TypeOK
  <2> QED BY <2>2 DEF Ledger!Edited, Ledger!ItemRow
<1>4. /\ item' = [item EXCEPT ![request[q].item] = row]
      /\ request' = [request EXCEPT ![q] = Idle]
      /\ request[q].op # "create" /\ request[q].pc = "itemLocked"
      /\ UNCHANGED <<nextNumber, reservation>>
  BY DEF CommitEdit, Finish
<1> HIDE DEF row
<1> QED BY <1>2, <1>3, <1>4, ItemCommit

\* a change of state,
LEMMA CommitStateStep ==
    ASSUME IInv, NEW q \in Requests, CommitState(q)
    PROVE  IInv'
<1>1. Ledger!TypeOK'
  BY StateRefines, LedgerKeepsTypes DEF IInv, TypeOK, Ledger!Next, States, Ledger!States
<1>2. TypeOK'
  BY <1>1, IdleIsRequest DEF CommitState, Finish, IInv, TypeOK
<1> DEFINE row == Ledger!InState(item[request[q].item], request[q].op)
<1>3. row.revision = item[request[q].item].revision + 1
  BY DEF Ledger!InState
<1>4. /\ item' = [item EXCEPT ![request[q].item] = row]
      /\ request' = [request EXCEPT ![q] = Idle]
      /\ request[q].op # "create" /\ request[q].pc = "itemLocked"
      /\ UNCHANGED <<nextNumber, reservation>>
  BY DEF CommitState, Finish, States
<1> HIDE DEF row
<1> QED BY <1>2, <1>3, <1>4, ItemCommit

\* a transfer,
LEMMA CommitTransferStep ==
    ASSUME IInv, NEW q \in Requests, CommitTransfer(q)
    PROVE  IInv'
<1>1. Ledger!TypeOK'
  BY TransferRefines, LedgerKeepsTypes DEF IInv, TypeOK, Ledger!Next
<1>2. TypeOK'
  BY <1>1, IdleIsRequest DEF CommitTransfer, Finish, IInv, TypeOK
<1> DEFINE row == Ledger!MovedTo(item[request[q].item], request[q].space,
                                 request[q].number)
<1>3. row.revision = item[request[q].item].revision + 1
  BY DEF Ledger!MovedTo
<1>4. /\ item' = [item EXCEPT ![request[q].item] = row]
      /\ request' = [request EXCEPT ![q] = Idle]
      /\ request[q].op # "create" /\ request[q].pc = "counterLocked"
      /\ UNCHANGED reservation
  BY DEF CommitTransfer, Finish
<1>5. \A s \in Spaces : ~ LocksCounter(request[q], s) => nextNumber'[s] = nextNumber[s]
  BY <1>4 DEF CommitTransfer, CounterAdvanced, LocksCounter, IInv, TypeOK, Ledger!TypeOK
<1> HIDE DEF row
<1> QED BY <1>2, <1>3, <1>4, <1>5, ItemCommit

\* and a creation, which changes no existing item and no existing key.
LEMMA CommitCreateStep ==
    ASSUME IInv, NEW q \in Requests, NEW i \in Items, CommitCreate(q, i)
    PROVE  IInv'
<1> DEFINE r == [request[q] EXCEPT !.pc = "committed", !.item = i]
           s == request[q].space
           k == request[q].key
<1>1. Ledger!TypeOK'
  BY CreateRefines, LedgerKeepsTypes DEF IInv, TypeOK, Ledger!Next
<1>2. request[q] \in Request /\ RequestOK(request[q])
  BY DEF IInv, TypeOK, RequestsOK
<1>3. r \in Request
  BY <1>2 DEF Request
<1>4. /\ r.pc = "committed" /\ r.item = i /\ r.op = request[q].op /\ r.space = s
      /\ r.key = k /\ r.name = request[q].name /\ r.number = request[q].number
  BY <1>2 DEF Request
<1>5. /\ request' = [request EXCEPT ![q] = r]
      /\ request[q].op = "create" /\ request[q].pc = "counterLocked"
      /\ i \notin DOMAIN item
  BY <1>2 DEF CommitCreate, IInv, TypeOK
<1> HIDE DEF r
<1>6. TypeOK'
  BY <1>1, <1>3, <1>5 DEF IInv, TypeOK
<1>7. LocksExclude'
  BY <1>4, <1>5, ReleaseExclude
<1>8. /\ DOMAIN item \subseteq DOMAIN item'
      /\ \A j \in DOMAIN item : item'[j] = item[j]
  BY <1>5 DEF CommitCreate, Ledger!Insert
<1>9. /\ \A l : l \in DOMAIN reservation' <=>
               l \in DOMAIN reservation \/ (k # None /\ l = <<s, k>>)
      /\ k # None => reservation'[<<s, k>>] =
             [item |-> i, number |-> request[q].number, name |-> request[q].name]
      /\ \A l \in DOMAIN reservation : l # <<s, k>> => reservation'[l] = reservation[l]
  <2>1. CASE k = None
    BY <2>1 DEF CommitCreate
  <2>2. CASE k # None
    <3> DEFINE row == [item |-> i, number |-> request[q].number,
                       name |-> request[q].name]
    <3>1. reservation' = Ledger!Insert(reservation, <<s, k>>, row)
      BY <2>2 DEF CommitCreate, SnapshotOf
    <3> HIDE DEF row
    <3>2. /\ DOMAIN reservation' = DOMAIN reservation \cup {<<s, k>>}
          /\ \A l \in DOMAIN reservation \cup {<<s, k>>} :
                 reservation'[l] = IF l = <<s, k>> THEN row ELSE reservation[l]
      BY <3>1 DEF Ledger!Insert
    <3> QED BY <2>2, <3>2 DEF row
  <2> QED BY <2>1, <2>2
<1>10. s \in Spaces /\ (k # None => k \in Keys /\ <<s, k>> \notin DOMAIN reservation)
  BY <1>2, <1>5 DEF RequestOK, Creation
<1>11. \A t \in Spaces : t # s => nextNumber'[t] = nextNumber[t]
  BY DEF CommitCreate, CounterAdvanced, IInv, TypeOK, Ledger!TypeOK
<1>12. ASSUME NEW p \in Requests, p # q PROVE RequestOK(request[p])'
  <2> DEFINE t == request[p]
  <2>1. request'[p] = t /\ RequestOK(t)
    BY <1>5, <1>12 DEF IInv, TypeOK, RequestsOK
  <2>2. Apart(request[q], t)
    BY <1>12 DEF IInv, LocksExclude
  <2>3. t.pc = "counterLocked" => t.space \in Spaces /\ t.space # s
    BY <1>5, <1>10, <2>1, <2>2 DEF Apart, LocksCounter, RequestOK, Change, Creation
  <2>4. t.op = "create" /\ t.pc \in {"keyLocked", "counterLocked"} /\ t.key # None
        => t.space # s \/ t.key # k
    BY <1>5, <1>10, <2>2 DEF Apart, LocksKey
  <2> HIDE DEF t
  <2>5. Change(request[p])'
    BY <1>8, <2>1 DEF RequestOK, Change, Acceptable, RevisionMatches, NotTrashed
  <2>6. Creation(request[p])'
    <3>1. t.op = "create" /\ t.key # None /\ t.pc \in {"keyLocked", "counterLocked"}
          => <<t.space, t.key>> \notin DOMAIN reservation'
      BY <1>9, <2>1, <2>4 DEF RequestOK, Creation
    <3>2. t.op = "create" /\ t.key # None /\ t.pc = "committed"
          => /\ <<t.space, t.key>> \in DOMAIN reservation'
             /\ reservation'[<<t.space, t.key>>] = reservation[<<t.space, t.key>>]
      BY <1>9, <1>10, <2>1 DEF RequestOK, Creation
    <3> QED BY <2>1, <3>1, <3>2 DEF RequestOK, Creation
  <2>7. Counter(request[p])'
    BY <1>11, <2>1, <2>3 DEF RequestOK, Counter
  <2> QED BY <2>5, <2>6, <2>7 DEF RequestOK, Change, Creation, Counter
<1>13. RequestOK(request[q])'
  <2>1. request'[q] = r
    BY <1>5 DEF IInv, TypeOK
  <2>2. r.key # None => r.key \in Keys /\ r.name \in Names
    BY <1>2, <1>4, <1>5 DEF RequestOK, Creation
  <2> QED BY <1>4, <1>5, <1>9, <1>10, <2>1, <2>2 DEF RequestOK, Change, Creation, Counter
<1>14. RequestsOK'
  BY <1>12, <1>13 DEF RequestsOK
<1> QED BY <1>6, <1>7, <1>14 DEF IInv

----------------------------------------------------------------------------
\* The invariant is inductive.
LEMMA StepIInv == IInv /\ [Next]_vars => IInv'
<1> SUFFICES ASSUME IInv, [Next]_vars PROVE IInv'
  OBVIOUS
<1>1. ASSUME NEW q \in Requests, Arrival(q) PROVE IInv'
  BY <1>1, ReceiveCreateStep, ReceiveChangeStep DEF Arrival
<1>2. ASSUME NEW q \in Requests,
             LockItem(q) \/ ReserveKey(q) \/ ReplayKey(q) \/ LockCounter(q)
      PROVE  IInv'
  BY <1>2, LockItemStep, ReserveKeyStep, ReplayKeyStep, LockCounterStep
<1>3. ASSUME NEW q \in Requests,
             RefuseChange(q) \/ RefuseKey(q) \/ Respond(q) \/ Abandon(q)
      PROVE  IInv'
  BY <1>3, FinishStep DEF RefuseChange, RefuseKey, Respond, Abandon
<1>4. ASSUME NEW q \in Requests,
             CommitEdit(q) \/ CommitState(q) \/ CommitTransfer(q)
      PROVE  IInv'
  BY <1>4, CommitEditStep, CommitStateStep, CommitTransferStep
<1>5. ASSUME NEW q \in Requests, NEW i \in Items, CommitCreate(q, i) PROVE IInv'
  BY <1>5, CommitCreateStep
<1>6. CASE UNCHANGED vars
  <2>1. UNCHANGED <<tables, request>>
    BY <1>6 DEF vars
  <2>2. TypeOK'
    BY <2>1 DEF tables, IInv, TypeOK, Ledger!TypeOK
  <2>3. LocksExclude'
    BY <2>1 DEF IInv, LocksExclude, Apart, LocksItem, LocksCounter, LocksKey
  <2>4. RequestsOK'
    BY <2>1 DEF tables, IInv, RequestsOK, RequestOK, Change, Creation, Counter,
       Acceptable, RevisionMatches, NotTrashed
  <2> QED BY <2>2, <2>3, <2>4 DEF IInv
<1> QED
  BY <1>1, <1>2, <1>3, <1>4, <1>5, <1>6 DEF Next, ServerStep

\* It holds in every reachable state.
LEMMA Invariance == Spec => []IInv
BY InitIInv, StepIInv, PTL DEF Spec

\* The tables and the requests keep their types.
THEOREM InventoryTypeCorrect == Spec => []TypeOK
<1>1. IInv => TypeOK
  BY DEF IInv
<1> QED BY <1>1, Invariance, PTL

\* However many requests interleave, a transaction about to change an item finds
\* it in the space whose rights its request was granted, if it expects a revision
\* the item had reached by then (transfer_item and its sisters, after the
\* authorization of their handlers).
THEOREM KnownRevisionsAreAuthorized == Spec => []KnownRevisionsPinTheSpace
<1>1. ASSUME IInv PROVE KnownRevisionsPinTheSpace
  <2> SUFFICES ASSUME NEW q \in Requests, request[q].op # "create",
                      request[q].known,
                      request[q].pc \in {"itemLocked", "counterLocked"}
               PROVE  item[request[q].item].space = request[q].authorized
    BY DEF KnownRevisionsPinTheSpace
  <2>1. RequestOK(request[q])
    BY <1>1 DEF IInv, RequestsOK
  <2>2. Acceptable(request[q])
    BY <2>1 DEF RequestOK, Change
  <2> QED BY <2>1, <2>2 DEF RequestOK, Change, Acceptable, RevisionMatches
<1> QED BY <1>1, Invariance, PTL

\* All the answers to one idempotency key name the item the key holds.
THEOREM AnswersAgree == Spec => []AnswersAgreeWithTheKey
<1>1. IInv => AnswersAgreeWithTheKey
  BY DEF IInv, RequestsOK, RequestOK, Creation, AnswersAgreeWithTheKey
<1> QED BY <1>1, Invariance, PTL

----------------------------------------------------------------------------
(* The inventory implements the ledger.                                    *)

\* Both start from empty tables.
LEMMA InitRefines == Init => Ledger!Init
<1> SUFFICES ASSUME Init PROVE Ledger!Init
  OBVIOUS
<1>1. item = [i \in {} |-> Ledger!NewRow(i, 1)]
  BY DEF Init
<1>2. reservation = [k \in {} |-> k]
  BY DEF Init
<1> QED BY <1>1, <1>2 DEF Init, Ledger!Init, Ledger!FirstNumber

\* Every step of the inventory is a ledger change or leaves the tables alone.
LEMMA StepRefines == IInv /\ [Next]_vars => [Ledger!Next]_tables
<1> SUFFICES ASSUME IInv, [Next]_vars PROVE Ledger!Next \/ UNCHANGED tables
  OBVIOUS
<1>1. ASSUME NEW q \in Requests, Arrival(q) PROVE UNCHANGED tables
  BY <1>1 DEF Arrival, ReceiveCreate, ReceiveChange
<1>2. ASSUME NEW q \in Requests,
             \/ LockItem(q) \/ RefuseChange(q) \/ ReserveKey(q) \/ ReplayKey(q)
             \/ RefuseKey(q) \/ LockCounter(q) \/ Respond(q) \/ Abandon(q)
      PROVE  UNCHANGED tables
  BY <1>2 DEF LockItem, RefuseChange, ReserveKey, ReplayKey, RefuseKey, LockCounter,
     Respond, Abandon
<1>3. ASSUME NEW q \in Requests, CommitEdit(q) PROVE Ledger!Next
  BY <1>3, EditRefines DEF Ledger!Next
<1>4. ASSUME NEW q \in Requests, CommitState(q) PROVE Ledger!Next
  BY <1>4, StateRefines DEF Ledger!Next, States, Ledger!States
<1>5. ASSUME NEW q \in Requests, CommitTransfer(q) PROVE Ledger!Next
  BY <1>5, TransferRefines DEF Ledger!Next
<1>6. ASSUME NEW q \in Requests, NEW i \in Items, CommitCreate(q, i) PROVE Ledger!Next
  BY <1>6, CreateRefines DEF Ledger!Next
<1>7. CASE UNCHANGED vars
  BY <1>7 DEF vars
<1> QED
  BY <1>1, <1>2, <1>3, <1>4, <1>5, <1>6, <1>7 DEF Next, ServerStep

\* Requests, locks, refusals, retries and rollbacks never show in the tables:
\* they change by the ledger's atomic changes alone.
THEOREM Refinement == Spec => ImplementsLedger
<1>1. [Next]_vars /\ IInv => [Ledger!Next]_Ledger!tables
  BY StepRefines DEF tables, Ledger!tables
<1> QED
  BY <1>1, InitRefines, Invariance, PTL DEF Spec, ImplementsLedger, Ledger!Spec

\* What the proofs of the ledger read of a step.
LEMMA LedgerStep == IInv /\ [Next]_vars => [Proved!Next]_Proved!tables
BY StepRefines, SameNext DEF tables, Proved!tables

LEMMA LedgerInit == Init => Proved!Init
<1>1. Ledger!Init => Proved!Init
  BY DEF Ledger!Init, Proved!Init, Ledger!NewRow, Proved!NewRow,
     Ledger!FirstNumber, Proved!FirstNumber
<1> QED BY <1>1, InitRefines

\* No number of a space is ever given twice, by any interleaving of creations
\* and transfers (create_item_inner and transfer_item).
THEOREM InventoryNeverReuses == Spec => []NumbersNeverReused
<1>1. Init => Proved!NumberingInv
  BY LedgerInit, Proved!InitNumbering
<1>2. IInv /\ Proved!NumberingInv /\ [Next]_vars => Proved!NumberingInv'
  BY LedgerStep, Proved!StepNumbering
<1>3. Proved!NumberingInv => NumbersNeverReused
  BY DEF Proved!NumberingInv, Proved!NumbersNeverReused, Proved!NowAt, Proved!LeftAt,
     NumbersNeverReused, Ledger!NumbersNeverReused, Ledger!NowAt, Ledger!LeftAt
<1> QED BY <1>1, <1>2, <1>3, Invariance, PTL DEF Spec

LEMMA HistoryInvariance == Spec => []Proved!HistoryInv
<1>1. Init => Proved!HistoryInv
  BY LedgerInit, Proved!InitHistory
<1>2. IInv /\ Proved!HistoryInv /\ [Next]_vars => Proved!HistoryInv'
  BY LedgerStep, Proved!StepHistory
<1> QED BY <1>1, <1>2, Invariance, PTL DEF Spec

\* The numbers of a space are given without a gap: an attempt that is refused,
\* retried or rolled back takes none (create_item_inner, transfer_item).
THEOREM InventoryBurnsNoNumber == Spec => []NoNumberIsBurned
<1>1. Proved!HistoryInv => NoNumberIsBurned
  <2>1. Proved!NoNumberIsBurned => NoNumberIsBurned
    BY DEF Proved!NoNumberIsBurned, Proved!PlacesOf, Proved!NowAt, Proved!LeftAt,
       NoNumberIsBurned, Ledger!NoNumberIsBurned, Ledger!PlacesOf, Ledger!NowAt,
       Ledger!LeftAt
  <2> QED BY <2>1, Proved!NoneSkipped
<1> QED BY <1>1, HistoryInvariance, PTL

\* Where a transfer put an item it still is, or a later transfer took it from
\* there (transfer_item writes both ends in the transaction that moves the item).
THEOREM TransfersAreTraced == Spec => []TransfersCanBeTraced
<1>1. Proved!HistoryInv => TransfersCanBeTraced
  BY DEF Proved!HistoryInv, Proved!TransfersCanBeTraced, Proved!ArrivedAt,
     Proved!PlacesOf, Proved!NowAt, Proved!LeftAt, TransfersCanBeTraced,
     Ledger!TransfersCanBeTraced, Ledger!ArrivedAt, Ledger!PlacesOf, Ledger!NowAt,
     Ledger!LeftAt
<1> QED BY <1>1, HistoryInvariance, PTL

\* A request key names one item, by a number it has carried in the space of the
\* request, and no other key names it (create_item_idempotent).
THEOREM KeysNameTheirItems == Spec => []EachKeyNamesItsOwnItem
<1>1. Proved!HistoryInv => EachKeyNamesItsOwnItem
  BY DEF Proved!HistoryInv, Proved!EachKeyNamesItsOwnItem, Proved!PlacesOf,
     Proved!NowAt, Proved!LeftAt, EachKeyNamesItsOwnItem,
     Ledger!EachKeyNamesItsOwnItem, Ledger!PlacesOf, Ledger!NowAt, Ledger!LeftAt
<1> QED BY <1>1, HistoryInvariance, PTL

\* The audit of an item leads from active to the state it is in, whatever requests
\* competed for it (set_item_state).
THEOREM AuditReplays == Spec => []AuditTellsTheState
<1>1. Init => Proved!AuditInv
  BY LedgerInit, Proved!InitAudit
<1>2. IInv /\ Proved!AuditInv /\ [Next]_vars => Proved!AuditInv'
  BY LedgerStep, Proved!StepAudit
<1>3. Proved!AuditInv => AuditTellsTheState
  <2>1. Proved!AuditTellsTheState => AuditTellsTheState
    BY DEF Proved!AuditTellsTheState, AuditTellsTheState, Ledger!AuditTellsTheState
  <2> QED BY <2>1, Proved!AuditTells
<1> QED BY <1>1, <1>2, <1>3, Invariance, PTL DEF Spec

----------------------------------------------------------------------------
(* What a step may do to an item, and to a key.                            *)

\* The steps that leave the tables alone.
Waiting(q) ==
    \/ Arrival(q) \/ LockItem(q) \/ RefuseChange(q) \/ ReserveKey(q) \/ ReplayKey(q)
    \/ RefuseKey(q) \/ LockCounter(q) \/ Respond(q) \/ Abandon(q)

LEMMA WaitingWritesNothing == ASSUME NEW q, Waiting(q) PROVE UNCHANGED tables
BY DEF Waiting, Arrival, ReceiveCreate, ReceiveChange, LockItem, RefuseChange,
   ReserveKey, ReplayKey, RefuseKey, LockCounter, Respond, Abandon

\* An existing row changes only by a request that holds it, has found it acceptable
\* and is over with this step.
LEMMA ChangesAreCommits ==
    ASSUME IInv, [Next]_vars, NEW i \in DOMAIN item, item'[i] # item[i]
    PROVE  \E q \in Requests :
               /\ CommitEdit(q) \/ CommitState(q) \/ CommitTransfer(q)
               /\ request[q].item = i /\ Acceptable(request[q])
               /\ request'[q] = Idle
<1>1. ASSUME NEW q \in Requests, NEW j \in Items, CommitCreate(q, j)
      PROVE  item'[i] = item[i]
  BY <1>1 DEF CommitCreate, Ledger!Insert
<1>2. CASE UNCHANGED tables
  BY <1>2 DEF tables
<1>3. PICK q \in Requests : CommitEdit(q) \/ CommitState(q) \/ CommitTransfer(q)
  BY <1>1, <1>2, WaitingWritesNothing DEF Next, ServerStep, Waiting, vars
<1>4. /\ request[q].pc \in {"itemLocked", "counterLocked"} /\ request[q].op # "create"
      /\ Finish(q)
  BY <1>3 DEF CommitEdit, CommitState, CommitTransfer, States
<1>5. Acceptable(request[q]) /\ request[q].item \in DOMAIN item
  BY <1>4 DEF IInv, RequestsOK, RequestOK, Change
<1>6. request'[q] = Idle
  BY <1>4 DEF Finish, IInv, TypeOK
<1>7. PICK row : item' = [item EXCEPT ![request[q].item] = row]
  BY <1>3 DEF CommitEdit, CommitState, CommitTransfer
<1>8. request[q].item = i
  BY <1>7
<1> QED BY <1>3, <1>5, <1>6, <1>8

\* The new row, as the ledger's operators make it.
LEMMA ChangedRow ==
    ASSUME IInv, NEW q \in Requests, NEW i \in DOMAIN item, request[q].item = i
    PROVE  /\ CommitEdit(q) => item'[i] = Ledger!Edited(item[i])
           /\ CommitState(q) => item'[i] = Ledger!InState(item[i], request[q].op)
           /\ CommitTransfer(q) =>
                  item'[i] = Ledger!MovedTo(item[i], request[q].space, request[q].number)
<1>1. item \in [DOMAIN item -> Ledger!ItemRow]
  BY DEF IInv, TypeOK, Ledger!TypeOK
<1>2. ASSUME NEW row, item' = [item EXCEPT ![i] = row] PROVE item'[i] = row
  BY <1>1, <1>2
<1> QED BY <1>2 DEF CommitEdit, CommitState, CommitTransfer

\* No update is lost: a row changes only by a request that expected exactly the
\* revision it replaces, whatever others read it in the meantime.
THEOREM UpdatesAreNotLost == Spec => NoUpdateIsLost
<1>1. ASSUME IInv, [Next]_vars, NEW i \in DOMAIN item, item'[i] # item[i]
      PROVE  /\ item'[i].revision = item[i].revision + 1
             /\ \E q \in Requests : /\ request[q].item = i
                                    /\ request[q].expected = item[i].revision
                                    /\ request'[q] = Idle
  <2>1. PICK q \in Requests :
            /\ CommitEdit(q) \/ CommitState(q) \/ CommitTransfer(q)
            /\ request[q].item = i /\ Acceptable(request[q])
            /\ request'[q] = Idle
    BY <1>1, ChangesAreCommits
  <2>2. item[i] \in Ledger!ItemRow
    BY <1>1 DEF IInv, TypeOK, Ledger!TypeOK
  <2>3. Ledger!Edited(item[i]).revision = item[i].revision + 1
    BY <2>2 DEF Ledger!Edited, Ledger!ItemRow
  <2>4. item'[i].revision = item[i].revision + 1
    <3>1. CASE CommitEdit(q)
      BY <1>1, <2>1, <2>3, <3>1, ChangedRow
    <3>2. CASE CommitState(q)
      <4>1. item'[i] = Ledger!InState(item[i], request[q].op)
        BY <1>1, <2>1, <3>2, ChangedRow
      <4> QED BY <4>1 DEF Ledger!InState
    <3>3. CASE CommitTransfer(q)
      <4>1. item'[i] = Ledger!MovedTo(item[i], request[q].space, request[q].number)
        BY <1>1, <2>1, <3>3, ChangedRow
      <4> QED BY <4>1 DEF Ledger!MovedTo
    <3> QED BY <2>1, <3>1, <3>2, <3>3
  <2>5. request[q].expected = item[i].revision
    BY <2>1 DEF Acceptable, RevisionMatches
  <2> QED BY <2>1, <2>4, <2>5
<1>2. IInv /\ [Next]_vars =>
        [\A i \in DOMAIN item : item'[i] # item[i] =>
          /\ item'[i].revision = item[i].revision + 1
          /\ \E q \in Requests : /\ request[q].item = i
                                 /\ request[q].expected = item[i].revision
                                 /\ request'[q] = Idle]_vars
  BY <1>1
<1> QED BY <1>2, Invariance, PTL DEF Spec, NoUpdateIsLost

\* All that a trashed item undergoes is its restoration, even by a request that
\* was authorized while it was active.
THEOREM TrashIsReadOnly == Spec => TrashedItemsAreReadOnly
<1>1. ASSUME IInv, [Next]_vars, NEW i \in DOMAIN item, item[i].state = "trashed",
             item'[i] # item[i]
      PROVE  item'[i] = [item[i] EXCEPT !.state = "active", !.revision = @ + 1]
  <2>1. PICK q \in Requests :
            /\ CommitEdit(q) \/ CommitState(q) \/ CommitTransfer(q)
            /\ request[q].item = i /\ Acceptable(request[q])
    BY <1>1, ChangesAreCommits
  <2>2. request[q].op \notin {"edit", "transfer"}
    BY <1>1, <2>1 DEF Acceptable, NotTrashed
  <2>3. CommitState(q) /\ request[q].op \in States
    BY <2>1, <2>2 DEF CommitEdit, CommitState, CommitTransfer
  <2>4. request[q].op = "active"
    BY <1>1, <2>1, <2>3 DEF Acceptable, CanTransition
  <2>5. item'[i] = Ledger!InState(item[i], "active")
    BY <1>1, <2>1, <2>3, <2>4, ChangedRow
  <2>6. item[i] \in Ledger!ItemRow
    BY <1>1 DEF IInv, TypeOK, Ledger!TypeOK
  <2>7. PICK row \in Ledger!ItemRow : row = item[i]
    BY <2>6
  <2>8. Ledger!InState(row, "active") =
            [row EXCEPT !.state = "active", !.revision = row.revision + 1]
    <3>1. PICK a, b, c, d : row = [space |-> a, number |-> b, revision |-> c, state |-> d]
      BY DEF Ledger!ItemRow
    <3>2. PICK active : active = [row EXCEPT !.state = "active"]
      OBVIOUS
    <3>3. active = [space |-> a, number |-> b, revision |-> c, state |-> "active"]
      BY <3>1, <3>2
    <3>4. [active EXCEPT !.revision = row.revision + 1] =
              [space |-> a, number |-> b, revision |-> row.revision + 1, state |-> "active"]
      BY <3>3
    <3>5. [active EXCEPT !.revision = row.revision + 1] = Ledger!InState(row, "active")
      BY <3>1, <3>4 DEF Ledger!InState
    <3> QED BY <3>2, <3>5
  <2> QED BY <2>5, <2>7, <2>8
<1>2. IInv /\ [Next]_vars =>
        [\A i \in DOMAIN item : item[i].state = "trashed" /\ item'[i] # item[i] =>
          item'[i] = [item[i] EXCEPT !.state = "active", !.revision = @ + 1]]_vars
  BY <1>1
<1> QED BY <1>2, Invariance, PTL DEF Spec, TrashedItemsAreReadOnly

\* A key that has created an item creates no other, and keeps the one it has.
THEOREM RetriesCreateOnce == Spec => RetriesNeverCreateAgain
<1>1. ASSUME IInv, NEW p \in Requests, NEW j \in Items, CommitCreate(p, j)
      PROVE  /\ \A k \in DOMAIN reservation : reservation'[k] = reservation[k]
             /\ \A q \in Requests :
                   /\ request[q].op = "create" /\ request[q].key # None
                   /\ <<request[q].space, request[q].key>> \in DOMAIN reservation
                   => request'[q] = request[q]
  <2>1. request[p].key # None =>
            <<request[p].space, request[p].key>> \notin DOMAIN reservation
    BY <1>1 DEF CommitCreate, IInv, RequestsOK, RequestOK, Creation
  <2>2. \A k \in DOMAIN reservation : reservation'[k] = reservation[k]
    BY <1>1, <2>1 DEF CommitCreate, Ledger!Insert
  <2>3. \A q \in Requests \ {p} : request'[q] = request[q]
    BY <1>1 DEF CommitCreate, IInv, TypeOK
  <2> QED BY <2>1, <2>2, <2>3
<1>2. ASSUME IInv, NEW p \in Requests, CommitEdit(p) \/ CommitState(p) \/ CommitTransfer(p)
      PROVE  DOMAIN item' = DOMAIN item /\ UNCHANGED reservation
  <2>1. PICK row : item' = [item EXCEPT ![request[p].item] = row]
    BY <1>2 DEF CommitEdit, CommitState, CommitTransfer
  <2>2. UNCHANGED reservation
    BY <1>2 DEF CommitEdit, CommitState, CommitTransfer
  <2> QED BY <2>1, <2>2
<1>3. ASSUME IInv, [Next]_vars
      PROVE  /\ \A k \in DOMAIN reservation : reservation'[k] = reservation[k]
             /\ \A q \in Requests :
                   /\ request[q].op = "create" /\ request[q].key # None
                   /\ <<request[q].space, request[q].key>> \in DOMAIN reservation
                   /\ request'[q] # request[q]
                   => DOMAIN item' = DOMAIN item
  <2>1. CASE UNCHANGED tables
    BY <2>1 DEF tables
  <2>2. CASE \E p \in Requests, j \in Items : CommitCreate(p, j)
    BY <1>1, <1>3, <2>2
  <2>3. CASE \E p \in Requests : CommitEdit(p) \/ CommitState(p) \/ CommitTransfer(p)
    BY <1>2, <1>3, <2>3
  <2> QED BY <1>3, <2>1, <2>2, <2>3, WaitingWritesNothing DEF Next, ServerStep,
          Waiting, vars
<1>4. IInv /\ [Next]_vars =>
        [/\ \A k \in DOMAIN reservation : reservation'[k] = reservation[k]
         /\ \A q \in Requests :
             /\ request[q].op = "create" /\ request[q].key # None
             /\ <<request[q].space, request[q].key>> \in DOMAIN reservation
             /\ request'[q] # request[q]
             => DOMAIN item' = DOMAIN item]_vars
  BY <1>3
<1> QED BY <1>4, Invariance, PTL DEF Spec, RetriesNeverCreateAgain
=============================================================================
