# CollectionOps: specifications, model checking and proofs

TLA+ models of the CollectionOps backend (Rust, Axum, MariaDB through sqlx),
checked with TLC on small instances, with every safety property they check proved
with TLAPS for every value of the constants. Paths below are relative to `backend/` unless
they say otherwise.

## The system

CollectionOps keeps inventories of items in *spaces* shared by several accounts.
A Windows client talks to an HTTP API; each handler authenticates a session,
reads the rights of the account in the space, and calls one function of the
database layer, which is one MariaDB transaction. The server keeps no other
shared state: components interact through the tables, their row locks and their
foreign keys, and, for documents, through files.

| Component | State it keeps | Operations | What is hard | Status |
|---|---|---|---|---|
| Inventory (`src/database.rs`) | `inventory_items`, `inventory_counters`, `inventory_transfers`, `inventory_item_audit_events`, `item_creation_requests` | create (with or without `Idempotency-Key`), rename, details, archive, trash, restore, transfer | concurrent numbering, rollback after a number was taken, retries after a lost answer, stale revisions, items that move between authorization and write | modelled, safety proved |
| Membership, ownership, delegation (`src/database.rs`) | `spaces.owner_account_id`, `space_memberships`, `space_permission_grants`, `space_managers`, audit tables | change permissions, remove, appoint, revoke, transfer the ownership, accept an invitation | decisions on a snapshot, then a wait for a lock; lock order; cascades | modelled, safety proved |
| HTTP layer (`src/http.rs`) | none | routing, authentication, rights, error bodies | rights and the item are read before the transaction and not again in it, answers are read after it | partly |
| Invitations (`src/invitations.rs`) | `space_invitations`, grants, audit | issue, list, revoke, accept | single use, reissue against acceptance, expiry, mail failure, lock order | modelled, safety proved |
| Sessions (`src/database.rs`, `src/http.rs`) | `account_sessions` | create, authenticate, list, revoke | check then update in two statements, sliding and absolute expiry | modelled, proved |
| Documents (`src/documents.rs`) | `item_documents` and one file per document | upload, list, download, delete | crash or cancellation between file and row, commit in doubt, quota, transfers | modelled, safety proved |
| Categories and fields (`src/taxonomy.rs`) | `inventory_categories`, `category_field_definitions`, `item_category_assignments`, `item_custom_field_values` | create, add, replace, set a value, reclassify on transfer, rename | a value hangs on one of several assignments that come and go | modelled, but for renames and value types; proved |
| Relations, locations (`src/relations.rs`, `locations.rs`) | `item_relations`, `inventory_locations`, `item_location_events` | replace, create, move, clear on transfer | rows of other items read but not locked, transfers meanwhile | modelled, proved |
| Groups (`src/groups.rs`) | `inventory_groups`, `inventory_group_members` | create, rename, delete, replace, clear on transfer | the same, and deletion of a group | modelled, but for renames; proved |
| Acquisitions (`src/acquisitions.rs`) | wishes, vendors, offers | create, update | optimistic revisions, each compared and written by one statement | not modelled |
| Credentials, mail, configuration, start-up | accounts | hashing, SMTP, environment | pure computation or I/O | not modelled |
| Windows client (`client-windows/`) | one pending idempotency key in memory | retries | when the key is kept or dropped | its retries are inputs of Inventory |

For each component, what makes it correct: *Inventory*: a number of a space is given
once and none is skipped, a retry never creates again, no update is lost, the trash is
read-only, histories have no hole. *Membership*: rights never outlive a membership, the
owner is a member with its core rights, the audit is exact, a manager stays within its
delegation. *Invitations*: one use, one open link per recipient. *Sessions*: a session
that is revoked, or has lapsed, stays so once the requests that came before are over.
*Documents*: a visible row has its file. *Links*: an item is only linked within its
space, and the history of its moves has no hole. *Categories*: a value is kept as long
as its field is reachable, shown once, and never brought back. *Everywhere*: what a
client sees under a revision is what that revision was.

The hazards this code is exposed to are listed line by line in `PROJECT.json`
with the properties that cover them, or the reason why none does.

## How transactions are modelled

MariaDB runs these transactions under REPEATABLE READ with row locks:

- a locking read, an UPDATE or DELETE, and a unique-key INSERT see the latest
  committed row and hold it until the end of the transaction. Each one that can
  wait for another modelled transaction is a step, enabled when the row is free;
- a plain SELECT reads the snapshot that the first one took. What the code
  decides from it is decided in that step, and what it still uses later is kept
  in the request;
- the writes of a transaction and its COMMIT are one step, since nobody can read
  the rows before: the rows written are locked or new. A commit that must insert
  into a table with a foreign key to a row another transaction holds waits for it;
- returning an error drops the sqlx transaction, which rolls it back: a refusal is
  a step that only ends the request;
- `Abandon` ends a request at any point. It stands for rights that are refused, a
  failing statement, a lock wait that times out, a client that disconnects (Axum
  drops the handler's future) and a crash: an open transaction disappears, a
  committed one stays and only its answer is lost.

## Modules

**`InventoryLedger`**: the abstract specification of the inventory. Five tables and
four atomic changes (`Create`/`CreateOnce`, `Edit`, `SetState`, `Transfer`), with
the properties of the tables. A table is a function from primary keys to rows.

**`Inventory`**: the code. A request is authorized (`ReceiveCreate`,
`ReceiveChange`, the handlers of `http.rs`), then runs one transaction:

| Code | Actions |
|---|---|
| `reserve_item_creation_request` | `ReserveKey`, `ReplayKey`, `RefuseKey` |
| `create_item_inner` | `LockCounter`, `CommitCreate`, then `Respond` |
| `rename_item`, `update_item_details` | `LockItem` or `RefuseChange`, then `CommitEdit` |
| `set_item_state` | `LockItem` or `RefuseChange`, then `CommitState` |
| `transfer_item_with_categories` | `LockItem` or `RefuseChange`, `LockCounter`, `CommitTransfer` |

The locks are not a variable: they follow from how far each request is
(`LocksItem`, `LocksCounter`, `LocksKey`). Names only tell two requests with one
key apart, details are not kept, and what a transfer does to links is in
`ItemLinks` and `Classification`. A key stands for an account and a UUID. A client may
expect any positive revision, one the item has not reached yet included, since
`positive_revision` asks no more: `known` tells whether the item had reached it when the
rights were checked.

**`SpaceMembers`**: the sharing of one space. `BeginPermissions`, `BeginRemove`,
`BeginAppoint` and `BeginRevoke` take the snapshot and decide on it;
`BeginTransfer` locks the row of the space instead. `LockMember` and `RefuseTarget`
are the `SELECT ... FOR UPDATE` of the membership; `Commit...` the writes and the
audit row. `RefuseAppoint` is the duplicate primary key, `Victim` the deadlock
between a membership change (membership, then the space through the audit's
foreign key) and an ownership transfer (space, then membership), `Join` the
effect of `accept_invitation`. Spaces are independent in this code, so one
is enough. `audit` keeps only the row the last step added: no code reads older ones.
The `manages_members` check of the handler comes before the same check in the
transaction and adds nothing to it. In `space_managers`, the row of a removed
member goes by `ON DELETE CASCADE`.

**`DocumentShelf`** and **`Documents`**: what a user may expect of documents (a shelf on
which each is added once, within the quota, readable until taken off, and announced only
if it was there), and the file, the row and the upload that provide it. An upload is
`Receive`, `WriteFile`, `LockItem`, `CountDocuments`, `Commit`, `ReadBack`; after a
failure `LookForRow` decides whether the file may go (`RemoveFile`). `DatabaseFails`
covers every statement, a COMMIT in doubt included: `doubt` says that its reply is lost,
and the server carries it out or rolls it back at any later moment (`Settle`), until
when its transaction holds the item. The upload may have looked for its row in the
meantime and removed the file; the shelf calls such an upload `unsure`, and only of such
an upload may the document be lost (`Lose`). `Abandon` drops the handler between any two
steps; a file operation that tokio has already handed to its thread pool still happens.
`Shelved` is the refinement mapping: a row without its whole file is a lost document,
which the shelf allows of no other upload. A file without a row may remain after a
cancellation or a crash (nothing removes it later); `NoOrphan` says when it must not.

**`Sessions`**: a session is a row, a clock runs, and a request reads the clock
(`Present`), the row (`Check`, `Refuse`) and writes `last_seen_at` (`Refresh`) at three
moments. `uses` records the accepted uses; no action reads it. A session is `Late` when
its lifetime or its last idle delay is over, and `Lapsed` when besides no request that
came in time is left. `GoesOn` chooses what the request does then: revoke a session
(`Revoke`), or anything else.

**`Invitations`**: issue and revoke lock the space and then the links; acceptance locks
the link, the account or the gap where it will be, and then shares the space. Who
waits for whom is computed from how far each request is (`WaitsFor`), and `Victim` ends
a cycle. `MailFails` turns an issue into the transaction that undoes it. Ownership transfers
and removals stand for the rest of the membership. A removal decides on the owner
of an earlier moment (`SeenNotOwner`), as in finding 1, so an owner need not be a member.

**`ItemLinks`**: groups, relations, location and transfers of items. `Begin...` locks the
item and checks in a snapshot what it will refer to; `Commit...` compares, writes and
meets the foreign keys (`ForeignKeysHold`, `RefusedByForeignKey`). In between the rows
referred to are free to change. The wait of a foreign key for a locked row is
left out, which only allows more interleavings.

**`Classification`**: the categories of one item and its field values, over any forest
of categories. `Source` is the order by which `load_effective_fields` picks the
assignment that answers for a field; `Preserved` is `preserve_reachable_values`. Around
these, one `handler` of `http.rs` is followed: it reads the item (`AuthorizeItem`),
writes if the item is at the revision its client expects (`Written`), and reads what it
answers (`ListItemFields`), three snapshots between which others write. What the client
expects is not compared with the item the handler has read: it may be the next revision.
`pinned` says that it was not, or that the item was still in the space read.

**`MCInventory`, `MCSpaceMembers`, `MCSessions`, `MCItemLinks`, `MCClassification`**:
symmetry for TLC (never used in the runs that check liveness). **`...Proofs`**: the
theorems of the component of that name (`InventoryLedger`, `Inventory`, `SpaceMembers`,
`Sessions`, `Documents`, `Invitations`, `ItemLinks`, `Classification`). Small
definitions next to the ones they vary (`CounterKept`, `KeyNotUnique`,
`AnyoneRemovable`...) are faults that each property must catch; `PROJECT.json` pairs
them with the properties.

## Runs

| Run | Instance | States | What it shows |
|---|---|---|---|
| `inventory_contention` | 2 items, 2 spaces, 1 key, 2 names, 3 requests, revisions expected below 2 | 346,409 | numbering (`NumbersNeverReused`, `NoNumberIsBurned`), idempotent creation (`EachKeyNamesItsOwnItem`, `RetriesNeverCreateAgain`, `AnswersAgreeWithTheKey`) and the refinement (`ImplementsLedger`) |
| `inventory_history` | 1 item, 2 spaces, 1 key, 1 name, 2 requests, revisions expected below 4 | 238,949 | the longer life of one item: `TransfersCanBeTraced`, `AuditTellsTheState`, `NoUpdateIsLost`, `TrashedItemsAreReadOnly`, stale authorization (`KnownRevisionsPinTheSpace`), and `EveryRequestEnds` |
| `members_concurrent` | 3 accounts, 2 requests, 2 ownership transfers | 1,036,338 | `NothingOutlivesAMembership`, `OwnersFollowEachOther`, `OwnershipPassesToMembers`, and that only a request with a stale snapshot can hurt the owner (`OnlyStaleRequestsHurtTheOwner`) |
| `members_progress` | 2 accounts, one a system administrator, 2 requests | 36,806 | `EveryRequestEnds`, with an administrator among the actors |
| `documents` | 2 documents, 2 items, 2 spaces, a quota of 1 | 413,392 | the file and the row act as one (`ImplementsShelf`) but for a COMMIT carried out late, no file is left by an upload that ended in order (`NoOrphan`), and every upload ends (`UploadsEnd`) |
| `sessions` | 2 tokens, 2 accounts, 2 requests, idle delays 1 and 3, lifetimes 2 and 3, time 0 to 3 | 2,461,559 | `RevocationIsFinal`, `LapsedIsFinal` and `EveryUseFollowsAnother`, although refreshes may be applied late and out of order |
| `invitations` | 2 people, 2 spaces, 2 requests, 2 invitations, 1 of them expired, 1 ownership transfer | 406,801 | `OneOpenLink`, `ClosedForGood`, and `RequestsEnd` in spite of two lock orders |
| `item_links` | 2 items, 2 spaces, a group and a location in each, 2 requests, 4 changes of an item | 666,117 | `LinksStayInOneSpace`, `HistoryIsContinuous`, `GuardedByRevision` |
| `classification` | 1 item, 2 spaces, 3 categories with a field each, 2 values, 3 assignments, 4 changes | 866,815 | `OneValuePerField`, `ReclassificationKeepsValues`, `HistoryIsSealed`, and `CurrentPagesAreRight` for one handler among the others |
| `members_owner_removed` | 3 accounts, 2 requests | stops at the counterexample | counterexample to `OwnerIsAMember` |
| `members_audit_stale` | 3 accounts, 2 permissions, 2 requests | the same | counterexample to `AuditIsExact` |
| `members_managers_removed` | 3 accounts, 1 request | the same | counterexample to `ManagersLeaveManagersAlone` |

*Bounds.* Two requests already give every pairwise race, three let one wait behind two
others that compete for the same counter or key. Two spaces let an item leave and come
back; two items let two numbers of one space collide. `MaxRevision` bounds the revision
a request may expect, so an item is changed at most that often (less one); the three
changes of `inventory_history` hold a transfer away and back, or a trash and restore
cycle, with one change more. The one name of that run is enough because only the replay
of a key tells names apart; `inventory_contention` has two. `RoomForItem` only keeps an
identifier for each creation in progress. `MaxTransfers` bounds the ownership transfers:
one is enough for a removal to decide on an owner of before it, two for the journal to
have a middle. `MaxExpired` lets one invitation of two expire. The constant
`Permissions` holds one core right, or a core and a financial one: the code treats all
rights that are not core alike.

A quota of one makes two uploads compete; two documents also let one be deleted
while the other is written. In `sessions` the shorter idle delay ends before
either lifetime and the longer after, and a delay equal to the ceiling touches the CHECK of the
table. Two invitations let one replace another, and one request accept the first
meanwhile. Four changes of an item let it be classified, given a value, transferred
and brought back, or moved, transferred, moved and brought back. Three categories
give every shape in which two assignments reach one field. The limits of 20
categories, 50 groups and 50 relations are far above these and are left out.

*Deadlock* is checked in every run: a request can always arrive or end, up to the
bounds.

*Fairness.* `FairSpec` asks strong fairness of the server's steps of each request,
and nothing of clients. A handler that is not waiting continues; InnoDB queues the
waiters of a row lock in order, so a transaction for which the lock keeps becoming
free gets it; its deadlock detection runs at each wait. `Abandon` is not fair: a
request does not end because it fails. In `Documents` the same holds of the file
system, and in `Invitations` of the mail relay, which `src/mail.rs` gives 15 seconds.
`Sessions`, `ItemLinks` and `Classification` state no liveness: the first has no waits, and
what the others wait for (an item, a counter) is in `Inventory`, save for the deadlock
of two relations declared both ways at once, which InnoDB ends by a rollback.

## Findings

1. **The owner can be removed** (`members_owner_removed`). `remove_member` reads the
   owner from its snapshot (`src/database.rs:1667`) and then locks the membership. An
   ownership transfer to the target that commits in between goes unseen, and the new
   owner loses its membership and its grants, against "The current owner cannot be
   removed" (`src/database.rs:1648`). `OnlyStaleRequestsHurtTheOwner` shows that this
   window is the only one. `transfer_space_ownership` writes neither the membership nor
   the grants, so no conflict on those rows stops the removal. With
   `innodb_snapshot_isolation=ON` the foreign key of its audit row to the space, whose
   row the transfer has changed, may.
2. **The audit can be stale** (`members_audit_stale`). `locked_member_grants` reads the
   grants from the snapshot although it holds the lock. In the trace, an owner begins a
   change of the permissions of an account whose invitation is accepted before the
   membership is locked: the audit row says that the account had no grants, and those
   the change takes away are recorded nowhere. Two changes of one member behave alike
   when one waits for the other. A server with `innodb_snapshot_isolation=ON` (the
   default of recent MariaDB versions) may rather fail the second request; the
   repository sets neither the option nor the version.
3. **Managers against managers** (`members_managers_removed`). The migration
   `202609240002_space_managers.sql` says that a manager never manages other managers;
   no check does it.

Observed while modelling, without a run of their own:

- `src/database.rs:504` says that authentication resolves the token and refreshes the
  idle clock "in the same statement"; it is a SELECT and an UPDATE. `last_seen_at` can
  go backwards when two refreshes are applied out of order. `EveryUseFollowsAnother`
  shows what is left of the idle delay: a session never outlives it without being used.
  A session refused for its idle delay may be accepted again, if a request that had come
  in time refreshes it after the refusal; `LapsedIsFinal` is stated once no such request
  is left.
- A request that was past its check when its session is revoked goes on, and its UPDATE
  writes the revoked row. `RevocationIsFinal` is stated once those requests are over.
- The revocation of a link whose message could not be sent (`src/http.rs:1773`) is a
  transaction of its own and may fail or be refused (a new owner, a deadlock, a dropped
  handler): the link nobody received then stays open until it expires or the next one
  for that recipient replaces it.
- A relation removed by the transfer of its target does not change the revision of its
  source (`GuardedByRevision` leaves it out), and `replace_item_relations` compares what
  is wanted with its snapshot: it may answer that nothing had to change for a relation
  that is gone, or raise the revision to remove one that already was.
- An upload cancelled or cut by a crash between file and row leaves a file nothing
  removes.
- `upload_document` may look for its row (`src/documents.rs:241`) before the server has
  carried out the COMMIT in doubt, on another connection of the pool and without a lock.
  It then removes the file, and the row that appears has none. The comment there says
  why a committed row must keep its file; `ImplementsShelf` allows the loss in this case
  only.
- A request that expects a revision the item has not reached yet is not refused for it:
  the handlers ask that it is positive (`src/http.rs:3179-3187`), and the transactions
  compare it with the locked row, but not the space (`src/database.rs:859`,
  `src/taxonomy.rs:433`). If a transfer makes it the present one in between, the change
  is made in a space other than the one whose rights were checked, and the answer of a
  field or category handler is read in the space of before. `KnownRevisionsPinTheSpace`
  and `CurrentPagesAreRight` state what holds of the others.
- In `load_effective_fields`, the order "with a value first, then the oldest" never
  needs its second criterion among holders: by `OneValuePerField` there is one at most.

## What is proved

Every safety property of the passing runs, invariant, action property or
refinement, is a theorem of the specification, for every finite or infinite
set of items, accounts, spaces, keys, tokens and requests, and every value of the
bounds. `PROJECT.json` lists each theorem with the property it states.

The proofs about the code have one shape. Hardly any property is inductive alone: what a
request decides under a lock, it writes in a later step. Each of them therefore defines
`IInv`, the inductive invariant: the type of the state, that no row is locked by two
requests (`LocksExclude` and its like), and what a request in progress may still rely
on, which is the heart of the argument (`RequestOK` and its like). One lemma per action
shows that the step keeps it; an action property then needs only `IInv` before the step.

- **`InventoryLedgerProofs`**. The ledger keeps its types and never gives a number
  twice. Uniqueness needs `PlacesAreBelow`: every place an item has, or has left, lies
  below the counter of its space. `HistoryInv` adds the converse (`AllGiven`: every
  number below the counter was given), and that transfers and keys name existing items,
  so that a new item has no past: no number is burned (`LedgerBurnsNoNumber`), no
  transfer is lost (`LedgerTracesTransfers`), every key names its own item
  (`LedgerKeepsKeysApart`). `AuditInv` says that the events of an item lead, without a
  jump, to its state (`LedgerAuditReplays`).
- **`InventoryProofs`**. What each request learned under its locks is still true: the
  item is at the expected revision and in an acceptable state; the number it read is the
  counter; its key is still free; an answer agrees with the reservation. Of an
  authorized request whose expected revision the item had reached by then, it says that
  the item is in the authorized space if it is at that revision, whence
  `KnownRevisionsAreAuthorized`. `Refinement` maps each commit to one change of the
  ledger and every other step to a stutter; the five table properties are then not
  proved again but inherited from the ledger (`InventoryNeverReuses`,
  `InventoryBurnsNoNumber`, `TransfersAreTraced`, `KeysNameTheirItems`, `AuditReplays`).
  `UpdatesAreNotLost`, `TrashIsReadOnly` and `RetriesCreateOnce` follow step by step.
- **`SpaceMembersProofs`**. `RequestOK` keeps apart what was decided of the owner in the
  snapshot (`seenOwner`, who may be another by now) and what is known of the membership
  that is locked. From it, rights end with the membership (`RightsEndWithMembership`),
  the journal of ownership is a chain (`OwnershipIsAChain`), ownership passes to members
  (`OwnershipStaysInside`), and nobody but a request whose snapshot is older than the
  transfer can hurt the owner (`OwnerIsSpared`): finding 1 has no other cause.
- **`SessionsProofs`**. `EveryUseFollowsAnother` is not inductive, since `last_seen_at`
  can go back. `Unbroken` is: for every moment up to the last use, and beyond it by the
  idle delay, the token was known to be good at most that delay before; `RequestOK`
  carries the use that lets a checked request refresh. With it, `SessionsLiveByUse` and
  `RevokedForGood`. `LapsedForGood` needs that a late request is refused whatever was
  written since (`LateIsRefused`) and that the clock makes nothing less late
  (`LateStaysLate`).
- **`DocumentsProofs`**. `FileOK` relates how far an upload is to what may be found of
  its file and its row: a row has its whole file unless its COMMIT was carried out after
  the upload had looked for it, and a refused upload leaves no file unless the row is
  there. With the locks on items, which a COMMIT in doubt keeps, and the count of active
  documents it gives `NoFileIsOrphaned` and the refinement of the shelf
  (`DocumentsAreShelved`), quota included.
- **`InvitationsProofs`**. An issue that holds the space knows its recipient is no
  member; an acceptance that holds its link knows it is open. Hence one open link for a
  recipient (`RecipientsHoldOneLink`), and none that opens again (`DeadLinksStayDead`).
- **`ItemLinksProofs`**. A request knows where its own item is, and that of the rows it
  will refer to only what never changes; the foreign keys do the rest. Hence
  `LinksAreInside` (so a transfer is never refused by a foreign key) and
  `RevisionGuards`. `HistoryHasNoHole` is inductive on top of it: `Leaves` tells where a
  history leaves an item in a space, by its last event there.
- **`ClassificationProofs`**. `Sound` describes the assignments of the item: those that
  are not ended are in its space, one at most for a category and one at most with a
  value for a field; values are on fields their assignment reaches. `HandlerOK` says
  that the space the followed handler read is the item's as long as its revision is, if
  it is `pinned`. `ValuesMove` is the central lemma: `preserve_reachable_values` takes
  every value that stays reachable to an assignment that reaches it, and no other value.
  What a category inherits is a recursive function; that it exists for any forest
  (`LineUnfolds`), and that an assignment keeps its rank among the sorted ones
  (`NthIsOne`), are inductions, done as the search for a least counterexample, because
  the library's induction theorems take an operator. The properties:
  `FieldsHaveOneValue`, `PagesAreRight`, `ValuesSurvive`, `EndedIsSealed`.

*Assumptions.* Bounds are natural numbers (`MaxRevision`, `MaxInvitations`,
`MaxTime`...), delays and lifetimes lie between one and the ceiling (the CHECK of
`account_sessions`), the owner's grants include the core rights (`create_space`), the
first owner is an account, and the value that stands for SQL NULL (`None`, `Nothing`) is
none of the values it stands beside. TLC evaluates each of them on its runs. The ledger
needs none.

*Only model-checked.* Liveness: `EveryRequestEnds`, `UploadsEnd` and `RequestsEnd` rest on
fairness and ENABLED, which are out of the prover's reach. The counterexamples of the
three findings are TLC's.

## What is left

- The three findings have no positive counterpart for their fix: were the owner, the
  grants and the appointments read again under the lock, `OwnerIsAMember`, `AuditIsExact` and
  `ManagersLeaveManagersAlone` could be proved of that variant.
- That no request waits forever is checked through liveness, not proved; that every cycle of
  waiting requests has a victim (`Victim`, in `SpaceMembers` and `Invitations`) could be.
- The tree of locations and the renames stay out of the model (see below).

## Not modelled

- *Rights and writes together.* That a right withdrawn between its check and the
  write still acts once follows from `src/http.rs:657` and needs no model; where the write
  lands is what `KnownRevisionsPinTheSpace` and `CurrentPagesAreRight` check.
- *Acquisitions.* A wish, a vendor or an offer is created by one INSERT and changed by one
  UPDATE that compares the revision; none is ever deleted, and no other part reads
  them. There is no state between two steps.
- *Renames* of groups, categories and fields: a transaction on the one row it has locked,
  that writes a name nothing else decides from. *Value types* of fields, names and
  their uniqueness, the tree of locations: data no property tells apart.
- *Password hashing, tokens* (cryptographic libraries), *mail* (one SMTP call, whose outcome
  is in `Invitations`), *configuration, start-up, installation* (no state that
  changes), *search and pagination* (read-only), and the views of the Windows client.
