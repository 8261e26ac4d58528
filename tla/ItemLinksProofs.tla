-------------------------- MODULE ItemLinksProofs -------------------------
(***************************************************************************)
(* An item is tied to rows of its own space only, its revision counts the  *)
(* changes, and the history of its moves has no hole, for every number of  *)
(* items, spaces, requests and revisions.                                  *)
(***************************************************************************)
EXTENDS ItemLinks, TLAPS

\* What a request that has passed its checks may rely on, as it holds its item:
\* where the item is.  What it is about to refer to may be gone, but for a
\* location, which no code deletes, and for the space a group or a location is in.
RequestOK(r) ==
    r # Idle =>
        /\ r.item \in Items
        /\ r.op \in {"groups", "relations", "move", "transfer"}
        /\ r.op = "groups" => \A g \in r.groups : SpaceOf(g) = item[r.item].space
        /\ r.op = "relations" => \A link \in r.links : link[1] # r.item
        /\ r.op = "move" /\ r.location # None =>
               r.location \in locations /\ SpaceOf(r.location) = item[r.item].space
        /\ r.op = "transfer" => r.space \in Spaces /\ r.space # item[r.item].space

\* No item has two holders.
LocksExclude ==
    \A p, q \in Requests :
        p # q /\ request[p].item # None => request[p].item # request[q].item

IInv ==
    /\ TypeOK
    /\ events \in [Items -> Seq(Event)]
    /\ \A q \in Requests : RequestOK(request[q])
    /\ LocksExclude
    /\ LinksStayInOneSpace

----------------------------------------------------------------------------
LEMMA IdleIsRight == Idle \in Request /\ RequestOK(Idle) /\ Idle.item = None
BY DEF Idle, Request, RequestOK

LEMMA InitIInv == Init => IInv
<1> SUFFICES ASSUME Init PROVE IInv
  OBVIOUS
<1>1. PICK s \in Spaces : item = [i \in Items |->
          [space |-> s, trashed |-> FALSE, location |-> None, revision |-> 1]]
  BY DEF Init
<1>2. 1 \in 1..MaxRevision
  BY BoundAssumption
<1>3. item \in [Items -> Item] /\ events \in [Items -> Seq(Event)]
  BY <1>1, <1>2 DEF Init, Item
<1>4. TypeOK
  BY <1>3, IdleIsRight DEF Init, TypeOK
<1>5. (\A q \in Requests : RequestOK(request[q])) /\ LocksExclude
  BY IdleIsRight DEF Init, LocksExclude
<1>6. LinksStayInOneSpace
  BY <1>1 DEF Init, LinksStayInOneSpace
<1> QED BY <1>3, <1>4, <1>5, <1>6 DEF IInv

\* A step that leaves the tables alone and gives one request a new record.
LEMMA RequestStep ==
    ASSUME IInv, NEW q \in Requests, NEW r \in Request,
           request' = [request EXCEPT ![q] = r], UNCHANGED tables, RequestOK(r),
           r.item # None => \A p \in Requests : request[p].item # r.item
    PROVE  IInv'
<1>1. \A p \in Requests : request'[p] = IF p = q THEN r ELSE request[p]
  BY DEF IInv, TypeOK
<1>2. TypeOK' /\ events' \in [Items -> Seq(Event)]
  BY DEF IInv, TypeOK, tables
<1>3. ASSUME NEW p \in Requests PROVE RequestOK(request[p])'
  <2>1. RequestOK(request'[p])
    BY <1>1 DEF IInv
  <2> QED BY <2>1 DEF RequestOK, tables
<1>4. LocksExclude'
  BY <1>1 DEF IInv, LocksExclude
<1>5. LinksStayInOneSpace'
  BY DEF IInv, LinksStayInOneSpace, tables
<1> QED BY <1>2, <1>3, <1>4, <1>5 DEF IInv

LEMMA FinishStep ==
    ASSUME IInv, NEW q \in Requests, Finish(q), UNCHANGED tables
    PROVE  IInv'
BY IdleIsRight, RequestStep DEF Finish

----------------------------------------------------------------------------
\* The requests that begin: the item is free, and the checks have passed.
LEMMA BeginStep ==
    ASSUME IInv, NEW q \in Requests, NEW r \in Request, r.item \in Items,
           Begin(q, r), RequestOK(r)
    PROVE  IInv'
BY RequestStep DEF Begin, ItemIsFree

LEMMA BeginGroupsStep ==
    ASSUME IInv, NEW q \in Requests, NEW i \in Items, NEW chosen \in SUBSET Group,
           BeginGroups(q, i, chosen)
    PROVE  IInv'
<1>1. PICK r : r = AskGroups(i, chosen)
  OBVIOUS
<1>2. r \in Request /\ r.op = "groups" /\ r.item = i /\ r.groups = chosen
  BY <1>1, IdleIsRight DEF AskGroups, Request, Idle
<1>3. RequestOK(r)
  BY <1>2 DEF RequestOK, BeginGroups
<1> QED BY <1>1, <1>2, <1>3, BeginStep DEF BeginGroups

LEMMA BeginRelationsStep ==
    ASSUME IInv, NEW q \in Requests, NEW i \in Items,
           NEW links \in SUBSET (Items \X Kinds), BeginRelations(q, i, links)
    PROVE  IInv'
<1>1. PICK r : r = [AskRelations(i, links) EXCEPT !.current = Snapshot(i)]
  OBVIOUS
<1>2. Snapshot(i) \subseteq Items \X Kinds
  BY DEF Snapshot, Outgoing, IInv, TypeOK, Relation
<1>3. r \in Request /\ r.op = "relations" /\ r.item = i /\ r.links = links
  BY <1>1, <1>2, IdleIsRight DEF AskRelations, Request, Idle
<1>4. RequestOK(r)
  BY <1>3 DEF RequestOK, BeginRelations
<1> QED BY <1>1, <1>3, <1>4, BeginStep DEF BeginRelations

LEMMA BeginMoveStep ==
    ASSUME IInv, NEW q \in Requests, NEW i \in Items,
           NEW to \in Location \cup {None}, BeginMove(q, i, to)
    PROVE  IInv'
<1>1. PICK r : r = AskMove(i, to)
  OBVIOUS
<1>2. r \in Request /\ r.op = "move" /\ r.item = i /\ r.location = to
  BY <1>1, IdleIsRight DEF AskMove, Request, Idle
<1>3. RequestOK(r)
  BY <1>2 DEF RequestOK, BeginMove
<1> QED BY <1>1, <1>2, <1>3, BeginStep DEF BeginMove

LEMMA BeginTransferStep ==
    ASSUME IInv, NEW q \in Requests, NEW i \in Items, NEW s \in Spaces,
           BeginTransfer(q, i, s)
    PROVE  IInv'
<1>1. PICK r : r = AskTransfer(i, s)
  OBVIOUS
<1>2. r \in Request /\ r.op = "transfer" /\ r.item = i /\ r.space = s
  BY <1>1, IdleIsRight DEF AskTransfer, Request, Idle
<1>3. RequestOK(r)
  BY <1>2 DEF RequestOK, BeginTransfer
<1> QED BY <1>1, <1>2, <1>3, BeginStep DEF BeginTransfer

----------------------------------------------------------------------------
\* The commits.  The request is over, its item may have changed; the others hold
\* other items, so they still know where these are.
LEMMA Release ==
    ASSUME IInv, NEW q \in Requests, Finish(q), NEW i \in Items,
           \A p \in Requests \ {q} : request[p].item # i,
           \A j \in Items \ {i} : item'[j].space = item[j].space,
           locations \subseteq locations'
    PROVE  /\ request' \in [Requests -> Request]
           /\ \A p \in Requests : RequestOK(request[p])'
           /\ LocksExclude'
<1>1. \A p \in Requests : request'[p] = IF p = q THEN Idle ELSE request[p]
  BY DEF Finish, IInv, TypeOK
<1>2. request' \in [Requests -> Request]
  BY IdleIsRight DEF Finish, IInv, TypeOK
<1>3. ASSUME NEW p \in Requests PROVE RequestOK(request[p])'
  <2>1. CASE p = q
    BY <1>1, <2>1 DEF RequestOK, Idle
  <2>2. CASE p # q
    <3>1. PICK r : r = request[p] /\ RequestOK(r) /\ r.item # i
      BY <2>2 DEF IInv
    <3>2. RequestOK(r)'
      BY <3>1 DEF RequestOK, Idle
    <3> QED BY <1>1, <2>2, <3>1, <3>2
  <2> QED BY <2>1, <2>2
<1>4. LocksExclude'
  BY <1>1, IdleIsRight DEF IInv, LocksExclude
<1> QED BY <1>2, <1>3, <1>4

\* The record of a request that is about to commit.
LEMMA Committing ==
    ASSUME IInv, NEW q \in Requests,
           request[q].op \in {"groups", "relations", "move", "transfer"}
    PROVE  /\ request[q] \in Request /\ RequestOK(request[q]) /\ request[q] # Idle
           /\ request[q].item \in Items
           /\ item[request[q].item] \in Item
           /\ \A p \in Requests \ {q} : request[p].item # request[q].item
<1>1. request[q] \in Request /\ RequestOK(request[q])
  BY DEF IInv, TypeOK
<1>2. request[q] # Idle
  BY NoneAssumption DEF Idle
<1>3. request[q].item \in Items
  BY <1>1, <1>2 DEF RequestOK
<1>4. \A p \in Requests \ {q} : request[p].item # request[q].item
  BY <1>3, NoneAssumption DEF IInv, LocksExclude
<1> QED BY <1>1, <1>2, <1>3, <1>4 DEF IInv, TypeOK

\* The revision of an item grows within its bound.
LEMMA Grows ==
    ASSUME IInv, NEW i \in Items, Bounded(i)
    PROVE  /\ RevisionGrows(i) \in [Items -> Item]
           /\ RevisionGrows(i)[i] = [item[i] EXCEPT !.revision = item[i].revision + 1]
           /\ RevisionGrows(i)[i].space = item[i].space
           /\ RevisionGrows(i)[i].trashed = item[i].trashed
           /\ RevisionGrows(i)[i].location = item[i].location
           /\ RevisionGrows(i)[i].revision = item[i].revision + 1
           /\ \A j \in Items \ {i} : RevisionGrows(i)[j] = item[j]
<1>1. item \in [Items -> Item] /\ item[i] \in Item
  BY DEF IInv, TypeOK
<1>2. item[i].revision + 1 \in 1..MaxRevision
  BY <1>1, BoundAssumption DEF Item, Bounded
<1>3. PICK it : it = [item[i] EXCEPT !.revision = item[i].revision + 1]
  OBVIOUS
<1>4. it \in Item /\ it.space = item[i].space /\ it.trashed = item[i].trashed
      /\ it.location = item[i].location /\ it.revision = item[i].revision + 1
  BY <1>1, <1>2, <1>3 DEF Item
<1>5. RevisionGrows(i) = [item EXCEPT ![i] = it]
  BY <1>3 DEF RevisionGrows
<1> QED BY <1>1, <1>3, <1>4, <1>5

LEMMA CommitGroupsStep ==
    ASSUME IInv, NEW q \in Requests, CommitGroups(q) PROVE IInv'
<1>1. PICK r \in Request : r = request[q]
  BY DEF IInv, TypeOK
<1>2. r.op = "groups" /\ Bounded(r.item) /\ Finish(q)
  BY <1>1 DEF CommitGroups
<1>3. /\ RequestOK(r) /\ r # Idle /\ r.item \in Items
      /\ \A p \in Requests \ {q} : request[p].item # r.item
  BY <1>1, <1>2, Committing
<1>4. CASE r.groups = member[r.item]
  BY <1>1, <1>2, <1>4, FinishStep DEF CommitGroups
<1>5. CASE r.groups # member[r.item]
  <2>1. /\ r.groups \subseteq groups
        /\ member' = [member EXCEPT ![r.item] = r.groups]
        /\ item' = RevisionGrows(r.item)
        /\ UNCHANGED <<groups, locations, relations, events>>
    BY <1>1, <1>5 DEF CommitGroups, ForeignKeysHold
  <2>2. /\ item' \in [Items -> Item]
        /\ \A j \in Items : item'[j].space = item[j].space
                            /\ item'[j].location = item[j].location
    BY <1>2, <1>3, <2>1, Grows
  <2>3. /\ request' \in [Requests -> Request]
        /\ \A p \in Requests : RequestOK(request[p])'
        /\ LocksExclude'
    BY <1>2, <1>3, <2>1, <2>2, Release
  <2>4. r.groups \subseteq Group
    BY DEF Request
  <2>5. TypeOK' /\ events' \in [Items -> Seq(Event)]
    BY <1>3, <2>1, <2>2, <2>3, <2>4 DEF IInv, TypeOK
  <2>6. \A g \in r.groups : SpaceOf(g) = item[r.item].space
    BY <1>2, <1>3 DEF RequestOK
  <2>7. \A j \in Items : member'[j] = IF j = r.item THEN r.groups ELSE member[j]
    BY <1>3, <2>1 DEF IInv, TypeOK
  <2>8. \A rel \in relations : rel.source \in Items /\ rel.target \in Items
    BY DEF IInv, TypeOK, Relation
  <2>9. \A j \in Items : \A g \in member'[j] : g \in groups /\ SpaceOf(g) = item[j].space
    BY <2>1, <2>6, <2>7 DEF IInv, LinksStayInOneSpace
  <2>10. LinksStayInOneSpace'
    BY <2>1, <2>2, <2>8, <2>9 DEF IInv, LinksStayInOneSpace
  <2> QED BY <2>3, <2>5, <2>10 DEF IInv
<1> QED BY <1>4, <1>5

LEMMA CommitRelationsStep ==
    ASSUME IInv, NEW q \in Requests, CommitRelations(q) PROVE IInv'
<1>1. PICK r \in Request : r = request[q]
  BY DEF IInv, TypeOK
<1>2. r.op = "relations" /\ Bounded(r.item) /\ Finish(q)
  BY <1>1 DEF CommitRelations
<1>3. /\ RequestOK(r) /\ r # Idle /\ r.item \in Items
      /\ \A p \in Requests \ {q} : request[p].item # r.item
  BY <1>1, <1>2, Committing
<1>4. CASE r.links = r.current
  BY <1>1, <1>2, <1>4, FinishStep DEF CommitRelations
<1>5. CASE r.links # r.current
  <2>1. /\ \A link \in r.links : item[link[1]].space = item[r.item].space
        /\ relations' = (relations \ Outgoing(r.item)) \cup Declared(r)
        /\ item' = RevisionGrows(r.item)
        /\ UNCHANGED <<groups, locations, member, events>>
    BY <1>1, <1>5 DEF CommitRelations, ForeignKeysHold
  <2>2. /\ item' \in [Items -> Item]
        /\ \A j \in Items : item'[j].space = item[j].space
                            /\ item'[j].location = item[j].location
    BY <1>2, <1>3, <2>1, Grows
  <2>3. /\ request' \in [Requests -> Request]
        /\ \A p \in Requests : RequestOK(request[p])'
        /\ LocksExclude'
    BY <1>2, <1>3, <2>1, <2>2, Release
  <2>4. \A link \in r.links : link[1] \in Items /\ link[2] \in Kinds
    BY DEF Request
  <2>5. \A link \in r.links : link[1] # r.item
    BY <1>2, <1>3 DEF RequestOK
  <2>6. item[r.item].space \in Spaces
    BY <1>3 DEF IInv, TypeOK, Item
  <2>7. \A rel \in Declared(r) :
            /\ rel \in Relation /\ rel.source # rel.target
            /\ item[rel.source].space = rel.space /\ item[rel.target].space = rel.space
    BY <1>3, <2>1, <2>4, <2>5, <2>6 DEF Declared, Relation
  <2>8. \A rel \in relations' :
            /\ rel \in Relation /\ rel.source # rel.target
            /\ item[rel.source].space = rel.space /\ item[rel.target].space = rel.space
    BY <2>1, <2>7 DEF IInv, TypeOK, LinksStayInOneSpace
  <2>9. TypeOK' /\ events' \in [Items -> Seq(Event)]
    BY <2>1, <2>2, <2>3, <2>8 DEF IInv, TypeOK
  <2>10. \A rel \in relations' : rel.source \in Items /\ rel.target \in Items
    BY <2>8 DEF Relation
  <2>11. LinksStayInOneSpace'
    BY <2>1, <2>2, <2>8, <2>10 DEF IInv, LinksStayInOneSpace
  <2> QED BY <2>3, <2>9, <2>11 DEF IInv
<1> QED BY <1>4, <1>5

\* A move is recorded at the end of the history of its item.
LEMMA RecordedType ==
    ASSUME IInv, NEW i \in Items, NEW to \in Location \cup {None}
    PROVE  Recorded(i, to) \in [Items -> Seq(Event)]
<1>1. PICK e : e = [space |-> item[i].space, from |-> item[i].location, to |-> to]
  OBVIOUS
<1>2. e \in Event
  BY <1>1 DEF IInv, TypeOK, Item, Event
<1>3. events \in [Items -> Seq(Event)] /\ Append(events[i], e) \in Seq(Event)
  BY <1>2 DEF IInv
<1>4. Recorded(i, to) = [events EXCEPT ![i] = Append(events[i], e)]
  BY <1>1 DEF Recorded
<1> QED BY <1>3, <1>4

LEMMA CommitMoveStep ==
    ASSUME IInv, NEW q \in Requests, CommitMove(q) PROVE IInv'
<1>1. PICK r \in Request : r = request[q]
  BY DEF IInv, TypeOK
<1>2. r.op = "move" /\ Bounded(r.item) /\ Finish(q)
  BY <1>1 DEF CommitMove
<1>3. /\ RequestOK(r) /\ r # Idle /\ r.item \in Items
      /\ item[r.item] \in Item
      /\ \A p \in Requests \ {q} : request[p].item # r.item
  BY <1>1, <1>2, Committing
<1>4. CASE r.location = item[r.item].location
  BY <1>1, <1>2, <1>4, FinishStep DEF CommitMove
<1>5. CASE r.location # item[r.item].location
  <2>1. /\ events' = Recorded(r.item, r.location)
        /\ item' = [RevisionGrows(r.item) EXCEPT ![r.item].location = r.location]
        /\ UNCHANGED <<groups, locations, member, relations>>
    BY <1>1, <1>5 DEF CommitMove
  <2>2. r.location \in Location \cup {None}
    BY DEF Request
  <2>3. PICK f : f = RevisionGrows(r.item)
    OBVIOUS
  <2>4. /\ f \in [Items -> Item]
        /\ f[r.item].space = item[r.item].space
        /\ \A j \in Items \ {r.item} : f[j] = item[j]
    BY <1>2, <1>3, <2>3, Grows
  <2>5. PICK it : it = [f[r.item] EXCEPT !.location = r.location]
    OBVIOUS
  <2>6. it \in Item /\ it.space = item[r.item].space /\ it.location = r.location
    BY <1>3, <2>2, <2>4, <2>5 DEF Item
  <2>7. item' = [f EXCEPT ![r.item] = it]
    BY <2>1, <2>3, <2>5
  <2>8. /\ item' \in [Items -> Item]
        /\ \A j \in Items : item'[j].space = item[j].space
        /\ \A j \in Items : item'[j].location =
                               IF j = r.item THEN r.location ELSE item[j].location
    BY <1>3, <2>4, <2>6, <2>7
  <2>9. /\ request' \in [Requests -> Request]
        /\ \A p \in Requests : RequestOK(request[p])'
        /\ LocksExclude'
    BY <1>2, <1>3, <2>1, <2>8, Release
  <2>10. events' \in [Items -> Seq(Event)]
    BY <1>3, <2>1, <2>2, RecordedType
  <2>11. TypeOK'
    BY <2>1, <2>8, <2>9, <2>10 DEF IInv, TypeOK
  <2>12. r.location # None =>
            r.location \in locations /\ SpaceOf(r.location) = item[r.item].space
    BY <1>2, <1>3 DEF RequestOK
  <2>13. \A rel \in relations : rel.source \in Items /\ rel.target \in Items
    BY DEF IInv, TypeOK, Relation
  <2>14. \A j \in Items : item'[j].location # None =>
             /\ item'[j].location \in locations
             /\ SpaceOf(item'[j].location) = item[j].space
    BY <2>8, <2>12 DEF IInv, LinksStayInOneSpace
  <2>15. LinksStayInOneSpace'
    BY <2>1, <2>8, <2>13, <2>14 DEF IInv, LinksStayInOneSpace
  <2> QED BY <2>9, <2>10, <2>11, <2>15 DEF IInv
<1> QED BY <1>4, <1>5

\* What a transfer writes.
LEMMA Transferred ==
    ASSUME IInv, NEW q \in Requests, CommitTransfer(q),
           NEW r \in Request, r = request[q], r.item \in Items, r.space \in Spaces
    PROVE  /\ item' \in [Items -> Item]
           /\ item'[r.item].space = r.space
           /\ item'[r.item].location = None
           /\ item'[r.item].revision = item[r.item].revision + 1
           /\ \A j \in Items \ {r.item} : item'[j] = item[j]
<1>1. Bounded(r.item)
  BY DEF CommitTransfer
<1>2. PICK f : f = RevisionGrows(r.item)
  OBVIOUS
<1>3. /\ f \in [Items -> Item]
      /\ f[r.item].revision = item[r.item].revision + 1
      /\ \A j \in Items \ {r.item} : f[j] = item[j]
  BY <1>1, <1>2, Grows
<1>4. PICK it : it = [f[r.item] EXCEPT !.space = r.space, !.location = None]
  OBVIOUS
<1>5. /\ it \in Item /\ it.space = r.space /\ it.location = None
      /\ it.revision = item[r.item].revision + 1
  BY <1>3, <1>4 DEF Item
<1>6. item' = [f EXCEPT ![r.item] = it]
  <2>1. item' = [f EXCEPT ![r.item].space = r.space, ![r.item].location = None]
    BY <1>2 DEF CommitTransfer
  <2> QED BY <1>3, <1>4, <2>1
<1> QED BY <1>3, <1>5, <1>6

LEMMA CommitTransferStep ==
    ASSUME IInv, NEW q \in Requests, CommitTransfer(q) PROVE IInv'
<1>1. PICK r \in Request : r = request[q]
  BY DEF IInv, TypeOK
<1>2. r.op = "transfer" /\ Bounded(r.item) /\ Finish(q)
  BY <1>1 DEF CommitTransfer
<1>3. /\ RequestOK(r) /\ r # Idle /\ r.item \in Items
      /\ \A p \in Requests \ {q} : request[p].item # r.item
  BY <1>1, <1>2, Committing
<1>4. /\ member' = [member EXCEPT ![r.item] = {}]
      /\ relations' = relations \ Mentioning(r.item)
      /\ events' = LocationExit(r.item)
      /\ UNCHANGED <<groups, locations>>
  BY <1>1 DEF CommitTransfer
<1>5. r.space \in Spaces
  BY <1>2, <1>3 DEF RequestOK
<1>6. /\ item' \in [Items -> Item]
      /\ item'[r.item].location = None
      /\ \A j \in Items \ {r.item} : item'[j] = item[j]
  BY <1>1, <1>3, <1>5, Transferred
<1>7. /\ request' \in [Requests -> Request]
      /\ \A p \in Requests : RequestOK(request[p])'
      /\ LocksExclude'
  BY <1>2, <1>3, <1>4, <1>6, Release
<1>8. events' \in [Items -> Seq(Event)]
  BY <1>3, <1>4, RecordedType DEF LocationExit, IInv
<1>9. /\ member' \in [Items -> SUBSET Group]
      /\ \A j \in Items : member'[j] = IF j = r.item THEN {} ELSE member[j]
  BY <1>3, <1>4 DEF IInv, TypeOK
<1>10. TypeOK'
  BY <1>4, <1>6, <1>7, <1>8, <1>9 DEF IInv, TypeOK
<1>11. \A rel \in relations' : /\ rel \in relations
                               /\ rel.source \in Items \ {r.item}
                               /\ rel.target \in Items \ {r.item}
  BY <1>4 DEF Mentioning, IInv, TypeOK, Relation
<1>12. \A j \in Items : \A g \in member'[j] : g \in groups /\ SpaceOf(g) = item'[j].space
  BY <1>6, <1>9 DEF IInv, LinksStayInOneSpace
<1>13. \A j \in Items : item'[j].location # None =>
           /\ item'[j].location \in locations
           /\ SpaceOf(item'[j].location) = item'[j].space
  BY <1>6 DEF IInv, LinksStayInOneSpace
<1>14. LinksStayInOneSpace'
  BY <1>4, <1>6, <1>11, <1>12, <1>13 DEF IInv, LinksStayInOneSpace
<1> QED BY <1>7, <1>8, <1>10, <1>14 DEF IInv

----------------------------------------------------------------------------
\* The steps that no request takes.
LEMMA RowStep ==
    ASSUME IInv, UNCHANGED request, UNCHANGED <<item, member, relations, events>>,
           groups' \subseteq Group, locations' \subseteq Location,
           locations \subseteq locations',
           \A i \in Items : member[i] \subseteq groups'
    PROVE  IInv'
<1>1. TypeOK' /\ events' \in [Items -> Seq(Event)]
  BY DEF IInv, TypeOK
<1>2. LocksExclude'
  BY DEF IInv, LocksExclude
<1>3. ASSUME NEW p \in Requests PROVE RequestOK(request[p])'
  BY DEF IInv, RequestOK
<1>4. LinksStayInOneSpace'
  BY DEF IInv, LinksStayInOneSpace
<1> QED BY <1>1, <1>2, <1>3, <1>4 DEF IInv

LEMMA TrashOrRestoreStep ==
    ASSUME IInv, NEW i \in Items, TrashOrRestore(i) PROVE IInv'
<1>1. /\ ItemIsFree(i) /\ Bounded(i)
      /\ UNCHANGED <<groups, locations, member, relations, events, request>>
      /\ item' = [RevisionGrows(i) EXCEPT ![i].trashed = ~ @]
  BY DEF TrashOrRestore
<1>2. PICK f : f = RevisionGrows(i)
  OBVIOUS
<1>3. /\ f \in [Items -> Item]
      /\ f[i].space = item[i].space /\ f[i].location = item[i].location
      /\ \A j \in Items \ {i} : f[j] = item[j]
  BY <1>1, <1>2, Grows
<1>4. PICK it : it = [f[i] EXCEPT !.trashed = ~ f[i].trashed]
  OBVIOUS
<1>5. it \in Item /\ it.space = item[i].space /\ it.location = item[i].location
  BY <1>3, <1>4 DEF Item
<1>6. item' = [f EXCEPT ![i] = it]
  BY <1>1, <1>2, <1>4
<1>7. /\ item' \in [Items -> Item]
      /\ \A j \in Items : item'[j].space = item[j].space
                          /\ item'[j].location = item[j].location
  BY <1>3, <1>5, <1>6
<1>8. TypeOK' /\ events' \in [Items -> Seq(Event)]
  BY <1>1, <1>7 DEF IInv, TypeOK
<1>9. ASSUME NEW p \in Requests PROVE RequestOK(request[p])'
  BY <1>1, <1>7 DEF IInv, RequestOK
<1>10. LocksExclude'
  BY <1>1 DEF IInv, LocksExclude
<1>11. \A rel \in relations : rel.source \in Items /\ rel.target \in Items
  BY DEF IInv, TypeOK, Relation
<1>12. \A j \in Items : item'[j].location # None =>
           /\ item'[j].location \in locations
           /\ SpaceOf(item'[j].location) = item'[j].space
  BY <1>7 DEF IInv, LinksStayInOneSpace
<1>13. \A j \in Items : \A g \in member[j] : g \in groups /\ SpaceOf(g) = item'[j].space
  BY <1>7 DEF IInv, LinksStayInOneSpace
<1>14. \A rel \in relations : /\ item'[rel.source].space = rel.space
                              /\ item'[rel.target].space = rel.space
  BY <1>7, <1>11 DEF IInv, LinksStayInOneSpace
<1>15. LinksStayInOneSpace'
  BY <1>1, <1>12, <1>13, <1>14 DEF LinksStayInOneSpace
<1> QED BY <1>8, <1>9, <1>10, <1>15 DEF IInv

LEMMA StepIInv == IInv /\ [Next]_vars => IInv'
<1> SUFFICES ASSUME IInv, [Next]_vars PROVE IInv'
  OBVIOUS
<1>1. CASE UNCHANGED vars
  <2>1. UNCHANGED request /\ UNCHANGED <<item, groups, locations, member, relations, events>>
    BY <1>1 DEF vars, tables
  <2> QED BY <2>1, RowStep DEF IInv, TypeOK, LinksStayInOneSpace
<1>2. ASSUME NEW g \in Group, CreateGroup(g) PROVE IInv'
  BY <1>2, RowStep DEF CreateGroup, IInv, TypeOK, LinksStayInOneSpace
<1>3. ASSUME NEW g \in Group, DeleteGroup(g) PROVE IInv'
  BY <1>3, RowStep DEF DeleteGroup, IInv, TypeOK, LinksStayInOneSpace
<1>4. ASSUME NEW l \in Location, CreateLocation(l) PROVE IInv'
  BY <1>4, RowStep DEF CreateLocation, IInv, TypeOK, LinksStayInOneSpace
<1>5. ASSUME NEW q \in Requests, RefusedByForeignKey(q) PROVE IInv'
  BY <1>5, FinishStep DEF RefusedByForeignKey
<1>6. ASSUME NEW q \in Requests, Abandon(q) PROVE IInv'
  BY <1>6, FinishStep DEF Abandon
<1>7. CASE Next
  BY <1>2, <1>3, <1>4, <1>5, <1>6, <1>7, TrashOrRestoreStep, BeginGroupsStep,
     BeginRelationsStep, BeginMoveStep, BeginTransferStep, CommitGroupsStep,
     CommitRelationsStep, CommitMoveStep, CommitTransferStep DEF Next
<1> QED BY <1>1, <1>7

LEMMA Invariance == Spec => []IInv
BY InitIInv, StepIInv, PTL DEF Spec

\* The state has its type, after any number of steps of any number of requests:
\* revisions stay within their bound, and no item is related to itself.
THEOREM LinksTypeCorrect == Spec => []TypeOK
<1>1. IInv => TypeOK
  BY DEF IInv
<1> QED BY <1>1, Invariance, PTL

\* An item is tied to groups, a location and other items of its own space only,
\* although the rows it refers to are not locked while its links are written.
THEOREM LinksAreInside == Spec => []LinksStayInOneSpace
<1>1. IInv => LinksStayInOneSpace
  BY DEF IInv
<1> QED BY <1>1, Invariance, PTL

----------------------------------------------------------------------------
\* One step, for one item.
KeptRelations(i) ==
    {rel \in Outgoing(i) : item'[rel.target].space = item[rel.target].space}

OwnFields(it) == [space |-> it.space, trashed |-> it.trashed, location |-> it.location]

Guarded(i) ==
    /\ item'[i].revision \in item[i].revision .. item[i].revision + 1
    /\ \/ OwnFields(item'[i]) # OwnFields(item[i])
       \/ member'[i] # member[i]
       \/ Outgoing(i)' # KeptRelations(i)
       => item'[i].revision = item[i].revision + 1

LEMMA RevisionIsANumber ==
    ASSUME IInv, NEW i \in Items PROVE item[i].revision \in Nat
<1>1. item[i].revision \in 1..MaxRevision
  BY DEF IInv, TypeOK, Item
<1> QED BY <1>1, BoundAssumption

\* An item that changes gets its new revision.
LEMMA ChangedGuarded ==
    ASSUME IInv, NEW i \in Items, item'[i].revision = item[i].revision + 1
    PROVE  Guarded(i)
BY RevisionIsANumber DEF Guarded

\* The others lose no relation, but to what has left their space.
LEMMA SameGuarded ==
    ASSUME IInv, NEW i \in Items, item'[i] = item[i], member'[i] = member[i],
           Outgoing(i)' = KeptRelations(i)
    PROVE  Guarded(i)
BY RevisionIsANumber DEF Guarded

\* Where no item changes space, every relation is kept.
LEMMA AllKept ==
    ASSUME IInv, \A j \in Items : item'[j].space = item[j].space, NEW i \in Items
    PROVE  KeptRelations(i) = Outgoing(i)
BY DEF KeptRelations, Outgoing, IInv, TypeOK, Relation

LEMMA SameTables ==
    ASSUME IInv, UNCHANGED <<item, member, relations>>
    PROVE  \A i \in Items : Guarded(i)
BY AllKept, SameGuarded DEF Outgoing

\* What changes one item and no space.
LEMMA OneItem ==
    ASSUME IInv, NEW c \in Items,
           item' \in [Items -> Item],
           item'[c].space = item[c].space,
           item'[c].revision = item[c].revision + 1,
           \A j \in Items \ {c} : /\ item'[j] = item[j] /\ member'[j] = member[j]
                                  /\ Outgoing(j)' = Outgoing(j)
    PROVE  \A i \in Items : Guarded(i)
<1>1. \A j \in Items : item'[j].space = item[j].space
  OBVIOUS
<1>2. ASSUME NEW i \in Items PROVE Guarded(i)
  <2>1. CASE i = c
    BY <2>1, ChangedGuarded
  <2>2. CASE i # c
    BY <1>1, <2>2, AllKept, SameGuarded
  <2> QED BY <2>1, <2>2
<1> QED BY <1>2

LEMMA CommitGroupsGuarded ==
    ASSUME IInv, NEW q \in Requests, CommitGroups(q)
    PROVE  \A i \in Items : Guarded(i)
<1>1. PICK r \in Request : r = request[q]
  BY DEF IInv, TypeOK
<1>2. r.op = "groups" /\ Bounded(r.item)
  BY <1>1 DEF CommitGroups
<1>3. r.item \in Items
  BY <1>1, <1>2, Committing
<1>4. CASE r.groups = member[r.item]
  BY <1>1, <1>4, SameTables DEF CommitGroups, tables
<1>5. CASE r.groups # member[r.item]
  <2>1. /\ member' = [member EXCEPT ![r.item] = r.groups]
        /\ item' = RevisionGrows(r.item) /\ UNCHANGED relations
    BY <1>1, <1>5 DEF CommitGroups
  <2>2. \A j \in Items \ {r.item} : member'[j] = member[j] /\ Outgoing(j)' = Outgoing(j)
    BY <2>1 DEF IInv, TypeOK, Outgoing
  <2> QED BY <1>2, <1>3, <2>1, <2>2, Grows, OneItem
<1> QED BY <1>4, <1>5

LEMMA CommitRelationsGuarded ==
    ASSUME IInv, NEW q \in Requests, CommitRelations(q)
    PROVE  \A i \in Items : Guarded(i)
<1>1. PICK r \in Request : r = request[q]
  BY DEF IInv, TypeOK
<1>2. r.op = "relations" /\ Bounded(r.item)
  BY <1>1 DEF CommitRelations
<1>3. r.item \in Items
  BY <1>1, <1>2, Committing
<1>4. CASE r.links = r.current
  BY <1>1, <1>4, SameTables DEF CommitRelations, tables
<1>5. CASE r.links # r.current
  <2>1. /\ relations' = (relations \ Outgoing(r.item)) \cup Declared(r)
        /\ item' = RevisionGrows(r.item) /\ UNCHANGED member
    BY <1>1, <1>5 DEF CommitRelations
  <2>2. \A rel \in Declared(r) : rel.source = r.item
    BY DEF Declared
  <2>3. \A j \in Items \ {r.item} : Outgoing(j)' = Outgoing(j)
    BY <2>1, <2>2 DEF Outgoing
  <2> QED BY <1>2, <1>3, <2>1, <2>3, Grows, OneItem
<1> QED BY <1>4, <1>5

LEMMA CommitMoveGuarded ==
    ASSUME IInv, NEW q \in Requests, CommitMove(q)
    PROVE  \A i \in Items : Guarded(i)
<1>1. PICK r \in Request : r = request[q]
  BY DEF IInv, TypeOK
<1>2. r.op = "move" /\ Bounded(r.item)
  BY <1>1 DEF CommitMove
<1>3. r.item \in Items
  BY <1>1, <1>2, Committing
<1>4. CASE r.location = item[r.item].location
  BY <1>1, <1>4, SameTables DEF CommitMove, tables
<1>5. CASE r.location # item[r.item].location
  <2>1. /\ item' = [RevisionGrows(r.item) EXCEPT ![r.item].location = r.location]
        /\ UNCHANGED <<member, relations>>
    BY <1>1, <1>5 DEF CommitMove
  <2>2. PICK f : f = RevisionGrows(r.item)
    OBVIOUS
  <2>3. /\ f \in [Items -> Item]
        /\ f[r.item].space = item[r.item].space
        /\ f[r.item].revision = item[r.item].revision + 1
        /\ \A j \in Items \ {r.item} : f[j] = item[j]
    BY <1>2, <1>3, <2>2, Grows
  <2>4. PICK it : it = [f[r.item] EXCEPT !.location = r.location]
    OBVIOUS
  <2>5. /\ it \in Item /\ it.space = item[r.item].space
        /\ it.revision = item[r.item].revision + 1
    BY <1>3, <2>3, <2>4 DEF Item, Request
  <2>6. item' = [f EXCEPT ![r.item] = it]
    BY <2>1, <2>2, <2>4
  <2>7. \A j \in Items : Outgoing(j)' = Outgoing(j)
    BY <2>1 DEF Outgoing
  <2> QED BY <1>3, <2>1, <2>3, <2>5, <2>6, <2>7, OneItem
<1> QED BY <1>4, <1>5

LEMMA TrashOrRestoreGuarded ==
    ASSUME IInv, NEW c \in Items, TrashOrRestore(c)
    PROVE  \A i \in Items : Guarded(i)
<1>1. /\ Bounded(c) /\ UNCHANGED <<member, relations>>
      /\ item' = [RevisionGrows(c) EXCEPT ![c].trashed = ~ @]
  BY DEF TrashOrRestore
<1>2. PICK f : f = RevisionGrows(c)
  OBVIOUS
<1>3. /\ f \in [Items -> Item]
      /\ f[c].space = item[c].space /\ f[c].revision = item[c].revision + 1
      /\ \A j \in Items \ {c} : f[j] = item[j]
  BY <1>1, <1>2, Grows
<1>4. PICK it : it = [f[c] EXCEPT !.trashed = ~ f[c].trashed]
  OBVIOUS
<1>5. it \in Item /\ it.space = item[c].space /\ it.revision = item[c].revision + 1
  BY <1>3, <1>4 DEF Item
<1>6. item' = [f EXCEPT ![c] = it]
  BY <1>1, <1>2, <1>4
<1>7. \A j \in Items : Outgoing(j)' = Outgoing(j)
  BY <1>1 DEF Outgoing
<1> QED BY <1>1, <1>3, <1>5, <1>6, <1>7, OneItem

\* The item changes space: the relations that lead to it, and no other relation
\* of another item, go with it.
LEMMA CommitTransferGuarded ==
    ASSUME IInv, NEW q \in Requests, CommitTransfer(q)
    PROVE  \A i \in Items : Guarded(i)
<1>1. PICK r \in Request : r = request[q]
  BY DEF IInv, TypeOK
<1>2. r.op = "transfer"
  BY <1>1 DEF CommitTransfer
<1>3. r.item \in Items /\ r.space \in Spaces /\ r.space # item[r.item].space
  BY <1>1, <1>2, Committing DEF RequestOK
<1>4. /\ member' = [member EXCEPT ![r.item] = {}]
      /\ relations' = relations \ Mentioning(r.item)
  BY <1>1 DEF CommitTransfer
<1>5. /\ item'[r.item].space = r.space
      /\ item'[r.item].revision = item[r.item].revision + 1
      /\ \A j \in Items \ {r.item} : item'[j] = item[j]
  BY <1>1, <1>3, Transferred
<1>6. ASSUME NEW i \in Items, i # r.item PROVE Outgoing(i)' = KeptRelations(i)
  <2>1. Outgoing(i)' = {rel \in Outgoing(i) : rel.target # r.item}
    BY <1>4, <1>6 DEF Outgoing, Mentioning
  <2>2. \A rel \in Outgoing(i) : rel.target \in Items
    BY DEF Outgoing, IInv, TypeOK, Relation
  <2>3. \A rel \in Outgoing(i) :
            rel.target # r.item <=> item'[rel.target].space = item[rel.target].space
    BY <1>3, <1>5, <2>2
  <2> QED BY <2>1, <2>3 DEF KeptRelations
<1>7. ASSUME NEW i \in Items PROVE Guarded(i)
  <2>1. CASE i = r.item
    BY <1>5, <2>1, ChangedGuarded
  <2>2. CASE i # r.item
    <3>1. member'[i] = member[i]
      BY <1>4, <2>2 DEF IInv, TypeOK
    <3> QED BY <1>5, <1>6, <2>2, <3>1, SameGuarded
  <2> QED BY <2>1, <2>2
<1> QED BY <1>7

LEMMA StepGuarded == IInv /\ [Next]_vars => \A i \in Items : Guarded(i)
<1> SUFFICES ASSUME IInv, [Next]_vars PROVE \A i \in Items : Guarded(i)
  OBVIOUS
<1>1. CASE UNCHANGED <<item, member, relations>>
  BY <1>1, SameTables
<1>2. ASSUME NEW q \in Requests, NEW r, Begin(q, r) PROVE UNCHANGED <<item, member, relations>>
  BY <1>2 DEF Begin, tables
<1>3. ASSUME NEW q \in Requests, NEW i \in Items,
             \/ \E chosen \in SUBSET Group : BeginGroups(q, i, chosen)
             \/ \E links \in SUBSET (Items \X Kinds) : BeginRelations(q, i, links)
             \/ \E to \in Location \cup {None} : BeginMove(q, i, to)
             \/ \E s \in Spaces : BeginTransfer(q, i, s)
      PROVE  UNCHANGED <<item, member, relations>>
  BY <1>2, <1>3 DEF BeginGroups, BeginRelations, BeginMove, BeginTransfer
<1>4. CASE \/ \E g \in Group : CreateGroup(g) \/ DeleteGroup(g)
           \/ \E l \in Location : CreateLocation(l)
           \/ \E q \in Requests : RefusedByForeignKey(q) \/ Abandon(q)
           \/ UNCHANGED vars
  BY <1>1, <1>4 DEF CreateGroup, DeleteGroup, CreateLocation, RefusedByForeignKey,
     Abandon, tables, vars
<1>5. CASE Next
  BY <1>1, <1>3, <1>4, <1>5, TrashOrRestoreGuarded, CommitGroupsGuarded,
     CommitRelationsGuarded, CommitMoveGuarded, CommitTransferGuarded DEF Next
<1> QED BY <1>4, <1>5

\* The revision of an item guards it: it grows by one with every change of what a
\* client may have read of the item, but for a relation whose target is
\* transferred; so an expected revision that still matches means nothing else has
\* changed.
THEOREM RevisionGuards == Spec => GuardedByRevision
<1>1. IInv /\ [Next]_vars =>
        [\A i \in Items :
          LET own(it) == [space |-> it.space, trashed |-> it.trashed,
                          location |-> it.location]
              kept == {rel \in Outgoing(i) :
                           item'[rel.target].space = item[rel.target].space}
              changed == \/ own(item'[i]) # own(item[i])
                         \/ member'[i] # member[i]
                         \/ Outgoing(i)' # kept IN
          /\ item'[i].revision \in item[i].revision .. item[i].revision + 1
          /\ changed => item'[i].revision = item[i].revision + 1]_vars
  BY StepGuarded DEF Guarded, OwnFields, KeptRelations
<1> QED BY <1>1, Invariance, PTL DEF Spec, GuardedByRevision

----------------------------------------------------------------------------
\* The history of the moves.  A new event leaves what the earlier ones said as it
\* was.
LEMMA EarlierMoves ==
    ASSUME NEW h \in Seq(Event), NEW e \in Event, NEW m \in 0..Len(h),
           NEW s, NEW place, Leaves(h, m, s, place)
    PROVE  Leaves(Append(h, e), m, s, place)
<1>1. PICK g : g = Append(h, e)
  OBVIOUS
<1>2. m \in Nat /\ \A n \in 1..m : g[n] = h[n]
  BY <1>1
<1>3. CASE place = None /\ \A n \in 1..m : h[n].space # s
  BY <1>1, <1>2, <1>3 DEF Leaves
<1>4. ASSUME NEW n \in 1..m, h[n].space = s, h[n].to = place,
             \A later \in (n + 1)..m : h[later].space # s
      PROVE  Leaves(g, m, s, place)
  <2>1. \A later \in (n + 1)..m : later \in 1..m
    BY <1>2
  <2>2. /\ g[n].space = s /\ g[n].to = place
        /\ \A later \in (n + 1)..m : g[later].space # s
    BY <1>2, <1>4, <2>1
  <2> QED BY <2>2 DEF Leaves
<1> QED BY <1>1, <1>3, <1>4 DEF Leaves

\* The new event is the last one of its space, and of no other.
LEMMA LastMove ==
    ASSUME NEW h \in Seq(Event), NEW e \in Event, NEW s, NEW place,
           Leaves(h, Len(h), s, place)
    PROVE  Leaves(Append(h, e), Len(h) + 1, s, IF e.space = s THEN e.to ELSE place)
<1>1. PICK g : g = Append(h, e)
  OBVIOUS
<1>2. PICK m : m = Len(h)
  OBVIOUS
<1>3. m \in Nat /\ g[m + 1] = e
  BY <1>1, <1>2
<1>4. CASE e.space = s
  <2>1. m + 1 \in 1..(m + 1) /\ (m + 1 + 1)..(m + 1) = {}
    BY <1>3
  <2>2. Leaves(g, m + 1, s, e.to)
    BY <1>3, <1>4, <2>1 DEF Leaves
  <2> QED BY <1>1, <1>2, <1>4, <2>2
<1>5. CASE e.space # s
  <2>1. Leaves(g, m, s, place)
    BY <1>1, <1>2, <1>3, EarlierMoves
  <2>2. 1..m \subseteq 1..(m + 1) /\ \A n \in 1..(m + 1) : n \in 1..m \/ n = m + 1
    BY <1>3
  <2>3. CASE place = None /\ \A n \in 1..m : g[n].space # s
    <3>1. \A n \in 1..(m + 1) : g[n].space # s
      BY <1>3, <1>5, <2>2, <2>3
    <3> QED BY <1>1, <1>2, <1>5, <2>3, <3>1 DEF Leaves
  <2>4. ASSUME NEW n \in 1..m, g[n].space = s, g[n].to = place,
               \A later \in (n + 1)..m : g[later].space # s
        PROVE  Leaves(g, m + 1, s, place)
    <3>1. \A later \in (n + 1)..(m + 1) : later \in (n + 1)..m \/ later = m + 1
      BY <1>3
    <3>2. \A later \in (n + 1)..(m + 1) : g[later].space # s
      BY <1>3, <1>5, <2>4, <3>1
    <3> QED BY <2>2, <2>4, <3>2 DEF Leaves
  <2>5. Leaves(g, m + 1, s, place)
    BY <1>1, <1>2, <1>5, <2>1, <2>3, <2>4 DEF Leaves
  <2> QED BY <1>1, <1>2, <1>5, <2>5
<1> QED BY <1>4, <1>5

\* Where an item is in a space: nowhere, when it is in another one.
PlaceIn(it, s) == IF it.space = s THEN it.location ELSE None

PathOf(history, it) ==
    /\ \A n \in 1..Len(history) :
           Leaves(history, n - 1, history[n].space, history[n].from)
    /\ \A s \in Spaces : Leaves(history, Len(history), s, PlaceIn(it, s))

LEMMA Paths == HistoryIsContinuous <=> \A i \in Items : PathOf(events[i], item[i])
BY DEF HistoryIsContinuous, PathOf, PlaceIn

\* The event records where the item was: the path goes on from there.
LEMMA PathGoesOn ==
    ASSUME NEW h \in Seq(Event), NEW e \in Event, NEW it \in Item, NEW new \in Item,
           PathOf(h, it), e.space = it.space, e.from = it.location,
           \A s \in Spaces : PlaceIn(new, s) = IF e.space = s THEN e.to ELSE PlaceIn(it, s)
    PROVE  PathOf(Append(h, e), new)
<1>1. PICK g : g = Append(h, e)
  OBVIOUS
<1>2. PICK m : m = Len(h)
  OBVIOUS
<1>3. m \in Nat /\ Len(g) = m + 1 /\ g[m + 1] = e /\ \A n \in 1..m : g[n] = h[n]
  BY <1>1, <1>2
<1>4. ASSUME NEW n \in 1..m PROVE Leaves(g, n - 1, g[n].space, g[n].from)
  <2>1. n - 1 \in 0..m /\ g[n] = h[n]
    BY <1>3
  <2>2. Leaves(h, n - 1, h[n].space, h[n].from)
    BY <1>2 DEF PathOf
  <2> QED BY <1>1, <1>2, <2>1, <2>2, EarlierMoves
<1>5. Leaves(g, m + 1 - 1, e.space, e.from)
  <2>1. it.space \in Spaces /\ PlaceIn(it, it.space) = it.location
    BY DEF Item, PlaceIn
  <2>2. Leaves(h, m, e.space, e.from)
    BY <1>2, <2>1 DEF PathOf
  <2>3. m \in 0..m /\ m + 1 - 1 = m
    BY <1>3
  <2> QED BY <1>1, <1>2, <2>2, <2>3, EarlierMoves
<1>6. \A n \in 1..(m + 1) : Leaves(g, n - 1, g[n].space, g[n].from)
  <2>1. \A n \in 1..(m + 1) : n \in 1..m \/ n = m + 1
    BY <1>3
  <2> QED BY <1>3, <1>4, <1>5, <2>1
<1>7. ASSUME NEW s \in Spaces PROVE Leaves(g, m + 1, s, PlaceIn(new, s))
  <2>1. Leaves(h, m, s, PlaceIn(it, s))
    BY <1>2 DEF PathOf
  <2> QED BY <1>1, <1>2, <2>1, LastMove
<1>8. PathOf(g, new)
  BY <1>3, <1>6, <1>7 DEF PathOf
<1> QED BY <1>1, <1>8

\* The item that moved goes on along its path; the others are where they were.
LEMMA RecordedPath ==
    ASSUME IInv, HistoryIsContinuous, NEW c \in Items, NEW to \in Location \cup {None},
           events' = Recorded(c, to), item' \in [Items -> Item],
           \A j \in Items \ {c} : /\ item'[j].space = item[j].space
                                  /\ item'[j].location = item[j].location,
           \A s \in Spaces : PlaceIn(item'[c], s) =
               IF item[c].space = s THEN to ELSE PlaceIn(item[c], s)
    PROVE  HistoryIsContinuous'
<1>1. PICK e : e = [space |-> item[c].space, from |-> item[c].location, to |-> to]
  OBVIOUS
<1>2. item[c] \in Item /\ item'[c] \in Item /\ events[c] \in Seq(Event)
  BY DEF IInv, TypeOK
<1>3. e \in Event /\ e.space = item[c].space /\ e.from = item[c].location /\ e.to = to
  BY <1>1, <1>2 DEF Item, Event
<1>4. events' = [events EXCEPT ![c] = Append(events[c], e)]
  BY <1>1 DEF Recorded
<1>5. \A j \in Items : events'[j] = IF j = c THEN Append(events[c], e) ELSE events[j]
  BY <1>4 DEF IInv
<1>6. ASSUME NEW j \in Items PROVE PathOf(events'[j], item'[j])
  <2>1. PathOf(events[j], item[j])
    BY Paths
  <2>2. CASE j = c
    <3>1. PathOf(Append(events[c], e), item'[c])
      BY <1>2, <1>3, <2>1, <2>2, PathGoesOn
    <3> QED BY <1>5, <2>2, <3>1
  <2>3. CASE j # c
    BY <1>5, <2>1, <2>3 DEF PathOf, PlaceIn
  <2> QED BY <2>2, <2>3
<1> QED BY <1>6 DEF HistoryIsContinuous, PathOf, PlaceIn

\* Nothing is recorded: every item is where it was, as its history tells it.
LEMMA SamePath ==
    ASSUME IInv, HistoryIsContinuous, UNCHANGED events,
           \A j \in Items : \A s \in Spaces :
               PlaceIn(item'[j], s) = PlaceIn(item[j], s)
    PROVE  HistoryIsContinuous'
<1>1. \A j \in Items : PathOf(events[j], item[j])
  BY Paths
<1>2. \A j \in Items : PathOf(events'[j], item'[j])
  BY <1>1 DEF PathOf
<1> QED BY <1>2 DEF HistoryIsContinuous, PathOf, PlaceIn

LEMMA SamePlace ==
    ASSUME IInv, HistoryIsContinuous, UNCHANGED events,
           \A j \in Items : /\ item'[j].space = item[j].space
                            /\ item'[j].location = item[j].location
    PROVE  HistoryIsContinuous'
BY SamePath DEF PlaceIn

LEMMA InitPath == Init => HistoryIsContinuous
<1> SUFFICES ASSUME Init PROVE HistoryIsContinuous
  OBVIOUS
<1>1. PICK home \in Spaces : item = [i \in Items |->
          [space |-> home, trashed |-> FALSE, location |-> None, revision |-> 1]]
  BY DEF Init
<1>2. \A i \in Items : item[i].location = None
  BY <1>1
<1>3. events = [i \in Items |-> <<>>]
  BY DEF Init
<1>4. \A i \in Items : item[i].location = None /\ events[i] = <<>>
  BY <1>2, <1>3
<1>5. \A s \in Spaces : Leaves(<<>>, 0, s, None)
  BY DEF Leaves
<1>6. Len(<<>>) = 0 /\ 1..0 = {}
  OBVIOUS
<1>7. ASSUME NEW i \in Items PROVE PathOf(<<>>, item[i])
  BY <1>4, <1>5, <1>6 DEF PathOf, PlaceIn
<1> QED BY <1>4, <1>7, Paths

LEMMA CommitMovePath ==
    ASSUME IInv, HistoryIsContinuous, NEW q \in Requests, CommitMove(q)
    PROVE  HistoryIsContinuous'
<1>1. PICK r \in Request : r = request[q]
  BY DEF IInv, TypeOK
<1>2. r.op = "move" /\ Bounded(r.item)
  BY <1>1 DEF CommitMove
<1>3. r.item \in Items
  BY <1>1, <1>2, Committing
<1>4. CASE r.location = item[r.item].location
  BY <1>1, <1>4, SamePlace DEF CommitMove, tables
<1>5. CASE r.location # item[r.item].location
  <2>1. /\ events' = Recorded(r.item, r.location)
        /\ item' = [RevisionGrows(r.item) EXCEPT ![r.item].location = r.location]
    BY <1>1, <1>5 DEF CommitMove
  <2>2. r.location \in Location \cup {None}
    BY DEF Request
  <2>3. PICK f : f = RevisionGrows(r.item)
    OBVIOUS
  <2>4. /\ f \in [Items -> Item]
        /\ f[r.item].space = item[r.item].space
        /\ \A j \in Items \ {r.item} : f[j] = item[j]
    BY <1>2, <1>3, <2>3, Grows
  <2>5. PICK it : it = [f[r.item] EXCEPT !.location = r.location]
    OBVIOUS
  <2>6. it \in Item /\ it.space = item[r.item].space /\ it.location = r.location
    BY <1>3, <2>2, <2>4, <2>5 DEF Item
  <2>7. item' = [f EXCEPT ![r.item] = it]
    BY <2>1, <2>3, <2>5
  <2>8. item' \in [Items -> Item] /\ item'[r.item] = it
        /\ \A j \in Items \ {r.item} : item'[j] = item[j]
    BY <1>3, <2>4, <2>6, <2>7
  <2>9. \A s \in Spaces : PlaceIn(item'[r.item], s) =
            IF item[r.item].space = s THEN r.location ELSE PlaceIn(item[r.item], s)
    BY <2>6, <2>8 DEF PlaceIn
  <2> QED BY <1>3, <2>1, <2>2, <2>8, <2>9, RecordedPath
<1> QED BY <1>4, <1>5

\* The item leaves its space, and no path of another space has an end.
LEMMA CommitTransferPath ==
    ASSUME IInv, HistoryIsContinuous, NEW q \in Requests, CommitTransfer(q)
    PROVE  HistoryIsContinuous'
<1>1. PICK r \in Request : r = request[q]
  BY DEF IInv, TypeOK
<1>2. r.op = "transfer" /\ events' = LocationExit(r.item)
  BY <1>1 DEF CommitTransfer
<1>3. r.item \in Items
  BY <1>1, <1>2, Committing
<1>4. r.space \in Spaces
  BY <1>1, <1>2, Committing DEF RequestOK
<1>5. /\ item' \in [Items -> Item]
      /\ item'[r.item].location = None
      /\ \A j \in Items \ {r.item} : item'[j] = item[j]
  BY <1>1, <1>3, <1>4, Transferred
<1>6. \A s \in Spaces : PlaceIn(item'[r.item], s) = None
  BY <1>5 DEF PlaceIn
<1>7. CASE item[r.item].location = None
  <2>1. \A j \in Items : \A s \in Spaces : PlaceIn(item'[j], s) = PlaceIn(item[j], s)
    BY <1>5, <1>7 DEF PlaceIn
  <2> QED BY <1>2, <1>7, <2>1, SamePath DEF LocationExit
<1>8. CASE item[r.item].location # None
  <2>1. events' = Recorded(r.item, None)
    BY <1>2, <1>8 DEF LocationExit
  <2>2. \A s \in Spaces : PlaceIn(item'[r.item], s) =
            IF item[r.item].space = s THEN None ELSE PlaceIn(item[r.item], s)
    BY <1>6 DEF PlaceIn
  <2> QED BY <1>3, <1>5, <2>1, <2>2, RecordedPath
<1> QED BY <1>7, <1>8

\* The steps that record nothing move no item.
LEMMA StayingPath ==
    ASSUME IInv, HistoryIsContinuous, UNCHANGED events, NEW i \in Items, Bounded(i),
           item' = RevisionGrows(i) \/ TrashOrRestore(i) \/ UNCHANGED item
    PROVE  HistoryIsContinuous'
<1>1. CASE item' = RevisionGrows(i)
  BY <1>1, Grows, SamePlace
<1>2. CASE TrashOrRestore(i)
  <2>1. PICK f : f = RevisionGrows(i)
    OBVIOUS
  <2>2. PICK it : it = [f[i] EXCEPT !.trashed = ~ f[i].trashed]
    OBVIOUS
  <2>3. item' = [f EXCEPT ![i] = it]
    BY <1>2, <2>1, <2>2 DEF TrashOrRestore
  <2>4. /\ f \in [Items -> Item]
        /\ f[i].space = item[i].space /\ f[i].location = item[i].location
        /\ \A j \in Items \ {i} : f[j] = item[j]
    BY <2>1, Grows
  <2>5. it.space = item[i].space /\ it.location = item[i].location
    BY <2>2, <2>4 DEF Item
  <2> QED BY <2>3, <2>4, <2>5, SamePlace
<1>3. CASE UNCHANGED item
  BY <1>3, SamePlace
<1> QED BY <1>1, <1>2, <1>3

LEMMA CommitLinksPath ==
    ASSUME IInv, HistoryIsContinuous, NEW q \in Requests,
           CommitGroups(q) \/ CommitRelations(q)
    PROVE  HistoryIsContinuous'
<1>1. PICK r \in Request : r = request[q]
  BY DEF IInv, TypeOK
<1>2. r.op \in {"groups", "relations"} /\ Bounded(r.item)
  BY <1>1 DEF CommitGroups, CommitRelations
<1>3. r.item \in Items
  BY <1>1, <1>2, Committing
<1>4. UNCHANGED events /\ (item' = RevisionGrows(r.item) \/ UNCHANGED item)
  BY <1>1 DEF CommitGroups, CommitRelations, tables
<1> QED BY <1>2, <1>3, <1>4, StayingPath

LEMMA StepPath == IInv /\ HistoryIsContinuous /\ [Next]_vars => HistoryIsContinuous'
<1> SUFFICES ASSUME IInv, HistoryIsContinuous, [Next]_vars PROVE HistoryIsContinuous'
  OBVIOUS
<1>1. CASE UNCHANGED <<item, events>>
  BY <1>1, SamePlace
<1>2. ASSUME NEW q \in Requests, NEW r, Begin(q, r) PROVE UNCHANGED <<item, events>>
  BY <1>2 DEF Begin, tables
<1>3. ASSUME NEW q \in Requests, NEW i \in Items,
             \/ \E chosen \in SUBSET Group : BeginGroups(q, i, chosen)
             \/ \E links \in SUBSET (Items \X Kinds) : BeginRelations(q, i, links)
             \/ \E to \in Location \cup {None} : BeginMove(q, i, to)
             \/ \E s \in Spaces : BeginTransfer(q, i, s)
      PROVE  UNCHANGED <<item, events>>
  BY <1>2, <1>3 DEF BeginGroups, BeginRelations, BeginMove, BeginTransfer
<1>4. CASE \/ \E g \in Group : CreateGroup(g) \/ DeleteGroup(g)
           \/ \E l \in Location : CreateLocation(l)
           \/ \E q \in Requests : RefusedByForeignKey(q) \/ Abandon(q)
           \/ UNCHANGED vars
  BY <1>1, <1>4 DEF CreateGroup, DeleteGroup, CreateLocation, RefusedByForeignKey,
     Abandon, tables, vars
<1>5. ASSUME NEW i \in Items, TrashOrRestore(i) PROVE HistoryIsContinuous'
  BY <1>5, StayingPath DEF TrashOrRestore
<1>6. CASE Next
  BY <1>1, <1>3, <1>4, <1>5, <1>6, CommitLinksPath, CommitMovePath,
     CommitTransferPath DEF Next
<1> QED BY <1>4, <1>6

\* The history of an item is, in each space, one continuous path from nowhere to
\* where it is now, through any number of moves, transfers and returns.
THEOREM HistoryHasNoHole == Spec => []HistoryIsContinuous
BY InitPath, StepPath, Invariance, PTL DEF Spec
=============================================================================
