----------------------------- MODULE ItemLinks -----------------------------
(***************************************************************************)
(* What ties an item to other rows of its space: the groups it belongs to, *)
(* its relations to other items, its current location and the history of   *)
(* its moves (groups.rs, relations.rs, locations.rs), and what a transfer  *)
(* to another space does to all of them (database.rs).                     *)
(*                                                                         *)
(* Every change locks the row of one item, checks the other rows it is     *)
(* about to refer to in a snapshot, and writes.  Those other rows are not  *)
(* locked: they may have changed by the time it writes, and only a foreign *)
(* key on (space_id, id) then stops it.                                    *)
(***************************************************************************)
EXTENDS Naturals, Sequences

CONSTANTS
    Items,
    Spaces,
    GroupNames,      \* with a space: the groups that may exist there
    LocationNames,   \* with a space: the locations that may exist there
    Kinds,           \* related, variant_of, part_of
    Requests,        \* slots for the requests that are in progress at a time
    None,
    MaxRevision      \* bound: changes followed for one item

ASSUME BoundAssumption == MaxRevision \in Nat \ {0}
ASSUME NoneAssumption ==
    /\ None \notin Items \cup Spaces \cup (Spaces \X LocationNames)
    /\ None \notin {"groups", "relations", "move", "transfer"}

\* A group or a location never changes space.
Group == Spaces \X GroupNames
Location == Spaces \X LocationNames
SpaceOf(x) == x[1]

VARIABLES
    item,        \* inventory_items
    groups,      \* inventory_groups
    locations,   \* inventory_locations
    member,      \* inventory_group_members: the groups of each item
    relations,   \* item_relations
    events,      \* item_location_events of each item, oldest first
    request      \* what each slot is doing

tables == <<item, groups, locations, member, relations, events>>
vars == <<tables, request>>

Item == [space : Spaces, trashed : BOOLEAN, location : Location \cup {None},
         revision : 1..MaxRevision]
Relation == [source : Items, target : Items, kind : Kinds, space : Spaces]
Event == [space : Spaces, from : Location \cup {None}, to : Location \cup {None}]

\* A request past its checks, that holds the row of its item.
Request ==
    [op : {"groups", "relations", "move", "transfer", None},
     item : Items \cup {None},
     groups : SUBSET Group,
     links : SUBSET (Items \X Kinds),
     current : SUBSET (Items \X Kinds),   \* the relations its snapshot shows
     location : Location \cup {None},
     space : Spaces \cup {None}]

Idle == [op |-> None, item |-> None, groups |-> {}, links |-> {}, current |-> {},
         location |-> None, space |-> None]

\* The type of the state.  No item is related to itself.
TypeOK ==
    /\ item \in [Items -> Item]
    /\ groups \subseteq Group
    /\ locations \subseteq Location
    /\ member \in [Items -> SUBSET Group]
    /\ relations \subseteq Relation
    /\ \A rel \in relations : rel.source # rel.target
    /\ \A i \in Items : events[i] \in Seq(Event)
    /\ request \in [Requests -> Request]

Init ==
    /\ \E s \in Spaces : item = [i \in Items |->
           [space |-> s, trashed |-> FALSE, location |-> None, revision |-> 1]]
    /\ groups = {}
    /\ locations = {}
    /\ member = [i \in Items |-> {}]
    /\ relations = {}
    /\ events = [i \in Items |-> <<>>]
    /\ request = [q \in Requests |-> Idle]

ItemIsFree(i) == \A q \in Requests : request[q].item # i

Finish(q) == request' = [request EXCEPT ![q] = Idle]

\* Bound: no more changes are followed.
Bounded(i) == item[i].revision < MaxRevision

RevisionGrows(i) == [item EXCEPT ![i].revision = @ + 1]

----------------------------------------------------------------------------
(* Groups and locations of a space. *)

CreateGroup(g) ==
    /\ g \notin groups
    /\ groups' = groups \cup {g}
    /\ UNCHANGED <<item, locations, member, relations, events, request>>

\* A group is deleted only when empty: the foreign key of inventory_group_members
\* has the last word.
DeleteGroup(g) ==
    /\ g \in groups
    /\ \A i \in Items : g \notin member[i]
    /\ groups' = groups \ {g}
    /\ UNCHANGED <<item, locations, member, relations, events, request>>

\* (Where it is in the tree is never read by what follows.)
CreateLocation(l) ==
    /\ l \notin locations
    /\ locations' = locations \cup {l}
    /\ UNCHANGED <<item, groups, member, relations, events, request>>

Outgoing(i) == {rel \in relations : rel.source = i}

----------------------------------------------------------------------------
(* What the handlers ask for, once the rights of the caller are checked. *)

AskGroups(i, chosen) == [Idle EXCEPT !.op = "groups", !.item = i, !.groups = chosen]
AskRelations(i, links) == [Idle EXCEPT !.op = "relations", !.item = i, !.links = links]
AskMove(i, to) == [Idle EXCEPT !.op = "move", !.item = i, !.location = to]
AskTransfer(i, s) == [Idle EXCEPT !.op = "transfer", !.item = i, !.space = s]

----------------------------------------------------------------------------
(* The checks: the item is locked, in the revision expected, and not trashed; *)
(* what it will refer to is there, in its space.                               *)

Begin(q, r) ==
    /\ request[q] = Idle
    /\ ItemIsFree(r.item)
    /\ ~ item[r.item].trashed
    /\ request' = [request EXCEPT ![q] = r]
    /\ UNCHANGED tables

BeginGroups(q, i, chosen) ==
    /\ \A g \in chosen : g \in groups /\ SpaceOf(g) = item[i].space
    /\ Begin(q, AskGroups(i, chosen))

Snapshot(i) == {<<rel.target, rel.kind>> : rel \in Outgoing(i)}

\* Mutant: the item itself is a target like any other.
BeginAnyRelations(q, i, links) ==
    /\ \A link \in links : item[link[1]].space = item[i].space
    /\ Begin(q, [AskRelations(i, links) EXCEPT !.current = Snapshot(i)])

BeginRelations(q, i, links) ==
    /\ \A link \in links : link[1] # i /\ item[link[1]].space = item[i].space
    /\ Begin(q, [AskRelations(i, links) EXCEPT !.current = Snapshot(i)])

BeginMove(q, i, to) ==
    /\ to # None => to \in locations /\ SpaceOf(to) = item[i].space
    /\ Begin(q, AskMove(i, to))

BeginTransfer(q, i, s) ==
    /\ s # item[i].space
    /\ Begin(q, AskTransfer(i, s))

----------------------------------------------------------------------------
(* The writes. *)

\* fk_inventory_group_members_group, fk_item_relations_target.
ForeignKeysHold(r) ==
    /\ r.groups \subseteq groups
    /\ \A link \in r.links : item[link[1]].space = item[r.item].space

CommitGroups(q) ==
    LET r == request[q] IN
    /\ r.op = "groups" /\ Bounded(r.item)
    /\ IF r.groups = member[r.item] THEN UNCHANGED tables
       ELSE /\ ForeignKeysHold(r)
            /\ member' = [member EXCEPT ![r.item] = r.groups]
            /\ item' = RevisionGrows(r.item)
            /\ UNCHANGED <<groups, locations, relations, events>>
    /\ Finish(q)

Declared(r) == {[source |-> r.item, target |-> link[1], kind |-> link[2],
                 space |-> item[r.item].space] : link \in r.links}

\* Mutant: the relations are written, the revision is left as it was.
RelationsOnly(q) ==
    LET r == request[q] IN
    /\ r.op = "relations" /\ Bounded(r.item)
    /\ ForeignKeysHold(r)
    /\ relations' = (relations \ Outgoing(r.item)) \cup Declared(r)
    /\ UNCHANGED <<item, groups, locations, member, events>>
    /\ Finish(q)

\* The relations wanted are compared with those of the snapshot: one of them may
\* have gone since, with its target.
CommitRelations(q) ==
    LET r == request[q] IN
    /\ r.op = "relations" /\ Bounded(r.item)
    /\ IF r.links = r.current THEN UNCHANGED tables
       ELSE /\ ForeignKeysHold(r)
            /\ relations' = (relations \ Outgoing(r.item)) \cup Declared(r)
            /\ item' = RevisionGrows(r.item)
            /\ UNCHANGED <<groups, locations, member, events>>
    /\ Finish(q)

\* The group was deleted, or the target transferred, since it was checked.
RefusedByForeignKey(q) ==
    /\ ~ ForeignKeysHold(request[q])
    /\ Finish(q)
    /\ UNCHANGED tables

Recorded(i, to) ==
    [events EXCEPT ![i] = Append(@, [space |-> item[i].space,
                                     from |-> item[i].location, to |-> to])]

CommitMove(q) ==
    LET r == request[q] i == r.item IN
    /\ r.op = "move" /\ Bounded(r.item)
    /\ IF r.location = item[i].location THEN UNCHANGED tables
       ELSE /\ events' = Recorded(i, r.location)
            /\ item' = [RevisionGrows(i) EXCEPT ![i].location = r.location]
            /\ UNCHANGED <<groups, locations, member, relations>>
    /\ Finish(q)

\* Mutants: only the relations the item declares are removed; its location is
\* left without a trace.
OutgoingOnly(i) == Outgoing(i)
NoExit(i) == events

Mentioning(i) == {rel \in relations : i \in {rel.source, rel.target}}
LocationExit(i) == IF item[i].location = None THEN events ELSE Recorded(i, None)

CommitTransfer(q) ==
    LET r == request[q] i == r.item IN
    /\ r.op = "transfer" /\ Bounded(r.item)
    /\ member' = [member EXCEPT ![i] = {}]
    /\ relations' = relations \ Mentioning(i)
    /\ events' = LocationExit(i)
    /\ item' = [RevisionGrows(i) EXCEPT ![i].space = r.space, ![i].location = None]
    /\ Finish(q)
    /\ UNCHANGED <<groups, locations>>

\* trash_item and restore_item: the links stay.  (Bound: there is room left for
\* the restoration.)
TrashOrRestore(i) ==
    /\ ItemIsFree(i) /\ Bounded(i)
    /\ ~ item[i].trashed => item[i].revision + 1 < MaxRevision
    /\ item' = [RevisionGrows(i) EXCEPT ![i].trashed = ~ @]
    /\ UNCHANGED <<groups, locations, member, relations, events, request>>

\* The transaction fails, is chosen to end a deadlock, or its handler is dropped.
Abandon(q) ==
    /\ request[q] # Idle
    /\ Finish(q)
    /\ UNCHANGED tables

Next ==
    \/ \E g \in Group : CreateGroup(g) \/ DeleteGroup(g)
    \/ \E l \in Location : CreateLocation(l)
    \/ \E i \in Items : TrashOrRestore(i)
    \/ \E q \in Requests, i \in Items :
           \/ \E chosen \in SUBSET Group : BeginGroups(q, i, chosen)
           \/ \E links \in SUBSET (Items \X Kinds) : BeginRelations(q, i, links)
           \/ \E to \in Location \cup {None} : BeginMove(q, i, to)
           \/ \E s \in Spaces : BeginTransfer(q, i, s)
    \/ \E q \in Requests :
           \/ CommitGroups(q) \/ CommitRelations(q) \/ CommitMove(q) \/ CommitTransfer(q)
           \/ RefusedByForeignKey(q) \/ Abandon(q)

Spec == Init /\ [][Next]_vars

----------------------------------------------------------------------------
\* An item is tied to rows of its own space only, however transfers, deletions
\* and new links cross.  CommitTransfer checks no foreign key: were this false,
\* the database would refuse a transfer the code meant to carry out.
LinksStayInOneSpace ==
    /\ \A i \in Items :
           /\ \A g \in member[i] : g \in groups /\ SpaceOf(g) = item[i].space
           /\ item[i].location # None =>
                  /\ item[i].location \in locations
                  /\ SpaceOf(item[i].location) = item[i].space
    /\ \A rel \in relations :
           item[rel.source].space = rel.space /\ item[rel.target].space = rel.space

\* Where the first m moves of a history leave the item in a space.
Leaves(history, m, s, place) ==
    \/ place = None /\ \A n \in 1..m : history[n].space # s
    \/ \E n \in 1..m :
           /\ history[n].space = s /\ history[n].to = place
           /\ \A later \in (n + 1)..m : history[later].space # s

\* In each space the history of an item is one continuous path: it starts
\* nowhere, each move leaves the place the one before reached, and it ends where
\* the item is, or nowhere once the item has left the space, also when it comes
\* back.
HistoryIsContinuous ==
    \A i \in Items :
        /\ \A n \in 1..Len(events[i]) :
               Leaves(events[i], n - 1, events[i][n].space, events[i][n].from)
        /\ \A s \in Spaces :
               Leaves(events[i], Len(events[i]), s,
                      IF item[i].space = s THEN item[i].location ELSE None)

\* What a client knows of an item is current as long as its revision is: the
\* revision grows by one with every change of its space, state, location, groups
\* or relations.  One change escapes it: a relation that disappears with the
\* transfer of its target.
GuardedByRevision ==
    [][\A i \in Items :
          LET own(it) == [space |-> it.space, trashed |-> it.trashed,
                          location |-> it.location]
              kept == {rel \in Outgoing(i) :
                           item'[rel.target].space = item[rel.target].space}
              changed == \/ own(item'[i]) # own(item[i])
                         \/ member'[i] # member[i]
                         \/ Outgoing(i)' # kept IN
          /\ item'[i].revision \in item[i].revision .. item[i].revision + 1
          /\ changed => item'[i].revision = item[i].revision + 1]_vars
=============================================================================
