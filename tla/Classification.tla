--------------------------- MODULE Classification ---------------------------
(***************************************************************************)
(* The categories of an item and the values of its custom fields, through  *)
(* reclassifications, transfers and returns (taxonomy.rs).                 *)
(*                                                                         *)
(* The categories of a space form a forest.  A field belongs to one        *)
(* category; an item has it as long as it is assigned to that category or  *)
(* to one below.  The value is kept on an assignment, so the assignment    *)
(* that answers for a field has to be found again on each request, and the *)
(* value carried over when that assignment ends.                           *)
(*                                                                         *)
(* One item is followed.  Every operation locks its row first and reads    *)
(* the rest in a snapshot taken after, and categories and fields are never *)
(* deleted or moved: each operation is one step.                           *)
(*                                                                         *)
(* The handlers of http.rs are not one step: they read the item before,    *)
(* for its space and the rights of the caller there, and read what they    *)
(* answer after, each in a snapshot of its own.  One such handler is       *)
(* followed; the writes of the others happen around its reads.             *)
(***************************************************************************)
EXTENDS Naturals, Sequences, FiniteSets

CONSTANTS
    Spaces,
    FieldNames,      \* with a category: the fields that may be defined there
    Values,
    None,
    MaxCategories,   \* bound: categories created in all
    MaxAssignments,  \* bound: assignments of the item in all, ended ones included
    MaxRevision      \* bound: changes of the item followed

ASSUME BoundAssumption ==
    /\ MaxCategories \in Nat \ {0}
    /\ MaxAssignments \in Nat \ {0}
    /\ MaxRevision \in Nat \ {0}
ASSUME NoneAssumption == None \notin Values

VARIABLES
    categories,   \* inventory_categories, in the order of their identifiers
    fields,       \* category_field_definitions: <<category, name>>
    assigned,     \* item_category_assignments, in the order of assigned_at
    value,        \* item_custom_field_values: <<assignment, field>> to a value
    item,         \* the space, state and revision of the item
    handler       \* the space the handler has read, the revision it will answer,
                  \* the one its write expects, and what pins its write to that space

tables == <<categories, fields, assigned, value, item>>
vars == <<tables, handler>>

Category == [space : Spaces, parent : 0..MaxCategories]   \* 0: a root
Field == (1..MaxCategories) \X FieldNames
Assignment == [category : 1..MaxCategories, ended : BOOLEAN]
Handler ==
    [space : Spaces, revision : 1..MaxRevision,
     expected : 0..MaxRevision,   \* 0: it only reads, or it has written
     pinned : BOOLEAN]            \* the item had the expected revision by then,
                                  \* or the write has found it in the same space

\* The type of the state.  A category is below an older one, of its own space.
TypeOK ==
    /\ categories \in Seq(Category) /\ Len(categories) <= MaxCategories
    /\ \A c \in DOMAIN categories : categories[c].parent # 0 =>
           /\ categories[c].parent < c
           /\ categories[categories[c].parent].space = categories[c].space
    /\ fields \subseteq Field
    /\ assigned \in Seq(Assignment) /\ Len(assigned) <= MaxAssignments
    /\ DOMAIN value \subseteq (DOMAIN assigned) \X fields
    /\ \A at \in DOMAIN value : value[at] \in Values
    /\ item \in [space : Spaces, trashed : BOOLEAN, revision : 1..MaxRevision]
    /\ handler \in Handler \cup {None}

Init ==
    /\ categories = <<>>
    /\ fields = {}
    /\ assigned = <<>>
    /\ value = <<>>
    /\ \E s \in Spaces : item = [space |-> s, trashed |-> FALSE, revision |-> 1]
    /\ handler = None

----------------------------------------------------------------------------
(* Categories and fields. *)

\* Mutant: the parent may be of any space.
CreateAnywhere(s, p) ==
    /\ Len(categories) < MaxCategories
    /\ categories' = Append(categories, [space |-> s, parent |-> p])
    /\ UNCHANGED <<fields, assigned, value, item, handler>>

\* (Sibling names are left out.)
CreateCategory(s, p) ==
    /\ Len(categories) < MaxCategories
    /\ p # 0 => categories[p].space = s
    /\ categories' = Append(categories, [space |-> s, parent |-> p])
    /\ UNCHANGED <<fields, assigned, value, item, handler>>

CreateField(c, name) ==
    /\ <<c, name>> \notin fields
    /\ fields' = fields \cup {<<c, name>>}
    /\ UNCHANGED <<categories, assigned, value, item, handler>>

\* The category and those above it, as the query WITH RECURSIVE walks them.
Ancestry(c) ==
    LET line[d \in DOMAIN categories] ==
            {d} \cup (IF categories[d].parent = 0 THEN {}
                      ELSE line[categories[d].parent])
    IN line[c]

BelongTo(chosen, s) == \A c \in chosen : categories[c].space = s

----------------------------------------------------------------------------
(* What the assignments `list` and the values `held` show. *)

Active(list, s) ==
    {n \in DOMAIN list : ~ list[n].ended /\ categories[list[n].category].space = s}

CategoriesOf(list, s) == {list[n].category : n \in Active(list, s)}

Reaching(f, list, s) == {n \in Active(list, s) : f[1] \in Ancestry(list[n].category)}

Effective(list, s) == {f \in fields : Reaching(f, list, s) # {}}

Oldest(S) == CHOOSE n \in S : \A m \in S : n <= m

\* Mutant: the newest assignment answers, with or without a value.
NewestSource(f, list, held, s) ==
    CHOOSE n \in Reaching(f, list, s) : \A m \in Reaching(f, list, s) : m <= n

\* The assignment that answers for a field: one with a value first, then the oldest.
Source(f, list, held, s) ==
    LET all == Reaching(f, list, s)
        holding == {n \in all : <<n, f>> \in DOMAIN held} IN
    Oldest(IF holding # {} THEN holding ELSE all)

Answer(f, list, held, s) ==
    LET at == <<Source(f, list, held, s), f>> IN
    IF at \in DOMAIN held THEN held[at] ELSE None

----------------------------------------------------------------------------
(* The operations on the item. *)

\* Bound: changes and assignments followed.
Bounded(list) == item.revision < MaxRevision /\ Len(list) <= MaxAssignments

NextRevision == [item EXCEPT !.revision = @ + 1]

\* The k-th of a set of identifiers.
Nth(chosen, k) == CHOOSE c \in chosen : Cardinality({d \in chosen : d <= c}) = k

\* One row for each category, in the order of their identifiers.
Assign(list, chosen) ==
    list \o [k \in 1..Cardinality(chosen) |->
                [category |-> Nth(chosen, k), ended |-> FALSE]]

\* (The limit of 20 active categories is far above MaxAssignments.)
AddCategories(chosen) ==
    LET new == chosen \ CategoriesOf(assigned, item.space) IN
    /\ ~ item.trashed
    /\ chosen # {} /\ BelongTo(new, item.space)
    /\ IF new = {} THEN UNCHANGED tables
       ELSE /\ Bounded(Assign(assigned, new))
            /\ assigned' = Assign(assigned, new)
            /\ item' = NextRevision
            /\ UNCHANGED <<categories, fields, value>>

\* The assignments of the item in its space end, but for those of `kept`.
End(list, s, kept) ==
    [n \in DOMAIN list |->
        [list[n] EXCEPT !.ended = @ \/ (n \in Active(list, s) /\ list[n].category \notin kept)]]

\* Mutant: the values stay on the assignments that ended.
NotPreserved(list) == value

\* preserve_reachable_values: what a field showed moves to the assignment that
\* answers for it now, when that one has no value.
Preserved(list) ==
    LET s == item.space
        moved == {f \in Effective(assigned, s) \cap Effective(list, s) :
                      /\ Answer(f, assigned, value, s) # None
                      /\ Answer(f, list, value, s) = None
                      /\ Source(f, list, value, s) # Source(f, assigned, value, s)}
        targets == {<<Source(f, list, value, s), f>> : f \in moved} IN
    [at \in DOMAIN value \cup targets |->
        IF at \in targets THEN Answer(at[2], assigned, value, s) ELSE value[at]]

ReplaceCategories(chosen) ==
    LET current == CategoriesOf(assigned, item.space)
        list == Assign(End(assigned, item.space, chosen), chosen \ current) IN
    /\ ~ item.trashed
    /\ BelongTo(chosen, item.space)
    /\ IF chosen = current THEN UNCHANGED tables
       ELSE /\ Bounded(list)
            /\ assigned' = list
            /\ value' = Preserved(list)
            /\ item' = NextRevision
            /\ UNCHANGED <<categories, fields>>

\* (A value the field's type refuses changes nothing.)
SetValue(f, v) ==
    LET at == <<Source(f, assigned, value, item.space), f>> IN
    /\ ~ item.trashed /\ Bounded(assigned)
    /\ f \in Effective(assigned, item.space)
    /\ value' = [x \in DOMAIN value \cup {at} |-> IF x = at THEN v ELSE value[x]]
    /\ item' = NextRevision
    /\ UNCHANGED <<categories, fields, assigned>>

\* Mutant: the new space has its own assignments, the old ones are left as they are.
TransferLeaving(s, chosen) ==
    /\ ~ item.trashed /\ s # item.space
    /\ Active(assigned, item.space) # {} => chosen # {}
    /\ BelongTo(chosen, s)
    /\ assigned' = Assign(assigned, chosen)
    /\ Bounded(assigned')
    /\ item' = [NextRevision EXCEPT !.space = s]
    /\ UNCHANGED <<categories, fields, value, handler>>

\* apply_transfer_categories, within transfer_item_with_categories.
Transfer(s, chosen) ==
    /\ ~ item.trashed /\ s # item.space
    /\ Active(assigned, item.space) # {} => chosen # {}
    /\ BelongTo(chosen, s)
    /\ assigned' = Assign(End(assigned, item.space, {}), chosen)
    /\ Bounded(assigned')
    /\ item' = [NextRevision EXCEPT !.space = s]
    /\ UNCHANGED <<categories, fields, value, handler>>

\* (Bound: there is room left for the restoration.)
TrashOrRestore ==
    /\ item.revision + (IF item.trashed THEN 0 ELSE 1) < MaxRevision
    /\ item' = [NextRevision EXCEPT !.trashed = ~ @]
    /\ UNCHANGED <<categories, fields, assigned, value, handler>>

----------------------------------------------------------------------------
(* The handlers. *)

\* authorized_item, then positive_revision: the revision the client expects is
\* not compared with the item that was read.  (One older than that is refused by
\* the write, and changes nothing: it is left out.  Bounds: of the revisions to
\* come, only the next one; and another change can follow that of the handler.)
AuthorizeItem(expected) ==
    /\ handler = None
    /\ expected \in {0, item.revision, item.revision + 1} /\ expected + 1 < MaxRevision
    /\ handler' = [space |-> item.space, revision |-> item.revision,
                   expected |-> expected, pinned |-> expected <= item.revision]
    /\ UNCHANGED tables

\* What the handler will answer with, once its write is done.
AfterWrite ==
    [handler EXCEPT !.revision = item'.revision, !.expected = 0,
                    !.pinned = @ \/ handler.space = item.space]

\* Mutant: the revision the client expects is not compared with the locked row.
WrittenUnseen ==
    /\ handler # None /\ handler.expected # 0
    /\ handler' = AfterWrite

\* The write of the handler itself.
Written ==
    /\ handler # None /\ handler.expected = item.revision
    /\ handler' = AfterWrite

\* (UNCHANGED handler: the write of another handler.)
AddItemCategories(chosen) == AddCategories(chosen) /\ (Written \/ UNCHANGED handler)
ReplaceItemCategories(chosen) == ReplaceCategories(chosen) /\ (Written \/ UNCHANGED handler)
SetItemFieldValue(f, v) == SetValue(f, v) /\ (Written \/ UNCHANGED handler)

\* What the handler answers: the fields of the item in the space it has read.
AnsweredFields == Effective(assigned, handler.space)
Answered(f) == Answer(f, assigned, value, handler.space)

\* list_item_fields, and the end of the handlers that write.
ListItemFields ==
    /\ handler # None
    /\ handler' = None
    /\ UNCHANGED tables

Next ==
    \/ \E s \in Spaces, p \in 0..Len(categories) : CreateCategory(s, p)
    \/ \E c \in DOMAIN categories, name \in FieldNames : CreateField(c, name)
    \/ \E chosen \in SUBSET DOMAIN categories :
           \/ AddItemCategories(chosen)
           \/ ReplaceItemCategories(chosen)
           \/ \E s \in Spaces : Transfer(s, chosen)
    \/ \E f \in fields, v \in Values : SetItemFieldValue(f, v)
    \/ \E expected \in 0..MaxRevision : AuthorizeItem(expected)
    \/ TrashOrRestore \/ ListItemFields

Spec == Init /\ [][Next]_vars

----------------------------------------------------------------------------
Shown(f) == Answer(f, assigned, value, item.space)
ShownFields == Effective(assigned, item.space)

\* An item is in each category once, and of the assignments that reach a field
\* one at most holds a value of it: the answer does not depend on which one is
\* asked.  No key of item_category_assignments says so; it rests on the order in
\* which load_effective_fields picks the assignment that set_item_field_value and
\* preserve_reachable_values write to.
OneValuePerField ==
    LET active == Active(assigned, item.space) IN
    \A n, m \in active : n # m =>
        /\ assigned[n].category # assigned[m].category
        /\ \A f \in fields : <<n, f>> \in DOMAIN value => <<m, f>> \notin DOMAIN value

\* A change of categories loses no value and brings none back: a field that stays
\* reachable shows what it showed, one that becomes reachable shows nothing, even
\* if it held a value before.  Only set_item_field_value changes what a field
\* shows, and whatever changes on the item's page changes with its revision.
ReclassificationKeepsValues ==
    [][/\ assigned' # assigned =>
              \A f \in ShownFields' :
                  Shown(f)' = IF f \in ShownFields THEN Shown(f) ELSE None
       /\ assigned' # assigned \/ value' # value => item'.revision = item.revision + 1]_vars

\* What has ended is history: an assignment that is not of the current
\* classification never comes back to it, not even with the item's return to its
\* space, and its values are neither changed nor removed.
HistoryIsSealed ==
    [][\A n \in DOMAIN assigned \ Active(assigned, item.space) :
           /\ n \in DOMAIN assigned' \ Active(assigned', item'.space)
           /\ assigned'[n] = assigned[n]
           /\ \A f \in fields :
                  LET at == <<n, f>> IN
                  /\ at \in DOMAIN value' <=> at \in DOMAIN value
                  /\ at \in DOMAIN value => value'[at] = value[at]]_vars

\* A page whose revision is still the item's shows the item as it is, although
\* the revision and the fields come from two snapshots and the space from a third:
\* what a client writes on the strength of its page it has really seen, and it
\* writes in the space where its rights were checked.  (A field created since is
\* the only thing that may be missing from a page.)  The answer to a write that
\* expected a revision the item had not reached yet, and found the item in another
\* space than the one that was read, is not such a page.
CurrentPagesAreRight ==
    handler # None /\ handler.pinned /\ handler.revision = item.revision =>
        /\ handler.space = item.space
        /\ \A f \in ShownFields : f \in AnsweredFields /\ Answered(f) = Shown(f)
=============================================================================
