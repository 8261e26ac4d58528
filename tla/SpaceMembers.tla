--------------------------- MODULE SpaceMembers ---------------------------
(***************************************************************************)
(* Who owns a space, who is a member of it, who manages its members, and   *)
(* with what rights: the sharing part of database.rs, for one space.       *)
(*                                                                         *)
(* Its transactions run under REPEATABLE READ.  The first plain SELECT of  *)
(* a transaction takes its snapshot: all its plain reads are of that       *)
(* moment, and what the code decides from them is decided there.  Locking  *)
(* reads and writes see the latest rows, and may first have to wait: each  *)
(* is a step.  The insert into an audit table needs the row of the space   *)
(* (a foreign key), so it waits for an ownership transfer in progress.     *)
(***************************************************************************)
EXTENDS Naturals, Sequences

CONSTANTS
    Accounts,
    Admins,         \* the accounts with the is_system_admin flag
    Permissions,    \* the permissions that may be granted in a space
    Core,           \* collections_read and collections_write
    Founder,        \* the account that created the space
    OwnerGrants,    \* what create_space grants it
    Requests,       \* slots for the requests that are in progress at a time
    None,           \* an absent field
    MaxTransfers    \* bound: ownership transfers that are followed

ASSUME FounderAssumption == Founder \in Accounts
ASSUME GrantsAssumption ==
    Core \subseteq OwnerGrants /\ OwnerGrants \subseteq Permissions
ASSUME AdminsAssumption == Admins \subseteq Accounts

VARIABLES
    owner,        \* spaces.owner_account_id
    members,      \* space_memberships
    grants,       \* space_permission_grants of every account
    managers,     \* space_managers
    transfers,    \* space_ownership_events, oldest first
    audit,        \* the row the last step added to space_member_audit_events,
                  \* None if it added none (no code reads the older rows)
    request       \* what each slot is doing

tables == <<owner, members, grants, managers, transfers>>
vars == <<tables, audit, request>>

Request ==
    [pc : {"idle", "begun", "memberLocked"},
     op : {"permissions", "remove", "appoint", "revoke", "transfer", None},
     actor : Accounts \cup {None},
     target : Accounts \cup {None},
     selected : SUBSET Permissions,   \* what to grant
     before : SUBSET Permissions,       \* the target's grants in the snapshot
     seenOwner : Accounts \cup {None}]  \* the owner in the snapshot

Idle == [pc |-> "idle", op |-> None, actor |-> None, target |-> None,
         selected |-> {}, before |-> {}, seenOwner |-> None]

----------------------------------------------------------------------------
LocksMember(r, a) == r.target = a /\ r.pc = "memberLocked"
LocksSpace(r) == r.op = "transfer" /\ r.pc # "idle"

\* Mutants: the rows are read without FOR UPDATE.
MemberNotLocked(a) == TRUE
SpaceNotLocked == TRUE

MemberIsFree(a) == \A p \in Requests : ~ LocksMember(request[p], a)
SpaceIsFree == \A p \in Requests : ~ LocksSpace(request[p])

----------------------------------------------------------------------------
Init ==
    /\ owner = Founder
    /\ members = {Founder}
    /\ grants = [a \in Accounts |-> IF a = Founder THEN OwnerGrants ELSE {}]
    /\ managers = {}
    /\ transfers = <<>>
    /\ audit = None
    /\ request = [q \in Requests |-> Idle]

Finish(q) == request' = [request EXCEPT ![q] = Idle]

\* actor_is_owner_or_admin, and require_member_manager.
Privileged(a) == a = owner \/ a \in Admins
ManagesMembers(a) == Privileged(a) \/ a \in managers

\* The transaction has its snapshot, and the snapshot lets it go on: what it will
\* still need of it is kept in r.
Begin(q, r) ==
    /\ request[q] = Idle
    /\ request' = [request EXCEPT ![q] = r]
    /\ audit' = None
    /\ UNCHANGED tables

\* An owner keeps its core grants.  A delegated manager passes on only grants it
\* holds, and never touches the owner.
MayBeGranted(actor, target, selected) ==
    /\ target = owner => Core \subseteq selected
    /\ ~ Privileged(actor) => target # owner /\ selected \subseteq grants[actor]

BeginPermissions(q, actor, target, selected) ==
    /\ actor # target
    /\ ManagesMembers(actor)
    /\ MayBeGranted(actor, target, selected)
    /\ Begin(q, [pc |-> "begun", op |-> "permissions", actor |-> actor,
                target |-> target, selected |-> selected,
                before |-> grants[target], seenOwner |-> owner])

AnyoneRemovable(target) == TRUE
Removable(target) == target # owner

BeginRemove(q, actor, target) ==
    /\ actor # target
    /\ ManagesMembers(actor)
    /\ Removable(target)
    /\ Begin(q, [pc |-> "begun", op |-> "remove", actor |-> actor,
                target |-> target, selected |-> {},
                before |-> grants[target], seenOwner |-> owner])

BeginAppoint(q, actor, target) ==
    /\ Privileged(actor)
    /\ target # owner /\ target \notin managers
    /\ Begin(q, [Idle EXCEPT !.pc = "begun", !.op = "appoint", !.target = target])

BeginRevoke(q, actor, target) ==
    /\ Privileged(actor)
    /\ Begin(q, [Idle EXCEPT !.pc = "begun", !.op = "revoke", !.target = target])

\* transfer_space_ownership takes no snapshot: its first read locks the space.
BeginTransfer(q, actor, target) ==
    /\ SpaceIsFree
    /\ Len(transfers) < MaxTransfers
    /\ actor = owner /\ target # owner
    /\ Begin(q, [Idle EXCEPT !.pc = "begun", !.op = "transfer", !.target = target,
                          !.seenOwner = owner])

----------------------------------------------------------------------------
\* The membership of the target, SELECT ... FOR UPDATE.
WantsMember(q) == request[q].pc = "begun" /\ request[q].op # "revoke"

AnyTarget(r) == TRUE
TargetIsMember(r) == r.target \in members

LockMember(q) ==
    /\ WantsMember(q) /\ MemberIsFree(request[q].target)
    /\ TargetIsMember(request[q])
    /\ request' = [request EXCEPT ![q].pc = "memberLocked"]
    /\ audit' = None
    /\ UNCHANGED tables

\* Mutant: a target that is no member is looked for again.
RetryTarget(q) ==
    /\ WantsMember(q) /\ MemberIsFree(request[q].target)
    /\ ~ TargetIsMember(request[q])
    /\ audit' = None
    /\ UNCHANGED <<owner, members, grants, managers, transfers, request>>

\* not_member, target_not_member.
RefuseTarget(q) ==
    /\ WantsMember(q) /\ MemberIsFree(request[q].target)
    /\ ~ TargetIsMember(request[q])
    /\ Finish(q)
    /\ audit' = None
    /\ UNCHANGED tables

\* Mutant: the row lacks a column.
RowWithoutAfter(r, after) ==
    [actor |-> r.actor, target |-> r.target, before |-> r.before]
AuditRow(r, after) ==
    [actor |-> r.actor, target |-> r.target, before |-> r.before, after |-> after]

CommitPermissions(q) ==
    LET r == request[q] IN
    /\ r.op = "permissions" /\ r.pc = "memberLocked" /\ SpaceIsFree
    /\ grants' = [grants EXCEPT ![r.target] = r.selected]
    /\ audit' = AuditRow(r, r.selected)
    /\ Finish(q)
    /\ UNCHANGED <<owner, members, managers, transfers>>

\* The grants and the membership are deleted; the delegation goes with the
\* membership (ON DELETE CASCADE).
WithoutCascade(a) == managers
WithoutManager(a) == managers \ {a}

CommitRemove(q) ==
    LET r == request[q] IN
    /\ r.op = "remove" /\ r.pc = "memberLocked" /\ SpaceIsFree
    /\ grants' = [grants EXCEPT ![r.target] = {}]
    /\ members' = members \ {r.target}
    /\ managers' = WithoutManager(r.target)
    /\ audit' = AuditRow(r, {})
    /\ Finish(q)
    /\ UNCHANGED <<owner, transfers>>

CommitAppoint(q) ==
    LET r == request[q] IN
    /\ r.op = "appoint" /\ r.pc = "memberLocked" /\ SpaceIsFree
    /\ r.target \notin managers
    /\ managers' = managers \cup {r.target}
    /\ audit' = None
    /\ Finish(q)
    /\ UNCHANGED <<owner, members, grants, transfers>>

\* Another request has appointed the target since the snapshot: the primary key
\* of space_managers refuses the row.
RefuseAppoint(q) ==
    LET r == request[q] IN
    /\ r.op = "appoint" /\ r.pc = "memberLocked"
    /\ r.target \in managers
    /\ audit' = None
    /\ Finish(q)
    /\ UNCHANGED tables

CommitRevoke(q) ==
    LET r == request[q] IN
    /\ r.op = "revoke" /\ r.pc = "begun" /\ SpaceIsFree
    /\ r.target \in managers
    /\ managers' = managers \ {r.target}
    /\ audit' = None
    /\ Finish(q)
    /\ UNCHANGED <<owner, members, grants, transfers>>

\* not_manager.
RefuseRevoke(q) ==
    LET r == request[q] IN
    /\ r.op = "revoke" /\ r.pc = "begun"
    /\ r.target \notin managers
    /\ audit' = None
    /\ Finish(q)
    /\ UNCHANGED tables

CommitTransfer(q) ==
    LET r == request[q] IN
    /\ r.op = "transfer" /\ r.pc = "memberLocked"
    /\ owner' = r.target
    /\ transfers' = Append(transfers, [previous |-> r.seenOwner, new |-> r.target])
    /\ audit' = None
    /\ Finish(q)
    /\ UNCHANGED <<members, grants, managers>>

----------------------------------------------------------------------------
\* An account accepts an invitation (accept_invitation): it becomes a member
\* with the grants its inviter chose, in one transaction.
Join(a, invited) ==
    /\ a \notin members /\ SpaceIsFree
    /\ members' = members \cup {a}
    /\ grants' = [grants EXCEPT ![a] = invited]
    /\ audit' = None
    /\ UNCHANGED <<owner, managers, transfers, request>>

\* Two transactions wait for each other: one holds a membership and has its audit
\* row to insert, the other transfers the ownership to that member.
Deadlocked(q) ==
    /\ request[q].op \in {"permissions", "remove", "appoint"}
    /\ request[q].pc = "memberLocked"
    /\ \E p \in Requests : /\ LocksSpace(request[p]) /\ request[p].pc = "begun"
                           /\ request[p].target = request[q].target

\* InnoDB rolls one of them back, and its request fails.
Victim(q) ==
    /\ \/ Deadlocked(q)
       \/ \E p \in Requests : /\ Deadlocked(p) /\ LocksSpace(request[q])
                              /\ request[q].target = request[p].target
    /\ Finish(q)
    /\ audit' = None
    /\ UNCHANGED tables

\* A failed statement, a lock wait that times out, a client that disconnects or
\* a crash: the transaction is rolled back.
Abandon(q) ==
    /\ request[q].pc # "idle"
    /\ Finish(q)
    /\ audit' = None
    /\ UNCHANGED tables

ServerStep(q) ==
    \/ LockMember(q) \/ RefuseTarget(q)
    \/ CommitPermissions(q) \/ CommitRemove(q)
    \/ CommitAppoint(q) \/ RefuseAppoint(q)
    \/ CommitRevoke(q) \/ RefuseRevoke(q)
    \/ CommitTransfer(q)
    \/ Victim(q)

Arrival(q) == \E actor, target \in Accounts :
    \/ \E selected \in SUBSET Permissions : BeginPermissions(q, actor, target, selected)
    \/ BeginRemove(q, actor, target)
    \/ BeginAppoint(q, actor, target)
    \/ BeginRevoke(q, actor, target)
    \/ BeginTransfer(q, actor, target)

Next ==
    \/ \E q \in Requests : Arrival(q) \/ ServerStep(q) \/ Abandon(q)
    \/ \E a \in Accounts, invited \in SUBSET Permissions \ {{}} : Join(a, invited)

Spec == Init /\ [][Next]_vars

\* A handler that can go on does; a transaction that keeps finding free the row
\* it waits for gets it, and InnoDB's deadlock detection is always running.
FairSpec == Spec /\ \A q \in Requests : SF_vars(ServerStep(q))

----------------------------------------------------------------------------
TypeOK ==
    /\ owner \in Accounts
    /\ members \subseteq Accounts
    /\ grants \in [Accounts -> SUBSET Permissions]
    /\ managers \subseteq Accounts
    /\ transfers \in Seq([previous : Accounts, new : Accounts])
    /\ audit \in [actor : Accounts, target : Accounts, before : SUBSET Permissions,
                  after : SUBSET Permissions] \cup {None}
    /\ request \in [Requests -> Request]

\* Rights and delegations never outlive the membership they belong to, nor are
\* they given to an account whose membership is being removed meanwhile.
NothingOutlivesAMembership ==
    /\ \A a \in Accounts \ members : grants[a] = {}
    /\ managers \subseteq members

\* The ownership only ever passes to an account that is a member at that moment,
\* whoever is being removed at the same time.
OwnershipPassesToMembers == [][owner' # owner => owner' \in members']_vars

\* The journal of ownership tells how the space came from its founder to its
\* owner, each transfer made by the owner the one before it had named.
OwnersFollowEachOther ==
    LET Named(k) == IF k = 0 THEN Founder ELSE transfers[k].new
    IN  /\ \A k \in 1 .. Len(transfers) : transfers[k].previous = Named(k - 1)
        /\ owner = Named(Len(transfers))

\* The owner loses its membership or a core grant only to a request that read
\* the space before it became the owner: every other request is refused.
OnlyStaleRequestsHurtTheOwner ==
    [][\/ owner \in members /\ owner \notin members'
       \/ Core \subseteq grants[owner] /\ ~ Core \subseteq grants'[owner]
       => \E q \in Requests : /\ request[q].target = owner
                              /\ request[q].seenOwner # owner
                              /\ request'[q] = Idle]_vars

\* A request for the members of a space always ends.
EveryRequestEnds == \A q \in Requests : request[q].pc # "idle" ~> request[q].pc = "idle"

\* What the repository says of these tables, and does not keep.

\* "The current owner cannot be removed" (remove_member).
OwnerIsAMember == owner \in members

\* "Persist the actor, target and exact grant transition" (202609230002).
AuditIsExact ==
    [][audit' # None => /\ audit'.before = grants[audit'.target]
                        /\ audit'.after = grants'[audit'.target]]_vars

\* A manager may "manage other members (never the owner and never other
\* managers)" (202609240002).
ManagersLeaveManagersAlone ==
    [][audit' # None /\ audit'.target \in managers => Privileged(audit'.actor)]_vars
=============================================================================
