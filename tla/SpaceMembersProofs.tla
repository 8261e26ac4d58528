------------------------ MODULE SpaceMembersProofs ------------------------
(***************************************************************************)
(* The requests for the members of a space keep rights, delegations and    *)
(* ownership with its members, and its journal of ownership whole, for     *)
(* every number of requests, accounts, permissions and transfers.          *)
(***************************************************************************)
EXTENDS SpaceMembers, TLAPS

\* Two requests that lock no row both.
Apart(r, t) ==
    /\ ~ (LocksSpace(r) /\ LocksSpace(t))
    /\ \A a \in Accounts : ~ (LocksMember(r, a) /\ LocksMember(t, a))

\* No row lock has two holders.
LocksExclude ==
    \A p, q \in Requests : p # q => Apart(request[p], request[q])

\* What a request in progress may rely on: the membership it has locked, and,
\* having locked the space, its owner.  What it decided, it decided of the owner
\* in its snapshot, who may be another by now.
RequestOK(r) ==
    r.pc # "idle" =>
        /\ r.op \in {"permissions", "remove", "appoint", "revoke", "transfer"}
        /\ r.target \in Accounts
        /\ r.op \in {"permissions", "remove"} => r.actor \in Accounts
        /\ r.op = "remove" => r.target # r.seenOwner
        /\ r.op = "permissions" /\ r.target = r.seenOwner => Core \subseteq r.selected
        /\ r.op = "transfer" => r.seenOwner = owner
        /\ r.pc = "memberLocked" => r.op # "revoke" /\ r.target \in members

RequestsOK == \A q \in Requests : RequestOK(request[q])

IInv ==
    /\ TypeOK
    /\ LocksExclude
    /\ RequestsOK
    /\ NothingOutlivesAMembership
    /\ OwnersFollowEachOther

----------------------------------------------------------------------------
\* With no request in progress nothing is locked or relied on.
LEMMA InitIInv == Init => IInv
<1> SUFFICES ASSUME Init PROVE IInv
  OBVIOUS
<1>1. Idle \in Request /\ Idle.pc = "idle"
  BY DEF Idle, Request
<1>2. TypeOK
  BY <1>1, FounderAssumption, GrantsAssumption DEF Init, TypeOK
<1>3. \A q \in Requests : request[q].pc = "idle"
  BY <1>1 DEF Init
<1>4. LocksExclude /\ RequestsOK
  BY <1>3 DEF LocksExclude, Apart, LocksSpace, LocksMember, RequestsOK, RequestOK
<1>5. NothingOutlivesAMembership
  BY DEF Init, NothingOutlivesAMembership
<1>6. OwnersFollowEachOther
  BY DEF Init, OwnersFollowEachOther
<1> QED BY <1>2, <1>4, <1>5, <1>6 DEF IInv

\* A step that gives one request a new record keeps the locks apart, if the new
\* record shares none with another request.
LEMMA LocksStayApart ==
    ASSUME IInv, NEW q \in Requests, NEW r \in Request,
           request' = [request EXCEPT ![q] = r],
           \A p \in Requests \ {q} : Apart(request[p], r)
    PROVE  LocksExclude'
<1>1. \A p \in Requests : request'[p] = IF p = q THEN r ELSE request[p]
  BY DEF IInv, TypeOK
<1>2. \A p, t \in Requests : p # t => Apart(request[p], request[t])
  BY DEF IInv, LocksExclude
<1>3. \A p \in Requests \ {q} : Apart(request[p], r) /\ Apart(r, request[p])
  BY DEF Apart
<1>4. \A p, t \in Requests : p # t => Apart(request'[p], request'[t])
  BY <1>1, <1>2, <1>3
<1> QED BY <1>4 DEF LocksExclude, Apart, LocksSpace, LocksMember

\* If the tables are left alone, it is enough that the new record is right.
LEMMA RequestStep ==
    ASSUME IInv, NEW q \in Requests, NEW r \in Request,
           request' = [request EXCEPT ![q] = r], UNCHANGED tables, audit' = None,
           RequestOK(r), \A p \in Requests \ {q} : Apart(request[p], r)
    PROVE  IInv'
<1>1. \A p \in Requests : request'[p] = IF p = q THEN r ELSE request[p]
  BY DEF IInv, TypeOK
<1>2. TypeOK'
  BY DEF IInv, TypeOK, tables
<1>3. LocksExclude'
  BY LocksStayApart
<1>4. RequestsOK'
  <2> SUFFICES ASSUME NEW p \in Requests PROVE RequestOK(request[p])'
    BY DEF RequestsOK
  <2>1. RequestOK(request'[p])
    BY <1>1 DEF IInv, RequestsOK
  <2> QED BY <2>1 DEF RequestOK, tables
<1>5. NothingOutlivesAMembership' /\ OwnersFollowEachOther'
  BY DEF IInv, NothingOutlivesAMembership, OwnersFollowEachOther, tables
<1> QED BY <1>2, <1>3, <1>4, <1>5 DEF IInv

\* A record that holds no lock is apart from every other.
LEMMA NoLock ==
    ASSUME NEW r, NEW t, r.pc # "memberLocked", r.op # "transfer" \/ r.pc = "idle"
    PROVE  Apart(t, r)
BY DEF Apart, LocksSpace, LocksMember

\* The record of a request that is over.
LEMMA IdleIsRight ==
    /\ Idle \in Request /\ RequestOK(Idle) /\ Idle.pc = "idle"
    /\ \A t : Apart(t, Idle)
<1>1. Idle \in Request /\ Idle.pc = "idle"
  BY DEF Idle, Request
<1>2. RequestOK(Idle)
  BY <1>1 DEF RequestOK
<1> QED BY <1>1, <1>2, NoLock

\* A request that ends without writing leaves everything as it was.
LEMMA FinishStep ==
    ASSUME IInv, NEW q \in Requests, Finish(q), UNCHANGED tables, audit' = None
    PROVE  IInv'
<1>1. request' = [request EXCEPT ![q] = Idle]
  BY DEF Finish
<1> QED BY <1>1, IdleIsRight, RequestStep

----------------------------------------------------------------------------
\* The arrivals.  A request that will write an audit row, or a delegation, holds
\* no lock yet, and has decided of the owner it sees.
LEMMA BeginPermissionsStep ==
    ASSUME IInv, NEW q \in Requests, NEW actor \in Accounts, NEW target \in Accounts,
           NEW selected \in SUBSET Permissions,
           BeginPermissions(q, actor, target, selected)
    PROVE  IInv'
<1> DEFINE r == [pc |-> "begun", op |-> "permissions", actor |-> actor,
                 target |-> target, selected |-> selected,
                 before |-> grants[target], seenOwner |-> owner]
<1>1. r \in Request
  BY DEF Request, IInv, TypeOK
<1>2. /\ r.pc = "begun" /\ r.op = "permissions" /\ r.actor = actor
      /\ r.target = target /\ r.selected = selected /\ r.seenOwner = owner
  OBVIOUS
<1>3. /\ request' = [request EXCEPT ![q] = r] /\ UNCHANGED tables /\ audit' = None
      /\ target = owner => Core \subseteq selected
  BY DEF BeginPermissions, Begin, MayBeGranted
<1> HIDE DEF r
<1>4. RequestOK(r)
  BY <1>2, <1>3 DEF RequestOK
<1>5. \A p \in Requests : Apart(request[p], r)
  BY <1>2, NoLock
<1> QED BY <1>1, <1>3, <1>4, <1>5, RequestStep

LEMMA BeginRemoveStep ==
    ASSUME IInv, NEW q \in Requests, NEW actor \in Accounts, NEW target \in Accounts,
           BeginRemove(q, actor, target)
    PROVE  IInv'
<1> DEFINE r == [pc |-> "begun", op |-> "remove", actor |-> actor,
                 target |-> target, selected |-> {},
                 before |-> grants[target], seenOwner |-> owner]
<1>1. r \in Request
  BY DEF Request, IInv, TypeOK
<1>2. /\ r.pc = "begun" /\ r.op = "remove" /\ r.actor = actor
      /\ r.target = target /\ r.seenOwner = owner
  OBVIOUS
<1>3. /\ request' = [request EXCEPT ![q] = r] /\ UNCHANGED tables /\ audit' = None
      /\ target # owner
  BY DEF BeginRemove, Begin, Removable
<1> HIDE DEF r
<1>4. RequestOK(r)
  BY <1>2, <1>3 DEF RequestOK
<1>5. \A p \in Requests : Apart(request[p], r)
  BY <1>2, NoLock
<1> QED BY <1>1, <1>3, <1>4, <1>5, RequestStep

LEMMA BeginDelegationStep ==
    ASSUME IInv, NEW q \in Requests, NEW actor \in Accounts, NEW target \in Accounts,
           BeginAppoint(q, actor, target) \/ BeginRevoke(q, actor, target)
    PROVE  IInv'
<1>1. PICK op \in {"appoint", "revoke"} :
          Begin(q, [Idle EXCEPT !.pc = "begun", !.op = op, !.target = target])
  BY DEF BeginAppoint, BeginRevoke
<1> DEFINE r == [Idle EXCEPT !.pc = "begun", !.op = op, !.target = target]
<1>2. r \in Request /\ r.pc = "begun" /\ r.op = op /\ r.target = target
  BY DEF Request, Idle
<1>3. request' = [request EXCEPT ![q] = r] /\ UNCHANGED tables /\ audit' = None
  BY <1>1 DEF Begin
<1> HIDE DEF r
<1>4. RequestOK(r)
  BY <1>2 DEF RequestOK
<1>5. \A p \in Requests : Apart(request[p], r)
  BY <1>2, NoLock
<1> QED BY <1>2, <1>3, <1>4, <1>5, RequestStep

\* A transfer starts by locking the space, and knows its owner from then on.
LEMMA BeginTransferStep ==
    ASSUME IInv, NEW q \in Requests, NEW actor \in Accounts, NEW target \in Accounts,
           BeginTransfer(q, actor, target)
    PROVE  IInv'
<1> DEFINE r == [Idle EXCEPT !.pc = "begun", !.op = "transfer", !.target = target,
                             !.seenOwner = owner]
<1>1. /\ r \in Request /\ r.pc = "begun" /\ r.op = "transfer" /\ r.target = target
      /\ r.seenOwner = owner
  BY DEF Request, Idle, IInv, TypeOK
<1>2. /\ request' = [request EXCEPT ![q] = r] /\ UNCHANGED tables /\ audit' = None
      /\ SpaceIsFree
  BY DEF BeginTransfer, Begin
<1> HIDE DEF r
<1>3. RequestOK(r)
  BY <1>1 DEF RequestOK
<1>4. \A p \in Requests : Apart(request[p], r)
  BY <1>1, <1>2 DEF Apart, SpaceIsFree, LocksMember
<1> QED BY <1>1, <1>2, <1>3, <1>4, RequestStep

----------------------------------------------------------------------------
\* The membership was there, and nobody held it.
LEMMA LockMemberStep ==
    ASSUME IInv, NEW q \in Requests, LockMember(q)
    PROVE  IInv'
<1> DEFINE r == [request[q] EXCEPT !.pc = "memberLocked"]
<1>1. request[q] \in Request /\ RequestOK(request[q])
  BY DEF IInv, TypeOK, RequestsOK
<1>2. /\ r \in Request /\ r.pc = "memberLocked" /\ r.op = request[q].op
      /\ r.actor = request[q].actor /\ r.target = request[q].target
      /\ r.selected = request[q].selected /\ r.seenOwner = request[q].seenOwner
  BY <1>1 DEF Request
<1>3. /\ request' = [request EXCEPT ![q] = r] /\ UNCHANGED tables /\ audit' = None
      /\ request[q].pc = "begun" /\ request[q].op # "revoke"
      /\ MemberIsFree(r.target) /\ r.target \in members
  BY <1>1, <1>2 DEF LockMember, WantsMember, TargetIsMember, IInv, TypeOK
<1> HIDE DEF r
<1>4. RequestOK(r)
  BY <1>1, <1>2, <1>3 DEF RequestOK
<1>5. ASSUME NEW p \in Requests \ {q} PROVE Apart(request[p], r)
  <2>1. Apart(request[p], request[q])
    BY DEF IInv, LocksExclude
  <2> QED BY <1>2, <1>3, <2>1 DEF Apart, LocksSpace, LocksMember, MemberIsFree
<1> QED BY <1>2, <1>3, <1>4, <1>5, RequestStep

----------------------------------------------------------------------------
(* The commits: the request is over, and the others may still rely on what *)
(* they have locked.                                                       *)

LEMMA Release ==
    ASSUME IInv, NEW q \in Requests, Finish(q)
    PROVE  /\ request' \in [Requests -> Request] /\ LocksExclude'
           /\ \A p \in Requests : request'[p] = IF p = q THEN Idle ELSE request[p]
<1>1. request' = [request EXCEPT ![q] = Idle]
  BY DEF Finish
<1>2. LocksExclude'
  BY <1>1, IdleIsRight, LocksStayApart
<1> QED BY <1>1, <1>2, IdleIsRight DEF IInv, TypeOK

\* If neither the owner nor the members change, the others rely on what they did.
LEMMA OthersRely ==
    ASSUME IInv, NEW q \in Requests, Finish(q), UNCHANGED <<owner, members>>
    PROVE  RequestsOK'
<1> SUFFICES ASSUME NEW p \in Requests PROVE RequestOK(request[p])'
  BY DEF RequestsOK
<1>1. RequestOK(request'[p])
  BY Release, IdleIsRight DEF IInv, RequestsOK
<1> QED BY <1>1 DEF RequestOK

\* Rights are granted to a member, whose membership stays locked until then.
LEMMA CommitPermissionsStep ==
    ASSUME IInv, NEW q \in Requests, CommitPermissions(q)
    PROVE  IInv'
<1> DEFINE r == request[q]
<1>1. r \in Request /\ RequestOK(r) /\ r.op = "permissions" /\ r.pc = "memberLocked"
  BY DEF IInv, TypeOK, RequestsOK, CommitPermissions
<1>2. r.target \in members /\ r.target \in Accounts /\ r.actor \in Accounts
  BY <1>1 DEF RequestOK
<1>3. /\ Finish(q) /\ UNCHANGED <<owner, members, managers, transfers>>
      /\ grants' = [grants EXCEPT ![r.target] = r.selected]
      /\ audit' = [actor |-> r.actor, target |-> r.target, before |-> r.before,
                   after |-> r.selected]
  BY DEF CommitPermissions, AuditRow
<1>4. r.selected \subseteq Permissions /\ r.before \subseteq Permissions
  BY <1>1 DEF Request
<1> HIDE DEF r
<1>5. TypeOK'
  BY <1>2, <1>3, <1>4, Release DEF IInv, TypeOK
<1>6. NothingOutlivesAMembership'
  BY <1>2, <1>3 DEF IInv, TypeOK, NothingOutlivesAMembership
<1>7. OwnersFollowEachOther'
  BY <1>3 DEF IInv, OwnersFollowEachOther
<1> QED BY <1>3, <1>5, <1>6, <1>7, Release, OthersRely DEF IInv

\* The rights and the delegation go with the membership, which no other request
\* has locked.
LEMMA CommitRemoveStep ==
    ASSUME IInv, NEW q \in Requests, CommitRemove(q)
    PROVE  IInv'
<1> DEFINE r == request[q]
<1>1. r \in Request /\ RequestOK(r) /\ r.op = "remove" /\ r.pc = "memberLocked"
  BY DEF IInv, TypeOK, RequestsOK, CommitRemove
<1>2. r.target \in members /\ r.target \in Accounts /\ r.actor \in Accounts
  BY <1>1 DEF RequestOK
<1>3. /\ Finish(q) /\ UNCHANGED <<owner, transfers>>
      /\ grants' = [grants EXCEPT ![r.target] = {}]
      /\ members' = members \ {r.target}
      /\ managers' = managers \ {r.target}
      /\ audit' = [actor |-> r.actor, target |-> r.target, before |-> r.before,
                   after |-> {}]
  BY DEF CommitRemove, AuditRow, WithoutManager
<1>4. r.before \subseteq Permissions
  BY <1>1 DEF Request
<1>5. TypeOK'
  BY <1>2, <1>3, <1>4, Release DEF IInv, TypeOK
<1>6. NothingOutlivesAMembership'
  BY <1>2, <1>3 DEF IInv, TypeOK, NothingOutlivesAMembership
<1>7. OwnersFollowEachOther'
  BY <1>3 DEF IInv, OwnersFollowEachOther
<1>8. RequestsOK'
  <2> SUFFICES ASSUME NEW p \in Requests PROVE RequestOK(request[p])'
    BY DEF RequestsOK
  <2>1. CASE p = q
    BY <1>3, <2>1, Release, IdleIsRight DEF RequestOK
  <2>2. CASE p # q
    <3>1. request'[p] = request[p] /\ RequestOK(request[p])
      BY <1>3, <2>2, Release DEF IInv, RequestsOK
    <3>2. Apart(request[p], r)
      BY <2>2 DEF IInv, LocksExclude
    <3>3. request[p].pc = "memberLocked" => request[p].target # r.target
      BY <1>1, <1>2, <3>2 DEF Apart, LocksMember
    <3> QED BY <1>3, <3>1, <3>3 DEF RequestOK
  <2> QED BY <2>1, <2>2
<1> QED BY <1>3, <1>5, <1>6, <1>7, <1>8, Release DEF IInv

\* A manager is appointed among the members.
LEMMA CommitAppointStep ==
    ASSUME IInv, NEW q \in Requests, CommitAppoint(q)
    PROVE  IInv'
<1> DEFINE r == request[q]
<1>1. RequestOK(r) /\ r.pc = "memberLocked"
  BY DEF IInv, RequestsOK, CommitAppoint
<1>2. r.target \in members /\ r.target \in Accounts
  BY <1>1 DEF RequestOK
<1>3. /\ Finish(q) /\ UNCHANGED <<owner, members, grants, transfers>>
      /\ managers' = managers \cup {r.target} /\ audit' = None
  BY DEF CommitAppoint
<1>4. TypeOK' /\ NothingOutlivesAMembership' /\ OwnersFollowEachOther'
  BY <1>2, <1>3, Release DEF IInv, TypeOK, NothingOutlivesAMembership, OwnersFollowEachOther
<1> QED BY <1>3, <1>4, Release, OthersRely DEF IInv

LEMMA CommitRevokeStep ==
    ASSUME IInv, NEW q \in Requests, CommitRevoke(q)
    PROVE  IInv'
<1>1. /\ Finish(q) /\ UNCHANGED <<owner, members, grants, transfers>>
      /\ managers' = managers \ {request[q].target} /\ audit' = None
  BY DEF CommitRevoke
<1>2. TypeOK' /\ NothingOutlivesAMembership' /\ OwnersFollowEachOther'
  BY <1>1, Release DEF IInv, TypeOK, NothingOutlivesAMembership, OwnersFollowEachOther
<1> QED BY <1>1, <1>2, Release, OthersRely DEF IInv

\* The journal grows by one line.
LEMMA AppendToJournal ==
    ASSUME TypeOK, OwnersFollowEachOther, NEW new \in Accounts,
           transfers' = Append(transfers, [previous |-> owner, new |-> new]),
           owner' = new
    PROVE  /\ transfers' \in Seq([previous : Accounts, new : Accounts])
           /\ OwnersFollowEachOther'
<1> DEFINE line == [previous |-> owner, new |-> new]
<1>1. line \in [previous : Accounts, new : Accounts]
  BY DEF TypeOK
<1>2. transfers' \in Seq([previous : Accounts, new : Accounts])
  BY <1>1 DEF TypeOK
<1>3. /\ Len(transfers) \in Nat
      /\ Len(transfers') = Len(transfers) + 1
      /\ \A k \in 1 .. Len(transfers) : transfers'[k] = transfers[k]
      /\ transfers'[Len(transfers')] = line
  BY <1>1 DEF TypeOK
<1>4. owner = IF Len(transfers) = 0 THEN Founder ELSE transfers[Len(transfers)].new
  BY DEF OwnersFollowEachOther
<1>5. ASSUME NEW k \in 1 .. Len(transfers')
      PROVE  transfers'[k].previous =
                 IF k - 1 = 0 THEN Founder ELSE transfers'[k - 1].new
  <2>1. CASE k = Len(transfers')
    BY <1>3, <1>4, <2>1
  <2>2. CASE k \in 1 .. Len(transfers)
    <3>1. transfers[k].previous = IF k - 1 = 0 THEN Founder ELSE transfers[k - 1].new
      BY <2>2 DEF OwnersFollowEachOther
    <3> QED BY <1>3, <2>2, <3>1
  <2> QED BY <1>3, <2>1, <2>2
<1>6. owner' = IF Len(transfers') = 0 THEN Founder ELSE transfers'[Len(transfers')].new
  BY <1>3
<1> QED BY <1>2, <1>5, <1>6 DEF OwnersFollowEachOther

\* No other transfer is in progress, so none relies on the former owner; and the
\* request that commits has seen that very owner.
LEMMA CommitTransferStep ==
    ASSUME IInv, NEW q \in Requests, CommitTransfer(q)
    PROVE  IInv' /\ owner' \in members'
<1> DEFINE r == request[q]
<1>1. r \in Request /\ RequestOK(r) /\ r.op = "transfer" /\ r.pc = "memberLocked"
  BY DEF IInv, TypeOK, RequestsOK, CommitTransfer
<1>2. r.target \in members /\ r.target \in Accounts /\ r.seenOwner = owner
  BY <1>1 DEF RequestOK
<1>3. /\ Finish(q) /\ UNCHANGED <<members, grants, managers>>
      /\ owner' = r.target /\ audit' = None
      /\ transfers' = Append(transfers, [previous |-> r.seenOwner, new |-> r.target])
  BY DEF CommitTransfer
<1>4. /\ transfers' \in Seq([previous : Accounts, new : Accounts])
      /\ OwnersFollowEachOther'
  BY <1>2, <1>3, AppendToJournal DEF IInv
<1>5. TypeOK' /\ NothingOutlivesAMembership'
  BY <1>2, <1>3, <1>4, Release DEF IInv, TypeOK, NothingOutlivesAMembership
<1>6. RequestsOK'
  <2> SUFFICES ASSUME NEW p \in Requests PROVE RequestOK(request[p])'
    BY DEF RequestsOK
  <2>1. CASE p = q
    BY <1>3, <2>1, Release, IdleIsRight DEF RequestOK
  <2>2. CASE p # q
    <3>1. request'[p] = request[p] /\ RequestOK(request[p])
      BY <1>3, <2>2, Release DEF IInv, RequestsOK
    <3>2. Apart(request[p], r)
      BY <2>2 DEF IInv, LocksExclude
    <3>3. request[p].pc = "idle" \/ request[p].op # "transfer"
      BY <1>1, <3>2 DEF Apart, LocksSpace
    <3> QED BY <1>3, <3>1, <3>3 DEF RequestOK
  <2> QED BY <2>1, <2>2
<1> QED BY <1>2, <1>3, <1>4, <1>5, <1>6, Release DEF IInv

\* A new member disturbs nobody.
LEMMA JoinStep ==
    ASSUME IInv, NEW a \in Accounts, NEW invited \in SUBSET Permissions,
           Join(a, invited)
    PROVE  IInv'
<1>1. /\ members' = members \cup {a} /\ grants' = [grants EXCEPT ![a] = invited]
      /\ audit' = None /\ UNCHANGED <<owner, managers, transfers, request>>
  BY DEF Join
<1>2. TypeOK' /\ NothingOutlivesAMembership' /\ OwnersFollowEachOther'
  BY <1>1 DEF IInv, TypeOK, NothingOutlivesAMembership, OwnersFollowEachOther
<1>3. LocksExclude' /\ RequestsOK'
  BY <1>1 DEF IInv, LocksExclude, Apart, LocksSpace, LocksMember, RequestsOK, RequestOK
<1> QED BY <1>2, <1>3 DEF IInv

----------------------------------------------------------------------------
LEMMA ArrivalStep ==
    ASSUME IInv, NEW q \in Requests, Arrival(q)
    PROVE  IInv'
<1>1. PICK actor \in Accounts, target \in Accounts :
          \/ \E selected \in SUBSET Permissions :
                 BeginPermissions(q, actor, target, selected)
          \/ BeginRemove(q, actor, target)
          \/ BeginAppoint(q, actor, target)
          \/ BeginRevoke(q, actor, target)
          \/ BeginTransfer(q, actor, target)
  BY DEF Arrival
<1> QED BY <1>1, BeginPermissionsStep, BeginRemoveStep, BeginDelegationStep,
           BeginTransferStep

LEMMA ServerKeepsIInv ==
    ASSUME IInv, NEW q \in Requests, ServerStep(q)
    PROVE  IInv'
<1>1. CASE RefuseTarget(q) \/ RefuseAppoint(q) \/ RefuseRevoke(q) \/ Victim(q)
  BY <1>1, FinishStep DEF RefuseTarget, RefuseAppoint, RefuseRevoke, Victim
<1> QED BY <1>1, LockMemberStep, CommitPermissionsStep, CommitRemoveStep,
           CommitAppointStep, CommitRevokeStep, CommitTransferStep DEF ServerStep

LEMMA StepIInv == IInv /\ [Next]_vars => IInv'
<1> SUFFICES ASSUME IInv, [Next]_vars PROVE IInv'
  OBVIOUS
<1>1. CASE UNCHANGED vars
  <2>1. TypeOK'
    BY <1>1 DEF IInv, TypeOK, vars, tables
  <2>2. LocksExclude' /\ RequestsOK'
    BY <1>1 DEF IInv, LocksExclude, Apart, LocksSpace, LocksMember, RequestsOK,
            RequestOK, vars, tables
  <2>3. NothingOutlivesAMembership' /\ OwnersFollowEachOther'
    BY <1>1 DEF IInv, NothingOutlivesAMembership, OwnersFollowEachOther, vars, tables
  <2> QED BY <2>1, <2>2, <2>3 DEF IInv
<1>2. ASSUME NEW q \in Requests, Arrival(q) PROVE IInv'
  BY <1>2, ArrivalStep
<1>3. ASSUME NEW q \in Requests, ServerStep(q) PROVE IInv'
  BY <1>3, ServerKeepsIInv
<1>4. ASSUME NEW q \in Requests, Abandon(q) PROVE IInv'
  BY <1>4, FinishStep DEF Abandon
<1>5. ASSUME NEW a \in Accounts, NEW invited \in SUBSET Permissions, Join(a, invited)
      PROVE  IInv'
  BY <1>5, JoinStep
<1> QED BY <1>1, <1>2, <1>3, <1>4, <1>5 DEF Next

LEMMA Invariance == Spec => []IInv
BY InitIInv, StepIInv, PTL DEF Spec

----------------------------------------------------------------------------
\* The state of a space is always of its type.
THEOREM MembersTypeCorrect == Spec => []TypeOK
<1>1. IInv => TypeOK
  BY DEF IInv
<1> QED BY <1>1, Invariance, PTL

\* Rights and delegations never outlive the membership they belong to, whatever
\* requests for the same account cross.
THEOREM RightsEndWithMembership == Spec => []NothingOutlivesAMembership
<1>1. IInv => NothingOutlivesAMembership
  BY DEF IInv
<1> QED BY <1>1, Invariance, PTL

\* The journal of ownership is a chain from the founder to the owner.
THEOREM OwnershipIsAChain == Spec => []OwnersFollowEachOther
<1>1. IInv => OwnersFollowEachOther
  BY DEF IInv
<1> QED BY <1>1, Invariance, PTL

\* What a step may do to the owner and to what it holds.  Only a transfer names
\* another owner; only a request that removes the owner or lowers its rights,
\* and read the space when it had another owner, takes anything from it.
LEMMA StepSparesTheOwner ==
    ASSUME IInv, [Next]_vars,
           \/ owner \in members /\ owner \notin members'
           \/ Core \subseteq grants[owner] /\ ~ Core \subseteq grants'[owner]
    PROVE  \E q \in Requests : /\ request[q].target = owner
                               /\ request[q].seenOwner # owner
                               /\ request'[q] = Idle
<1>1. CASE UNCHANGED <<members, grants>>
  BY <1>1
<1>2. ASSUME NEW q \in Requests, CommitPermissions(q) \/ CommitRemove(q)
      PROVE  /\ request[q].target = owner
             /\ request[q].seenOwner # owner
             /\ request'[q] = Idle
  <2>1. /\ request[q].pc # "idle" /\ RequestOK(request[q]) /\ request'[q] = Idle
        /\ request[q].target \in Accounts
    BY <1>2, Release DEF IInv, RequestsOK, RequestOK, CommitPermissions, CommitRemove
  <2>2. CASE CommitPermissions(q)
    <3>1. /\ members' = members /\ request[q].op = "permissions"
          /\ grants' = [grants EXCEPT ![request[q].target] = request[q].selected]
      BY <2>2 DEF CommitPermissions
    <3>2. request[q].target = owner /\ ~ Core \subseteq request[q].selected
      BY <3>1 DEF IInv, TypeOK
    <3> QED BY <2>1, <3>1, <3>2 DEF RequestOK
  <2>3. CASE CommitRemove(q)
    <3>1. /\ members' = members \ {request[q].target} /\ request[q].op = "remove"
          /\ grants' = [grants EXCEPT ![request[q].target] = {}]
      BY <2>3 DEF CommitRemove
    <3>2. request[q].target = owner
      BY <3>1 DEF IInv, TypeOK
    <3> QED BY <2>1, <3>1, <3>2 DEF RequestOK
  <2> QED BY <1>2, <2>2, <2>3
<1>3. ASSUME NEW a \in Accounts, NEW invited \in SUBSET Permissions, Join(a, invited)
      PROVE  FALSE
  <2>1. /\ a \notin members /\ members' = members \cup {a}
        /\ grants' = [grants EXCEPT ![a] = invited]
    BY <1>3 DEF Join
  <2>2. grants[a] = {}
    BY <2>1 DEF IInv, NothingOutlivesAMembership
  <2> QED BY <2>1, <2>2 DEF IInv, TypeOK
<1>4. ASSUME NEW q \in Requests, Arrival(q) PROVE UNCHANGED <<members, grants>>
  BY <1>4 DEF Arrival, BeginPermissions, BeginRemove, BeginAppoint, BeginRevoke,
          BeginTransfer, Begin, tables
<1>5. ASSUME NEW q \in Requests, ServerStep(q), ~ CommitPermissions(q), ~ CommitRemove(q)
      PROVE  UNCHANGED <<members, grants>>
  BY <1>5 DEF ServerStep, LockMember, RefuseTarget, CommitAppoint, RefuseAppoint,
          CommitRevoke, RefuseRevoke, CommitTransfer, Victim, tables
<1>6. ASSUME NEW q \in Requests, Abandon(q) PROVE UNCHANGED <<members, grants>>
  BY <1>6 DEF Abandon, tables
<1>7. CASE UNCHANGED vars
  BY <1>1, <1>7 DEF vars, tables
<1> QED BY <1>1, <1>2, <1>3, <1>4, <1>5, <1>6, <1>7 DEF Next

\* The owner loses its membership or a core grant only to a request that read the
\* space before it became the owner.
THEOREM OwnerIsSpared == Spec => OnlyStaleRequestsHurtTheOwner
<1>1. IInv /\ [Next]_vars =>
          [\/ owner \in members /\ owner \notin members'
           \/ Core \subseteq grants[owner] /\ ~ Core \subseteq grants'[owner]
           => \E q \in Requests : /\ request[q].target = owner
                                  /\ request[q].seenOwner # owner
                                  /\ request'[q] = Idle]_vars
  BY StepSparesTheOwner
<1> QED BY <1>1, Invariance, PTL DEF Spec, OnlyStaleRequestsHurtTheOwner

\* The ownership only passes to an account that is a member at that moment.
THEOREM OwnershipStaysInside == Spec => OwnershipPassesToMembers
<1>1. ASSUME IInv, [Next]_vars, owner' # owner PROVE owner' \in members'
  <2>1. ASSUME NEW q \in Requests, Arrival(q) PROVE UNCHANGED owner
    BY <2>1 DEF Arrival, BeginPermissions, BeginRemove, BeginAppoint, BeginRevoke,
            BeginTransfer, Begin, tables
  <2>2. ASSUME NEW q \in Requests, ServerStep(q), ~ CommitTransfer(q)
        PROVE  UNCHANGED owner
    BY <2>2 DEF ServerStep, LockMember, RefuseTarget, CommitPermissions, CommitRemove,
            CommitAppoint, RefuseAppoint, CommitRevoke, RefuseRevoke, Victim, tables
  <2>3. ASSUME NEW q \in Requests, Abandon(q) PROVE UNCHANGED owner
    BY <2>3 DEF Abandon, tables
  <2>4. ASSUME NEW a \in Accounts, NEW invited \in SUBSET Permissions, Join(a, invited)
        PROVE  UNCHANGED owner
    BY <2>4 DEF Join
  <2>5. CASE UNCHANGED vars
    BY <1>1, <2>5 DEF vars, tables
  <2>6. PICK q \in Requests : CommitTransfer(q)
    <3>1. Next
      BY <1>1, <2>5 DEF vars, tables
    <3>2. ASSUME NEW q \in Requests, Arrival(q) \/ ServerStep(q) \/ Abandon(q)
          PROVE  CommitTransfer(q)
      BY <1>1, <2>1, <2>2, <2>3, <3>2
    <3> QED BY <1>1, <2>4, <3>1, <3>2 DEF Next
  <2> QED BY <1>1, <2>6, CommitTransferStep
<1>2. IInv /\ [Next]_vars => [owner' # owner => owner' \in members']_vars
  BY <1>1
<1> QED BY <1>2, Invariance, PTL DEF Spec, OwnershipPassesToMembers
=============================================================================
