---------------------------- MODULE Invitations ----------------------------
(***************************************************************************)
(* invitations.rs and its routes: an owner invites an e-mail address into  *)
(* a space, the link is sent, revoked, or accepted by its recipient, who   *)
(* becomes a member, with a new account if there was none.                 *)
(*                                                                         *)
(* Locks, held to the end of a transaction: issuing and revoking lock the  *)
(* space, then invitations; accepting locks the invitation, then the       *)
(* account (or the gap where it would be), then shares the space, to which *)
(* the new membership refers.  So the two may wait for one another.        *)
(***************************************************************************)
EXTENDS Naturals, Sequences, FiniteSets

CONSTANTS
    Spaces,
    People,          \* an e-mail address, and the account that may have it
    Founder,         \* the account that owns the spaces at first
    Grants,          \* the sets of permissions an invitation may carry
    Requests,        \* slots for the requests that are in progress at a time
    None,
    MaxInvitations,  \* bound: invitations ever issued
    MaxTransfers,    \* bound: transfers of ownership
    MaxExpired       \* bound: links that expire while they are open

ASSUME FounderAssumption == Founder \in People
ASSUME NoneAssumption == None \notin People \cup Spaces \cup Grants
ASSUME BoundAssumption ==
    MaxInvitations \in Nat /\ MaxTransfers \in Nat /\ MaxExpired \in Nat

VARIABLES
    owner,        \* spaces.owner_account_id
    accounts,     \* accounts: whose address has one
    members,      \* space_memberships, with the grants: None if not a member
    invitation,   \* space_invitations, in the order of their creation
    audit,        \* space_audit_events: the events of each invitation
    request,      \* what each slot is doing
    transferred   \* the spaces that have changed hands, in turn: what the snapshots
                  \* of the removals in progress may have seen before

tables == <<owner, accounts, members, invitation, audit>>
vars == <<tables, request, transferred>>

Row == [space : Spaces, email : People, grants : Grants,
        accepted : BOOLEAN, revoked : BOOLEAN, expired : BOOLEAN]

Request ==
    [op : {"issue", "revoke", "undo", "accept", None},
     pc : {"idle", "arrived", "spaceLocked", "mailing",
           "invitationLocked", "gapLocked", "accountLocked"},
     actor : People \cup {None},     \* None: not signed in
     space : Spaces \cup {None},
     email : People \cup {None},
     grants : Grants \cup {None},
     link : 0..MaxInvitations]       \* the invitation concerned, 0 if none

Idle == [op |-> None, pc |-> "idle", actor |-> None, space |-> None,
         email |-> None, grants |-> None, link |-> 0]

Links == DOMAIN invitation
Open(row) == ~ row.accepted /\ ~ row.revoked
\* validate_link.
Valid(row) == Open(row) /\ ~ row.expired

\* The type of the state.  Members have accounts.  (That an owner is a member is
\* not said: see RemoveMember.)
TypeOK ==
    /\ accounts \subseteq People
    /\ owner \in [Spaces -> accounts]
    /\ members \in [Spaces -> [People -> Grants \cup {None}]]
    /\ invitation \in Seq(Row) /\ Len(invitation) <= MaxInvitations
    /\ DOMAIN audit = Links
    /\ request \in [Requests -> Request]
    /\ \A s \in Spaces, p \in People : members[s][p] # None => p \in accounts
    /\ transferred \in Seq(Spaces) /\ Len(transferred) <= MaxTransfers

Init ==
    /\ owner = [s \in Spaces |-> Founder]
    /\ accounts = {Founder}
    /\ \E g \in Grants : members =
           [s \in Spaces |-> [p \in People |-> IF p = Founder THEN g ELSE None]]
    /\ invitation = <<>>
    /\ audit = <<>>
    /\ request = [q \in Requests |-> Idle]
    /\ transferred = <<>>

Goto(q, pc) == request' = [request EXCEPT ![q].pc = pc]
Finish(q) == request' = [request EXCEPT ![q] = Idle]
Begin(q, r) ==
    /\ request[q] = Idle
    /\ request' = [request EXCEPT ![q] = r]
    /\ UNCHANGED tables

----------------------------------------------------------------------------
(* Locks. *)

LocksSpace(r, s) == r.pc = "spaceLocked" /\ r.space = s
LocksLink(r, i) ==
    r.pc \in {"invitationLocked", "gapLocked", "accountLocked"} /\ r.link = i

\* Mutant: the owner is read without FOR UPDATE.
SpaceNotLocked(s) == TRUE
SpaceIsFree(s) == \A q \in Requests : ~ LocksSpace(request[q], s)

LinkIsFree(i) == \A q \in Requests : ~ LocksLink(request[q], i)

\* Who waits for whom.  The links that issuing or revoking changes:
Targets(r) ==
    IF r.op = "issue"
    THEN {i \in Links : /\ Open(invitation[i])
                        /\ invitation[i].space = r.space
                        /\ invitation[i].email = r.email}
    ELSE {r.link}

WaitsFor(r, p) ==
    \/ r.pc = "accountLocked" /\ LocksSpace(p, r.space)
    \/ r.pc = "spaceLocked" /\ \E i \in Targets(r) : LocksLink(p, i)
    \/ r.pc = "gapLocked" /\ p.pc = "gapLocked" /\ p.email = r.email

\* With these locks every cycle has two members.
Deadlocked(q) ==
    \E p \in Requests \ {q} : /\ WaitsFor(request[q], request[p])
                              /\ WaitsFor(request[p], request[q])

----------------------------------------------------------------------------
(* Issuing and revoking. *)

\* create_invitation reads the owner before any transaction.
ReceiveIssue(q, actor, s, email, g) ==
    /\ actor = owner[s]
    /\ Begin(q, [Idle EXCEPT !.op = "issue", !.pc = "arrived", !.actor = actor,
                             !.space = s, !.email = email, !.grants = g])

ReceiveRevoke(q, actor, s, i) ==
    /\ actor \in accounts /\ i \in Links
    /\ Begin(q, [Idle EXCEPT !.op = "revoke", !.pc = "arrived", !.actor = actor,
                             !.space = s, !.link = i])

MayGoOn(r) ==
    /\ r.actor = owner[r.space]
    /\ r.op = "issue" => members[r.space][r.email] = None

LockSpace(q) ==
    LET r == request[q] IN
    /\ r.pc = "arrived" /\ r.op # "accept"
    /\ SpaceIsFree(r.space)
    /\ IF MayGoOn(r) THEN Goto(q, "spaceLocked") ELSE Finish(q)
    /\ UNCHANGED tables

RevokeAll(links) ==
    [i \in Links |-> [invitation[i] EXCEPT !.revoked = @ \/ i \in links]]
AuditAll(links, event) ==
    [i \in Links |-> IF i \in links THEN Append(audit[i], event) ELSE audit[i]]

NewRow(r) == [space |-> r.space, email |-> r.email, grants |-> r.grants,
              accepted |-> FALSE, revoked |-> FALSE, expired |-> FALSE]

\* The links still open for this recipient are revoked, a new one is created,
\* and the message is about to be sent.
CommitIssue(q) ==
    LET r == request[q] IN
    /\ r.pc = "spaceLocked" /\ r.op = "issue"
    /\ Len(invitation) < MaxInvitations
    /\ \A i \in Targets(r) : LinkIsFree(i)
    /\ invitation' = Append(RevokeAll(Targets(r)), NewRow(r))
    /\ audit' = Append(AuditAll(Targets(r), "revoked"), <<"created">>)
    /\ request' = [request EXCEPT ![q].pc = "mailing", ![q].link = Len(invitation) + 1]
    /\ UNCHANGED <<owner, accounts, members>>

\* Bound: no invitation is left.
IssueStops(q) ==
    /\ request[q].pc = "spaceLocked" /\ request[q].op = "issue"
    /\ Len(invitation) = MaxInvitations
    /\ Finish(q)
    /\ UNCHANGED tables

MailSent(q) ==
    /\ request[q].pc = "mailing"
    /\ Finish(q)
    /\ UNCHANGED tables

\* The relay refuses, or its answer is lost: the link is revoked by a transaction
\* of its own.
MailFails(q) ==
    /\ request[q].pc = "mailing"
    /\ request' = [request EXCEPT ![q].op = "undo", ![q].pc = "arrived"]
    /\ UNCHANGED tables

\* Mutant: the link is looked for until it is found open.
RevokeUntilDone(q) ==
    LET r == request[q]
        links == {i \in {r.link} : Open(invitation[i]) /\ invitation[i].space = r.space} IN
    /\ r.pc = "spaceLocked" /\ r.op \in {"revoke", "undo"}
    /\ LinkIsFree(r.link)
    /\ invitation' = RevokeAll(links)
    /\ audit' = AuditAll(links, "revoked")
    /\ IF links = {} THEN Goto(q, "arrived") ELSE Finish(q)
    /\ UNCHANGED <<owner, accounts, members>>

\* One UPDATE finds the invitation open and in this space, or nothing is done.
CommitRevoke(q) ==
    LET r == request[q]
        links == {i \in {r.link} : Open(invitation[i]) /\ invitation[i].space = r.space} IN
    /\ r.pc = "spaceLocked" /\ r.op \in {"revoke", "undo"}
    /\ LinkIsFree(r.link)
    /\ invitation' = RevokeAll(links)
    /\ audit' = AuditAll(links, "revoked")
    /\ Finish(q)
    /\ UNCHANGED <<owner, accounts, members>>

----------------------------------------------------------------------------
(* Accepting. *)

\* The link is read a first time; the password of a new account is hashed then.
FirstReading(i) == i \in Links /\ Valid(invitation[i])

ReceiveAccept(q, actor, i) ==
    /\ actor \in accounts \cup {None}
    /\ FirstReading(i)
    /\ Begin(q, [Idle EXCEPT !.op = "accept", !.pc = "arrived", !.actor = actor,
                    !.space = invitation[i].space, !.email = invitation[i].email,
                    !.grants = invitation[i].grants, !.link = i])

\* Mutant: what the first reading found is trusted.
LockLinkOnly(q) ==
    /\ request[q].pc = "arrived" /\ request[q].op = "accept"
    /\ LinkIsFree(request[q].link)
    /\ Goto(q, "invitationLocked")
    /\ UNCHANGED tables

\* The invitation, SELECT ... FOR UPDATE, then read a second time.
LockLink(q) ==
    /\ request[q].pc = "arrived" /\ request[q].op = "accept"
    /\ LinkIsFree(request[q].link)
    /\ IF Valid(invitation[request[q].link]) THEN Goto(q, "invitationLocked")
                                             ELSE Finish(q)
    /\ UNCHANGED tables

\* The account of the recipient, SELECT ... FOR UPDATE: the caller must be signed
\* in with it, or, if there is none, must not be signed in.  Several requests may
\* lock the gap of a missing account.
LockAccount(q) ==
    LET r == request[q] IN
    /\ r.pc = "invitationLocked"
    /\ \A p \in Requests : request[p].email = r.email => request[p].pc # "accountLocked"
    /\ IF r.email \in accounts
       THEN IF r.actor = r.email THEN Goto(q, "accountLocked") ELSE Finish(q)
       ELSE IF r.actor = None THEN Goto(q, "gapLocked") ELSE Finish(q)
    /\ UNCHANGED tables

\* The INSERT into accounts: no other request may hold the gap.
InsertAccount(q) ==
    LET r == request[q] IN
    /\ r.pc = "gapLocked"
    /\ \A p \in Requests \ {q} : ~ WaitsFor(r, request[p])
    /\ Goto(q, "accountLocked")
    /\ UNCHANGED tables

\* Mutant: the account of a new recipient is not inserted.
AcceptWithoutAccount(q) ==
    LET r == request[q] IN
    /\ r.pc = "accountLocked"
    /\ SpaceIsFree(r.space)
    /\ IF members[r.space][r.email] # None THEN UNCHANGED tables
       ELSE /\ members' = [members EXCEPT ![r.space][r.email] = r.grants]
            /\ invitation' = [invitation EXCEPT ![r.link].accepted = TRUE]
            /\ audit' = AuditAll({r.link}, "accepted")
            /\ UNCHANGED <<owner, accounts>>
    /\ Finish(q)

\* The membership needs the row of the space.  A member already is refused.
CommitAccept(q) ==
    LET r == request[q] IN
    /\ r.pc = "accountLocked"
    /\ SpaceIsFree(r.space)
    /\ IF members[r.space][r.email] # None THEN UNCHANGED tables
       ELSE /\ accounts' = accounts \cup {r.email}
            /\ members' = [members EXCEPT ![r.space][r.email] = r.grants]
            /\ invitation' = [invitation EXCEPT ![r.link].accepted = TRUE]
            /\ audit' = AuditAll({r.link}, "accepted")
            /\ UNCHANGED owner
    /\ Finish(q)

----------------------------------------------------------------------------
(* Around them. *)

\* The transaction fails, the handler is dropped, or InnoDB rolls it back to end
\* a deadlock: nothing of it remains.  To undo is not tried again.
Abandon(q) ==
    /\ request[q].pc # "idle"
    /\ Finish(q)
    /\ UNCHANGED tables

Victim(q) ==
    /\ Deadlocked(q)
    /\ Finish(q)
    /\ UNCHANGED tables

\* Time passes; no code reads the expiry of a link that is not open.
Expire(i) ==
    /\ i \in Links /\ Valid(invitation[i])
    /\ Cardinality({j \in Links : invitation[j].expired}) < MaxExpired
    /\ invitation' = [invitation EXCEPT ![i].expired = TRUE]
    /\ UNCHANGED <<owner, accounts, members, audit, request, transferred>>

\* transfer_space_ownership, which waits for the space too.
TransferOwnership(s, p) ==
    /\ SpaceIsFree(s)
    /\ p # owner[s] /\ members[s][p] # None
    /\ Len(transferred) < MaxTransfers
    /\ owner' = [owner EXCEPT ![s] = p]
    /\ transferred' = Append(transferred, s)
    /\ UNCHANGED <<accounts, members, invitation, audit, request>>

\* A removal reads that p is not the owner in the snapshot of its transaction,
\* before it waits for the membership: at any earlier moment.  Everybody but the
\* founder had an account for a while without being the owner.
SeenNotOwner(s, p) == p # Founder \/ \E n \in DOMAIN transferred : transferred[n] = s

\* remove_member: its audit row waits for the space.
RemoveMember(s, p) ==
    /\ SpaceIsFree(s)
    /\ SeenNotOwner(s, p) /\ members[s][p] # None
    /\ members' = [members EXCEPT ![s][p] = None]
    /\ UNCHANGED <<owner, accounts, invitation, audit, request, transferred>>

ServerStep(q) ==
    \/ LockSpace(q) \/ CommitIssue(q) \/ IssueStops(q) \/ MailSent(q) \/ MailFails(q)
    \/ CommitRevoke(q) \/ LockLink(q) \/ LockAccount(q) \/ InsertAccount(q)
    \/ CommitAccept(q) \/ Victim(q)

Arrival(q) ==
    \/ \E a \in People, s \in Spaces :
           \/ \E p \in People, g \in Grants : ReceiveIssue(q, a, s, p, g)
           \/ \E i \in Links : ReceiveRevoke(q, a, s, i)
    \/ \E a \in People \cup {None}, i \in Links : ReceiveAccept(q, a, i)

Next ==
    \/ /\ \E q \in Requests : ServerStep(q) \/ Abandon(q) \/ Arrival(q)
       /\ UNCHANGED transferred
    \/ \E i \in Links : Expire(i)
    \/ \E s \in Spaces, p \in People : TransferOwnership(s, p) \/ RemoveMember(s, p)

Spec == Init /\ [][Next]_vars

\* The database grants a lock in turn and ends deadlocks; the relay answers, or
\* its 15 seconds are over.
FairSpec ==
    Spec /\ \A q \in Requests : SF_vars(ServerStep(q) /\ UNCHANGED transferred)

----------------------------------------------------------------------------
\* However invitations are issued, accepted and revoked at the same time, a
\* recipient has at most one open link to a space, and none if already a member.
OneOpenLink ==
    \A i \in Links : Open(invitation[i]) =>
        /\ members[invitation[i].space][invitation[i].email] = None
        /\ \A j \in Links \ {i} :
               Open(invitation[j]) => \/ invitation[j].space # invitation[i].space
                                      \/ invitation[j].email # invitation[i].email

\* A link revoked or expired before it was used, and that no acceptance has locked.
Dead(i) ==
    /\ ~ invitation[i].accepted /\ ~ Valid(invitation[i])
    /\ LinkIsFree(i)

\* "repeated under the row lock after hashing so revocation/expiry cannot race
\* acceptance": a link that is dead stays dead, whatever requests read it before,
\* and one that was accepted is neither accepted again nor revoked.
ClosedForGood ==
    [][\A i \in Links :
          /\ Dead(i) => Dead(i)'
          /\ invitation[i].accepted =>
                 audit'[i] = audit[i] /\ invitation'[i].revoked = invitation[i].revoked]_vars

\* Every request ends, though issuing and accepting lock in opposite orders.
RequestsEnd == \A q \in Requests : request[q].pc # "idle" ~> request[q].pc = "idle"
=============================================================================
