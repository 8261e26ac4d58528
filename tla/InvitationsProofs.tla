------------------------- MODULE InvitationsProofs -------------------------
(***************************************************************************)
(* At most one open link for a recipient, and none that revives, for every *)
(* number of spaces, people, invitations and concurrent requests.          *)
(***************************************************************************)
EXTENDS Invitations, TLAPS

LinkPhases == {"invitationLocked", "gapLocked", "accountLocked"}

\* What a request relies on: an issue that holds the space knows that the
\* recipient is no member, as no acceptance can end; an acceptance carries the row
\* of its link, and once it holds the link, the link is open.
RequestOK(r) ==
    r.pc # "idle" =>
        /\ r.space \in Spaces
        /\ r.op = "issue" =>
               /\ r.email \in People /\ r.grants \in Grants
               /\ r.pc = "spaceLocked" => members[r.space][r.email] = None
        /\ r.op = "accept" =>
               /\ r.link \in Links
               /\ r.space = invitation[r.link].space
               /\ r.email = invitation[r.link].email
               /\ r.grants = invitation[r.link].grants
        /\ r.pc \in LinkPhases => r.op = "accept" /\ Open(invitation[r.link])

\* No link has two holders.
LinksExclude ==
    \A p, q \in Requests :
        p # q /\ request[p].pc \in LinkPhases /\ request[q].pc \in LinkPhases
            => request[p].link # request[q].link

AuditType ==
    /\ audit \in Seq(Seq({"created", "revoked", "accepted"}))
    /\ Len(audit) = Len(invitation)

\* The type of the state, but for the history of transfers.
StateOK ==
    /\ accounts \subseteq People
    /\ owner \in [Spaces -> accounts]
    /\ members \in [Spaces -> [People -> Grants \cup {None}]]
    /\ invitation \in Seq(Row) /\ Len(invitation) <= MaxInvitations
    /\ DOMAIN audit = Links
    /\ request \in [Requests -> Request]
    /\ \A s \in Spaces, p \in People : members[s][p] # None => p \in accounts

IInv ==
    /\ StateOK
    /\ AuditType
    /\ \A q \in Requests : RequestOK(request[q])
    /\ LinksExclude
    /\ OneOpenLink

----------------------------------------------------------------------------
LEMMA IdleIsRight == Idle \in Request /\ RequestOK(Idle) /\ Idle.pc = "idle"
<1>1. 0 \in 0..MaxInvitations
  BY BoundAssumption
<1> QED BY <1>1 DEF Idle, Request, RequestOK, LinkPhases

LEMMA LinksAreNumbers ==
    ASSUME IInv
    PROVE  /\ invitation \in Seq(Row) /\ Len(invitation) \in Nat
           /\ Links = 1..Len(invitation)
           /\ \A i \in Links : invitation[i] \in Row
BY DEF IInv, StateOK, Links

LEMMA InitIInv == Init => IInv
<1> SUFFICES ASSUME Init PROVE IInv
  OBVIOUS
<1>1. PICK g \in Grants : members =
           [s \in Spaces |-> [p \in People |-> IF p = Founder THEN g ELSE None]]
  BY DEF Init
<1>2. invitation \in Seq(Row) /\ Len(invitation) = 0 /\ Links = {}
  BY DEF Init, Links
<1>3. AuditType /\ DOMAIN audit = Links
  BY <1>2 DEF Init, AuditType, Links
<1>4. members \in [Spaces -> [People -> Grants \cup {None}]]
  BY <1>1
<1>5. \A s \in Spaces, p \in People : members[s][p] # None => p \in accounts
  BY <1>1, FounderAssumption, NoneAssumption DEF Init
<1>6. StateOK
  BY <1>2, <1>3, <1>4, <1>5, IdleIsRight, FounderAssumption, BoundAssumption
     DEF Init, StateOK
<1>7. (\A q \in Requests : RequestOK(request[q])) /\ LinksExclude
  BY IdleIsRight DEF Init, LinksExclude, LinkPhases
<1>8. OneOpenLink
  BY <1>2 DEF OneOpenLink
<1> QED BY <1>3, <1>6, <1>7, <1>8 DEF IInv

----------------------------------------------------------------------------
\* A step that leaves the tables alone and gives one request a new record.
LEMMA RequestStep ==
    ASSUME IInv, NEW q \in Requests, NEW r \in Request,
           request' = [request EXCEPT ![q] = r], UNCHANGED tables, RequestOK(r),
           r.pc \in LinkPhases =>
               \A p \in Requests \ {q} : ~ LocksLink(request[p], r.link)
    PROVE  IInv'
<1>1. \A p \in Requests : request'[p] = IF p = q THEN r ELSE request[p]
  BY DEF IInv, StateOK
<1>2. request' \in [Requests -> Request]
  BY DEF IInv, StateOK
<1>3. StateOK' /\ AuditType'
  BY <1>2 DEF IInv, StateOK, AuditType, tables, Links
<1>4. ASSUME NEW p \in Requests PROVE RequestOK(request[p])'
  <2>1. RequestOK(request'[p])
    BY <1>1 DEF IInv
  <2> QED BY <2>1 DEF RequestOK, tables, Links, Open
<1>5. LinksExclude'
  BY <1>1 DEF IInv, LinksExclude, LocksLink, LinkPhases
<1>6. OneOpenLink'
  BY DEF IInv, OneOpenLink, Links, Open, tables
<1> QED BY <1>3, <1>4, <1>5, <1>6 DEF IInv

LEMMA FinishStep ==
    ASSUME IInv, NEW q \in Requests, Finish(q), UNCHANGED tables
    PROVE  IInv'
BY IdleIsRight, RequestStep DEF Finish, LinkPhases

\* The record of a request whose phase changes.
LEMMA GotoStep ==
    ASSUME IInv, NEW q \in Requests, NEW pc, Goto(q, pc), UNCHANGED tables,
           request[q].pc # "idle",
           pc \in {"spaceLocked"} \cup LinkPhases,
           pc = "spaceLocked" /\ request[q].op = "issue" =>
               members[request[q].space][request[q].email] = None,
           pc \in LinkPhases =>
               /\ request[q].op = "accept" /\ Open(invitation[request[q].link])
               /\ \A p \in Requests \ {q} : ~ LocksLink(request[p], request[q].link)
    PROVE  IInv'
<1>1. request[q] \in Request /\ RequestOK(request[q])
  BY DEF IInv, StateOK
<1>2. PICK r : r = [request[q] EXCEPT !.pc = pc]
  OBVIOUS
<1>3. /\ r.pc = pc /\ r.op = request[q].op /\ r.space = request[q].space
      /\ r.email = request[q].email /\ r.grants = request[q].grants
      /\ r.link = request[q].link /\ r \in Request
  BY <1>1, <1>2 DEF Request, LinkPhases
<1>4. RequestOK(r)
  BY <1>1, <1>3 DEF RequestOK, LinkPhases
<1>5. request' = [request EXCEPT ![q] = r]
  BY <1>2 DEF Goto
<1> QED BY <1>3, <1>4, <1>5, RequestStep

\* The holder of a link is alone.
LEMMA HolderIsAlone ==
    ASSUME IInv, NEW q \in Requests, request[q].pc \in LinkPhases
    PROVE  /\ request[q].op = "accept" /\ Open(invitation[request[q].link])
           /\ \A p \in Requests \ {q} : ~ LocksLink(request[p], request[q].link)
BY DEF IInv, RequestOK, LinksExclude, LocksLink, LinkPhases

----------------------------------------------------------------------------
\* The requests that begin.
LEMMA ReceiveIssueStep ==
    ASSUME IInv, NEW q \in Requests, NEW actor \in People, NEW s \in Spaces,
           NEW email \in People, NEW g \in Grants, ReceiveIssue(q, actor, s, email, g)
    PROVE  IInv'
<1>1. PICK r : r = [Idle EXCEPT !.op = "issue", !.pc = "arrived", !.actor = actor,
                                !.space = s, !.email = email, !.grants = g]
  OBVIOUS
<1>2. /\ r \in Request /\ r.op = "issue" /\ r.pc = "arrived" /\ r.space = s
      /\ r.email = email /\ r.grants = g
  BY <1>1, IdleIsRight DEF Idle, Request
<1>3. RequestOK(r)
  BY <1>2 DEF RequestOK, LinkPhases
<1>4. request' = [request EXCEPT ![q] = r] /\ UNCHANGED tables
  BY <1>1 DEF ReceiveIssue, Begin
<1> QED BY <1>2, <1>3, <1>4, RequestStep DEF LinkPhases

LEMMA ReceiveRevokeStep ==
    ASSUME IInv, NEW q \in Requests, NEW actor \in People, NEW s \in Spaces,
           NEW i \in Links, ReceiveRevoke(q, actor, s, i)
    PROVE  IInv'
<1>1. PICK r : r = [Idle EXCEPT !.op = "revoke", !.pc = "arrived", !.actor = actor,
                                !.space = s, !.link = i]
  OBVIOUS
<1>2. i \in 0..MaxInvitations
  BY LinksAreNumbers, BoundAssumption DEF IInv, StateOK
<1>3. r \in Request /\ r.op = "revoke" /\ r.pc = "arrived" /\ r.space = s
  BY <1>1, <1>2, IdleIsRight DEF Idle, Request
<1>4. RequestOK(r)
  BY <1>3 DEF RequestOK, LinkPhases
<1>5. request' = [request EXCEPT ![q] = r] /\ UNCHANGED tables
  BY <1>1 DEF ReceiveRevoke, Begin
<1> QED BY <1>3, <1>4, <1>5, RequestStep DEF LinkPhases

LEMMA ReceiveAcceptStep ==
    ASSUME IInv, NEW q \in Requests, NEW actor \in People \cup {None},
           NEW i \in Links, ReceiveAccept(q, actor, i)
    PROVE  IInv'
<1>1. PICK r : r = [Idle EXCEPT !.op = "accept", !.pc = "arrived", !.actor = actor,
                       !.space = invitation[i].space, !.email = invitation[i].email,
                       !.grants = invitation[i].grants, !.link = i]
  OBVIOUS
<1>2. i \in 0..MaxInvitations /\ invitation[i] \in Row
  BY LinksAreNumbers, BoundAssumption DEF IInv, StateOK
<1>3. /\ r \in Request /\ r.op = "accept" /\ r.pc = "arrived" /\ r.link = i
      /\ r.space = invitation[i].space /\ r.email = invitation[i].email
      /\ r.grants = invitation[i].grants /\ r.space \in Spaces
  BY <1>1, <1>2, IdleIsRight DEF Idle, Request, Row
<1>4. RequestOK(r)
  BY <1>3 DEF RequestOK, LinkPhases
<1>5. request' = [request EXCEPT ![q] = r] /\ UNCHANGED tables
  BY <1>1 DEF ReceiveAccept, Begin
<1> QED BY <1>3, <1>4, <1>5, RequestStep DEF LinkPhases

----------------------------------------------------------------------------
\* The steps that only take locks, or end.
LEMMA LockSpaceStep ==
    ASSUME IInv, NEW q \in Requests, LockSpace(q) PROVE IInv'
<1>1. CASE MayGoOn(request[q])
  BY <1>1, GotoStep DEF LockSpace, MayGoOn, LinkPhases
<1>2. CASE ~ MayGoOn(request[q])
  BY <1>2, FinishStep DEF LockSpace
<1> QED BY <1>1, <1>2

LEMMA LockLinkStep ==
    ASSUME IInv, NEW q \in Requests, LockLink(q) PROVE IInv'
<1>1. CASE Valid(invitation[request[q].link])
  BY <1>1, GotoStep DEF LockLink, Valid, LinkIsFree, LinkPhases
<1>2. CASE ~ Valid(invitation[request[q].link])
  BY <1>2, FinishStep DEF LockLink
<1> QED BY <1>1, <1>2

LEMMA LockAccountStep ==
    ASSUME IInv, NEW q \in Requests, LockAccount(q) PROVE IInv'
<1>1. request[q].pc \in LinkPhases /\ request[q].pc # "idle" /\ UNCHANGED tables
  BY DEF LockAccount, LinkPhases
<1>2. CASE Finish(q)
  BY <1>1, <1>2, FinishStep
<1>3. CASE Goto(q, "accountLocked")
  BY <1>1, <1>3, GotoStep, HolderIsAlone DEF LinkPhases
<1>4. CASE Goto(q, "gapLocked")
  BY <1>1, <1>4, GotoStep, HolderIsAlone DEF LinkPhases
<1> QED BY <1>2, <1>3, <1>4 DEF LockAccount

LEMMA InsertAccountStep ==
    ASSUME IInv, NEW q \in Requests, InsertAccount(q) PROVE IInv'
<1>1. /\ request[q].pc \in LinkPhases /\ request[q].pc # "idle"
      /\ Goto(q, "accountLocked") /\ UNCHANGED tables
  BY DEF InsertAccount, LinkPhases
<1> QED BY <1>1, GotoStep, HolderIsAlone DEF LinkPhases

LEMMA MailFailsStep ==
    ASSUME IInv, NEW q \in Requests, MailFails(q) PROVE IInv'
<1>1. request[q] \in Request /\ RequestOK(request[q]) /\ request[q].pc = "mailing"
  BY DEF IInv, StateOK, MailFails
<1>2. PICK r : r = [request[q] EXCEPT !.op = "undo", !.pc = "arrived"]
  OBVIOUS
<1>3. /\ r \in Request /\ r.op = "undo" /\ r.pc = "arrived"
      /\ r.space = request[q].space
  BY <1>1, <1>2 DEF Request
<1>4. RequestOK(r)
  BY <1>1, <1>3 DEF RequestOK, LinkPhases
<1>5. request' = [request EXCEPT ![q] = r] /\ UNCHANGED tables
  <2>1. request' = [request EXCEPT ![q].op = "undo", ![q].pc = "arrived"]
    BY DEF MailFails
  <2> QED BY <1>2, <2>1 DEF MailFails, IInv, StateOK
<1> QED BY <1>3, <1>4, <1>5, RequestStep DEF LinkPhases

----------------------------------------------------------------------------
\* The steps that change the tables.
EventNames == {"created", "revoked", "accepted"}

\* A table of one row for each link.
LEMMA TableIsASeq ==
    ASSUME NEW S, NEW n \in Nat, NEW f, f = [i \in 1..n |-> f[i]],
           \A i \in 1..n : f[i] \in S
    PROVE  f \in Seq(S) /\ Len(f) = n /\ DOMAIN f = 1..n
OBVIOUS

\* To revoke closes the links it names and changes nothing else of any.
LEMMA RevokedRows ==
    ASSUME IInv, NEW links
    PROVE  /\ RevokeAll(links) \in Seq(Row)
           /\ Len(RevokeAll(links)) = Len(invitation)
           /\ DOMAIN RevokeAll(links) = Links
           /\ \A i \in Links :
                  /\ RevokeAll(links)[i].space = invitation[i].space
                  /\ RevokeAll(links)[i].email = invitation[i].email
                  /\ RevokeAll(links)[i].grants = invitation[i].grants
                  /\ RevokeAll(links)[i].accepted = invitation[i].accepted
                  /\ RevokeAll(links)[i].expired = invitation[i].expired
                  /\ i \in links => RevokeAll(links)[i].revoked = TRUE
                  /\ i \notin links => RevokeAll(links)[i].revoked = invitation[i].revoked
<1>1. PICK f : f = RevokeAll(links)
  OBVIOUS
<1>2. \A i \in Links : f[i] = [invitation[i] EXCEPT
                                    !.revoked = invitation[i].revoked \/ i \in links]
  BY <1>1 DEF RevokeAll
<1>3. ASSUME NEW i \in Links
      PROVE  /\ f[i] \in Row
             /\ f[i].space = invitation[i].space /\ f[i].email = invitation[i].email
             /\ f[i].grants = invitation[i].grants
             /\ f[i].accepted = invitation[i].accepted
             /\ f[i].expired = invitation[i].expired
             /\ f[i].revoked = (invitation[i].revoked \/ i \in links)
  <2>1. PICK b \in BOOLEAN : b = (invitation[i].revoked \/ i \in links)
    OBVIOUS
  <2>2. f[i] = [invitation[i] EXCEPT !.revoked = b] /\ invitation[i] \in Row
    BY <1>2, <2>1, LinksAreNumbers
  <2> QED BY <2>1, <2>2 DEF Row
<1>4. ASSUME NEW i \in Links
      PROVE  /\ i \in links => f[i].revoked = TRUE
             /\ i \notin links => f[i].revoked = invitation[i].revoked
  <2>1. invitation[i].revoked \in BOOLEAN
    BY LinksAreNumbers DEF Row
  <2> QED BY <1>3, <2>1
<1>5. f = [i \in 1..Len(invitation) |-> f[i]]
  BY <1>1, LinksAreNumbers DEF RevokeAll
<1>6. f \in Seq(Row) /\ Len(f) = Len(invitation) /\ DOMAIN f = Links
  BY <1>3, <1>5, LinksAreNumbers, TableIsASeq
<1> QED BY <1>1, <1>3, <1>4, <1>6

LEMMA AuditedRows ==
    ASSUME IInv, NEW links, NEW event \in EventNames
    PROVE  /\ AuditAll(links, event) \in Seq(Seq(EventNames))
           /\ Len(AuditAll(links, event)) = Len(invitation)
           /\ DOMAIN AuditAll(links, event) = Links
           /\ \A i \in Links \ links : AuditAll(links, event)[i] = audit[i]
<1>1. PICK f : f = AuditAll(links, event)
  OBVIOUS
<1>2. \A i \in Links : f[i] = IF i \in links THEN Append(audit[i], event) ELSE audit[i]
  BY <1>1 DEF AuditAll
<1>3. audit \in Seq(Seq(EventNames)) /\ Len(audit) = Len(invitation)
  BY DEF IInv, AuditType, EventNames
<1>4. ASSUME NEW i \in Links PROVE f[i] \in Seq(EventNames)
  <2>1. audit[i] \in Seq(EventNames)
    BY <1>3, LinksAreNumbers
  <2>2. Append(audit[i], event) \in Seq(EventNames)
    BY <2>1
  <2> QED BY <1>2, <2>1, <2>2
<1>5. f = [i \in 1..Len(invitation) |-> f[i]]
  BY <1>1, LinksAreNumbers DEF AuditAll
<1>6. f \in Seq(Seq(EventNames)) /\ Len(f) = Len(invitation) /\ DOMAIN f = Links
  BY <1>4, <1>5, LinksAreNumbers, TableIsASeq
<1> QED BY <1>1, <1>2, <1>6

\* What a request relies on is still true once another has changed the tables: the
\* link it holds is open, and no one joins the space it holds.
LEMMA StillOK ==
    ASSUME IInv, NEW r, RequestOK(r), Links \subseteq Links',
           \A i \in Links : /\ invitation'[i].space = invitation[i].space
                            /\ invitation'[i].email = invitation[i].email
                            /\ invitation'[i].grants = invitation[i].grants,
           \A i \in Links : LocksLink(r, i) /\ Open(invitation[i]) => Open(invitation'[i]),
           \A s \in Spaces, p \in People :
               LocksSpace(r, s) /\ members[s][p] = None => members'[s][p] = None
    PROVE  RequestOK(r)'
BY DEF RequestOK, LocksLink, LocksSpace, LinkPhases, Open

\* The links after an issue: those before, of which some are revoked, and a new one.
LEMMA IssuedRows ==
    ASSUME IInv, NEW q \in Requests, CommitIssue(q),
           NEW r \in Request, r = request[q]
    PROVE  /\ invitation' \in Seq(Row) /\ Len(invitation') = Len(invitation) + 1
           /\ Links' = 1..(Len(invitation) + 1)
           /\ \A i \in Links :
                  /\ invitation'[i].space = invitation[i].space
                  /\ invitation'[i].email = invitation[i].email
                  /\ invitation'[i].grants = invitation[i].grants
                  /\ invitation'[i].accepted = invitation[i].accepted
                  /\ invitation'[i].expired = invitation[i].expired
                  /\ i \in Targets(r) => invitation'[i].revoked = TRUE
                  /\ i \notin Targets(r) => invitation'[i].revoked = invitation[i].revoked
           /\ invitation'[Len(invitation) + 1] = NewRow(r)
           /\ r.op = "issue" /\ r.space \in Spaces /\ r.email \in People /\ r.grants \in Grants
           /\ members[r.space][r.email] = None
           /\ NewRow(r) \in Row
           /\ \A p \in Requests, i \in Targets(r) : ~ LocksLink(request[p], i)
           /\ audit' \in Seq(Seq(EventNames)) /\ Len(audit') = Len(invitation')
           /\ \A i \in Links \ Targets(r) : audit'[i] = audit[i]
<1>1. r.pc = "spaceLocked" /\ r.op = "issue" /\ RequestOK(r)
  BY DEF CommitIssue, IInv
<1>2. /\ r.space \in Spaces /\ r.email \in People /\ r.grants \in Grants
      /\ members[r.space][r.email] = None
  BY <1>1 DEF RequestOK
<1>3. NewRow(r) \in Row
  BY <1>2 DEF NewRow, Row
<1>4. PICK f : f = RevokeAll(Targets(r))
  OBVIOUS
<1>5. f \in Seq(Row) /\ Len(f) = Len(invitation) /\ DOMAIN f = Links
  BY <1>4, RevokedRows
<1>6. invitation' = Append(f, NewRow(r))
  BY <1>4 DEF CommitIssue
<1>7. /\ invitation' \in Seq(Row) /\ Len(invitation') = Len(invitation) + 1
      /\ Links' = 1..(Len(invitation) + 1)
      /\ invitation'[Len(invitation) + 1] = NewRow(r)
      /\ \A i \in Links : invitation'[i] = f[i]
  BY <1>3, <1>5, <1>6, LinksAreNumbers DEF Links
<1>8. PICK a : a = AuditAll(Targets(r), "revoked")
  OBVIOUS
<1>9. /\ a \in Seq(Seq(EventNames)) /\ Len(a) = Len(invitation) /\ DOMAIN a = Links
      /\ \A i \in Links \ Targets(r) : a[i] = audit[i]
  BY <1>8, AuditedRows DEF EventNames
<1>10. audit' = Append(a, <<"created">>)
  BY <1>8 DEF CommitIssue
<1>11. <<"created">> \in Seq(EventNames)
  BY DEF EventNames
<1>12. /\ audit' \in Seq(Seq(EventNames)) /\ Len(audit') = Len(invitation')
       /\ \A i \in Links \ Targets(r) : audit'[i] = audit[i]
  BY <1>7, <1>9, <1>10, <1>11, LinksAreNumbers
<1>13. \A p \in Requests, i \in Targets(r) : ~ LocksLink(request[p], i)
  BY DEF CommitIssue, LinkIsFree
<1>14. \A i \in Links :
           /\ f[i].space = invitation[i].space /\ f[i].email = invitation[i].email
           /\ f[i].grants = invitation[i].grants
           /\ f[i].accepted = invitation[i].accepted /\ f[i].expired = invitation[i].expired
           /\ i \in Targets(r) => f[i].revoked = TRUE
           /\ i \notin Targets(r) => f[i].revoked = invitation[i].revoked
  BY <1>4, RevokedRows
<1> QED BY <1>1, <1>2, <1>3, <1>7, <1>12, <1>13, <1>14

LEMMA CommitIssueStep ==
    ASSUME IInv, NEW q \in Requests, CommitIssue(q) PROVE IInv'
<1>1. PICK r \in Request : r = request[q]
  BY DEF IInv, StateOK
<1>2. PICK n : n = Len(invitation) + 1
  OBVIOUS
<1>3. n \in 1..MaxInvitations /\ n \in 0..MaxInvitations /\ n \in Nat /\ Links = 1..(n - 1)
  BY <1>2, LinksAreNumbers, BoundAssumption DEF CommitIssue, IInv, StateOK
<1>4. PICK s : s = [r EXCEPT !.pc = "mailing", !.link = n]
  OBVIOUS
<1>5. s \in Request /\ s.pc = "mailing" /\ s.op = r.op /\ s.space = r.space
      /\ s.email = r.email /\ s.grants = r.grants
  BY <1>3, <1>4 DEF Request
<1>6. request' = [request EXCEPT ![q] = s]
  <2>1. request' = [request EXCEPT ![q].pc = "mailing", ![q].link = Len(invitation) + 1]
    BY DEF CommitIssue
  <2> QED BY <1>1, <1>2, <1>4, <2>1 DEF IInv, StateOK
<1>7. /\ \A p \in Requests : request'[p] = IF p = q THEN s ELSE request[p]
      /\ request' \in [Requests -> Request]
  BY <1>5, <1>6 DEF IInv, StateOK
<1>8. UNCHANGED <<owner, accounts, members>>
  BY DEF CommitIssue
<1>9. Links' = 1..n /\ Links \subseteq Links' /\ Len(invitation') = n
      /\ invitation'[n] = NewRow(r)
  <2>1. /\ Links' = 1..(Len(invitation) + 1) /\ Len(invitation') = Len(invitation) + 1
        /\ invitation'[Len(invitation) + 1] = NewRow(r)
    BY <1>1, IssuedRows
  <2> QED BY <1>2, <1>3, <2>1
<1>10. StateOK' /\ AuditType'
  <2>1. /\ audit' \in Seq(Seq(EventNames)) /\ Len(audit') = Len(invitation')
        /\ invitation' \in Seq(Row)
    BY <1>1, IssuedRows
  <2>2. AuditType' /\ DOMAIN audit' = Links'
    BY <2>1 DEF AuditType, EventNames, Links
  <2>3. Len(invitation') <= MaxInvitations
    BY <1>3, <1>9, BoundAssumption
  <2> QED BY <1>7, <1>8, <2>1, <2>2, <2>3 DEF IInv, StateOK
<1>11. ASSUME NEW p \in Requests PROVE RequestOK(request[p])'
  <2>1. CASE p = q
    <3>1. r.op = "issue" /\ r.space \in Spaces /\ r.email \in People /\ r.grants \in Grants
      BY <1>1, IssuedRows
    <3>2. request'[p] = s
      BY <1>7, <2>1
    <3> QED BY <1>5, <3>1, <3>2 DEF RequestOK, LinkPhases
  <2>2. CASE p # q
    <3>1. \A i \in Links : LocksLink(request[p], i) /\ Open(invitation[i])
                               => Open(invitation'[i])
      BY <1>1, IssuedRows DEF Open
    <3>2. PICK o : o = request[p] /\ RequestOK(o)
      BY DEF IInv
    <3>3. RequestOK(o)'
      BY <1>1, <1>8, <1>9, <3>1, <3>2, IssuedRows, StillOK
    <3> QED BY <1>7, <2>2, <3>2, <3>3
  <2> QED BY <2>1, <2>2
<1>12. LinksExclude'
  BY <1>5, <1>7 DEF IInv, LinksExclude, LinkPhases
<1>13. OneOpenLink'
  <2>1. \A i \in Links : Open(invitation'[i]) => Open(invitation[i]) /\ i \notin Targets(r)
    BY <1>1, IssuedRows DEF Open
  <2>2. \A i \in Links : i \notin Targets(r) /\ Open(invitation[i])
            => invitation[i].space # r.space \/ invitation[i].email # r.email
    BY <1>1, IssuedRows DEF Targets
  <2>3. invitation'[n].space = r.space /\ invitation'[n].email = r.email
    BY <1>9 DEF NewRow
  <2>4. \A i \in Links' : i = n \/ i \in Links
    BY <1>3, <1>9
  <2>5. \A i \in Links : /\ invitation'[i].space = invitation[i].space
                         /\ invitation'[i].email = invitation[i].email
    BY <1>1, IssuedRows
  <2>6. members[r.space][r.email] = None
    BY <1>1, IssuedRows
  <2>7. ASSUME NEW i \in Links', Open(invitation'[i])
        PROVE  members'[invitation'[i].space][invitation'[i].email] = None
    BY <1>8, <2>1, <2>3, <2>4, <2>5, <2>6, <2>7 DEF IInv, OneOpenLink
  <2>8. ASSUME NEW i \in Links', Open(invitation'[i]),
               NEW j \in Links' \ {i}, Open(invitation'[j])
        PROVE  \/ invitation'[j].space # invitation'[i].space
               \/ invitation'[j].email # invitation'[i].email
    <3>1. CASE i \in Links /\ j \in Links
      BY <2>1, <2>5, <2>8, <3>1 DEF IInv, OneOpenLink
    <3>2. CASE i = n /\ j \in Links
      BY <2>1, <2>2, <2>3, <2>5, <2>8, <3>2
    <3>3. CASE i \in Links /\ j = n
      BY <2>1, <2>2, <2>3, <2>5, <2>8, <3>3
    <3> QED BY <2>4, <3>1, <3>2, <3>3
  <2> QED BY <2>7, <2>8 DEF OneOpenLink
<1> QED BY <1>10, <1>11, <1>12, <1>13 DEF IInv

\* The links after one of them is revoked by name, or none.
LEMMA CommitRevokeStep ==
    ASSUME IInv, NEW q \in Requests, CommitRevoke(q) PROVE IInv'
<1>1. PICK r \in Request : r = request[q]
  BY DEF IInv, StateOK
<1>2. PICK links : links = {i \in {r.link} : Open(invitation[i])
                                             /\ invitation[i].space = r.space}
  OBVIOUS
<1>3. /\ invitation' = RevokeAll(links) /\ audit' = AuditAll(links, "revoked")
      /\ Finish(q) /\ UNCHANGED <<owner, accounts, members>>
      /\ LinkIsFree(r.link)
  BY <1>1, <1>2 DEF CommitRevoke
<1>4. /\ invitation' \in Seq(Row) /\ Len(invitation') = Len(invitation)
      /\ Links' = Links
      /\ \A i \in Links :
             /\ invitation'[i].space = invitation[i].space
             /\ invitation'[i].email = invitation[i].email
             /\ invitation'[i].grants = invitation[i].grants
             /\ invitation'[i].accepted = invitation[i].accepted
             /\ i \in links => invitation'[i].revoked = TRUE
             /\ i \notin links => invitation'[i].revoked = invitation[i].revoked
  BY <1>3, RevokedRows DEF Links
<1>5. audit' \in Seq(Seq(EventNames)) /\ Len(audit') = Len(invitation)
      /\ DOMAIN audit' = Links
  BY <1>3, AuditedRows DEF EventNames
<1>6. /\ request' \in [Requests -> Request]
      /\ \A p \in Requests : request'[p] = IF p = q THEN Idle ELSE request[p]
  BY <1>3, IdleIsRight DEF Finish, IInv, StateOK
<1>7. StateOK' /\ AuditType'
  BY <1>3, <1>4, <1>5, <1>6 DEF IInv, StateOK, AuditType, EventNames
<1>8. ASSUME NEW p \in Requests PROVE RequestOK(request[p])'
  <2>1. CASE p = q
    BY <1>6, <2>1, IdleIsRight DEF RequestOK
  <2>2. CASE p # q
    <3>1. \A i \in links : ~ LocksLink(request[p], i)
      BY <1>2, <1>3 DEF LinkIsFree
    <3>2. \A i \in Links : LocksLink(request[p], i) /\ Open(invitation[i])
                               => Open(invitation'[i])
      BY <1>4, <3>1 DEF Open
    <3>3. PICK o : o = request[p] /\ RequestOK(o)
      BY DEF IInv
    <3>4. RequestOK(o)'
      BY <1>3, <1>4, <3>2, <3>3, StillOK
    <3> QED BY <1>6, <2>2, <3>3, <3>4
  <2> QED BY <2>1, <2>2
<1>9. LinksExclude'
  BY <1>6, IdleIsRight DEF IInv, LinksExclude, LinkPhases
<1>10. OneOpenLink'
  <2>1. \A i \in Links : Open(invitation'[i]) => Open(invitation[i])
    BY <1>4 DEF Open
  <2> QED BY <1>3, <1>4, <2>1 DEF IInv, OneOpenLink
<1> QED BY <1>7, <1>8, <1>9, <1>10 DEF IInv

\* The tables after an acceptance that ends with a new member.
LEMMA AcceptedRows ==
    ASSUME IInv, NEW q \in Requests, CommitAccept(q),
           NEW r \in Request, r = request[q],
           members[r.space][r.email] = None
    PROVE  /\ invitation' \in Seq(Row) /\ Len(invitation') = Len(invitation)
           /\ Links' = Links
           /\ r.link \in Links /\ r.space \in Spaces /\ r.email \in People
           /\ r.space = invitation[r.link].space /\ r.email = invitation[r.link].email
           /\ r.grants \in Grants /\ Open(invitation[r.link])
           /\ \A i \in Links :
                  /\ invitation'[i].space = invitation[i].space
                  /\ invitation'[i].email = invitation[i].email
                  /\ invitation'[i].grants = invitation[i].grants
                  /\ invitation'[i].revoked = invitation[i].revoked
                  /\ invitation'[i].expired = invitation[i].expired
                  /\ i = r.link => invitation'[i].accepted = TRUE
                  /\ i # r.link => invitation'[i].accepted = invitation[i].accepted
           /\ audit' \in Seq(Seq(EventNames)) /\ Len(audit') = Len(invitation)
           /\ DOMAIN audit' = Links
           /\ \A i \in Links \ {r.link} : audit'[i] = audit[i]
           /\ members' = [members EXCEPT ![r.space][r.email] = r.grants]
           /\ accounts' = accounts \cup {r.email}
           /\ owner' = owner
<1>1. /\ r.pc = "accountLocked"
      /\ accounts' = accounts \cup {r.email}
      /\ members' = [members EXCEPT ![r.space][r.email] = r.grants]
      /\ invitation' = [invitation EXCEPT ![r.link].accepted = TRUE]
      /\ audit' = AuditAll({r.link}, "accepted")
      /\ owner' = owner
  BY DEF CommitAccept
<1>2. /\ r.link \in Links /\ r.space \in Spaces
      /\ r.space = invitation[r.link].space /\ r.email = invitation[r.link].email
      /\ r.grants = invitation[r.link].grants /\ Open(invitation[r.link])
  BY <1>1 DEF IInv, RequestOK, LinkPhases
<1>3. invitation[r.link] \in Row
  BY <1>2, LinksAreNumbers
<1>4. r.email \in People /\ r.grants \in Grants
  BY <1>2, <1>3 DEF Row
<1>5. PICK row : row = [invitation[r.link] EXCEPT !.accepted = TRUE]
  OBVIOUS
<1>6. /\ row \in Row
      /\ row.space = invitation[r.link].space /\ row.email = invitation[r.link].email
      /\ row.grants = invitation[r.link].grants
      /\ row.revoked = invitation[r.link].revoked
      /\ row.expired = invitation[r.link].expired /\ row.accepted = TRUE
  BY <1>3, <1>5 DEF Row
<1>7. invitation' = [invitation EXCEPT ![r.link] = row]
  BY <1>1, <1>5
<1>8. /\ invitation' \in Seq(Row) /\ Len(invitation') = Len(invitation)
      /\ Links' = Links /\ invitation'[r.link] = row
      /\ \A i \in Links \ {r.link} : invitation'[i] = invitation[i]
  BY <1>2, <1>6, <1>7, LinksAreNumbers DEF Links
<1>9. /\ audit' \in Seq(Seq(EventNames)) /\ Len(audit') = Len(invitation)
      /\ DOMAIN audit' = Links
      /\ \A i \in Links \ {r.link} : audit'[i] = audit[i]
  BY <1>1, AuditedRows DEF EventNames
<1>10. ASSUME NEW i \in Links
       PROVE  /\ invitation'[i].space = invitation[i].space
              /\ invitation'[i].email = invitation[i].email
              /\ invitation'[i].grants = invitation[i].grants
              /\ invitation'[i].revoked = invitation[i].revoked
              /\ invitation'[i].expired = invitation[i].expired
              /\ i = r.link => invitation'[i].accepted = TRUE
              /\ i # r.link => invitation'[i].accepted = invitation[i].accepted
  BY <1>6, <1>8
<1> QED BY <1>1, <1>2, <1>4, <1>8, <1>9, <1>10

LEMMA CommitAcceptStep ==
    ASSUME IInv, NEW q \in Requests, CommitAccept(q) PROVE IInv'
<1>1. PICK r \in Request : r = request[q]
  BY DEF IInv, StateOK
<1>2. Finish(q) /\ SpaceIsFree(r.space) /\ r.pc = "accountLocked"
  BY <1>1 DEF CommitAccept
<1>3. CASE members[r.space][r.email] # None
  BY <1>1, <1>2, <1>3, FinishStep DEF CommitAccept
<1>4. CASE members[r.space][r.email] = None
  <2>1. /\ invitation' \in Seq(Row) /\ Len(invitation') = Len(invitation)
        /\ Links' = Links
        /\ r.link \in Links /\ r.space \in Spaces /\ r.email \in People
        /\ r.space = invitation[r.link].space /\ r.email = invitation[r.link].email
        /\ r.grants \in Grants /\ Open(invitation[r.link])
        /\ members' = [members EXCEPT ![r.space][r.email] = r.grants]
        /\ accounts' = accounts \cup {r.email} /\ owner' = owner
    BY <1>1, <1>4, AcceptedRows
  <2>2. audit' \in Seq(Seq(EventNames)) /\ Len(audit') = Len(invitation)
        /\ DOMAIN audit' = Links
    BY <1>1, <1>4, AcceptedRows
  <2>3. \A i \in Links :
            /\ invitation'[i].space = invitation[i].space
            /\ invitation'[i].email = invitation[i].email
            /\ invitation'[i].grants = invitation[i].grants
            /\ invitation'[i].revoked = invitation[i].revoked
            /\ i = r.link => invitation'[i].accepted = TRUE
            /\ i # r.link => invitation'[i].accepted = invitation[i].accepted
    BY <1>1, <1>4, AcceptedRows
  <2>4. /\ request' \in [Requests -> Request]
        /\ \A p \in Requests : request'[p] = IF p = q THEN Idle ELSE request[p]
    BY <1>2, IdleIsRight DEF Finish, IInv, StateOK
  <2>5. /\ members' \in [Spaces -> [People -> Grants \cup {None}]]
        /\ \A s \in Spaces, p \in People :
               members'[s][p] = IF s = r.space /\ p = r.email THEN r.grants ELSE members[s][p]
    BY <2>1 DEF IInv, StateOK
  <2>6. StateOK' /\ AuditType'
    <3>1. \A s \in Spaces, p \in People : members'[s][p] # None => p \in accounts'
      BY <2>1, <2>5 DEF IInv, StateOK
    <3>2. accounts' \subseteq People /\ owner' \in [Spaces -> accounts']
      BY <2>1 DEF IInv, StateOK
    <3> QED BY <2>1, <2>2, <2>4, <2>5, <3>1, <3>2 DEF IInv, StateOK, AuditType, EventNames
  <2>7. ASSUME NEW p \in Requests PROVE RequestOK(request[p])'
    <3>1. CASE p = q
      BY <2>4, <3>1, IdleIsRight DEF RequestOK
    <3>2. CASE p # q
      <4>1. ~ LocksLink(request[p], r.link)
        BY <1>1, <1>2, <3>2, HolderIsAlone DEF LinkPhases
      <4>2. \A i \in Links : LocksLink(request[p], i) /\ Open(invitation[i])
                                 => Open(invitation'[i])
        BY <2>3, <4>1 DEF Open
      <4>3. \A s \in Spaces, e \in People :
                LocksSpace(request[p], s) /\ members[s][e] = None => members'[s][e] = None
        BY <1>2, <2>5 DEF SpaceIsFree
      <4>4. PICK o : o = request[p] /\ RequestOK(o)
        BY DEF IInv
      <4>5. RequestOK(o)'
        BY <2>1, <2>3, <4>2, <4>3, <4>4, StillOK
      <4> QED BY <2>4, <3>2, <4>4, <4>5
    <3> QED BY <3>1, <3>2
  <2>8. LinksExclude'
    BY <2>4, IdleIsRight DEF IInv, LinksExclude, LinkPhases
  <2>9. OneOpenLink'
    <3>1. \A i \in Links : Open(invitation'[i]) => Open(invitation[i]) /\ i # r.link
      BY <2>3 DEF Open
    <3>2. \A i \in Links \ {r.link} : Open(invitation[i]) =>
              invitation[i].space # r.space \/ invitation[i].email # r.email
      BY <2>1 DEF IInv, OneOpenLink
    <3>3. \A i \in Links : invitation[i].space \in Spaces /\ invitation[i].email \in People
      BY LinksAreNumbers DEF Row
    <3>4. ASSUME NEW i \in Links, Open(invitation'[i])
          PROVE  members'[invitation'[i].space][invitation'[i].email] = None
      BY <2>3, <2>5, <3>1, <3>2, <3>3, <3>4 DEF IInv, OneOpenLink
    <3> QED BY <2>1, <2>3, <3>1, <3>4 DEF IInv, OneOpenLink
  <2> QED BY <2>6, <2>7, <2>8, <2>9 DEF IInv
<1> QED BY <1>3, <1>4

----------------------------------------------------------------------------
\* The steps that no request takes.
LEMMA ExpireStep ==
    ASSUME IInv, NEW i \in Links, Expire(i) PROVE IInv'
<1>1. /\ invitation' = [invitation EXCEPT ![i].expired = TRUE]
      /\ UNCHANGED <<owner, accounts, members, audit, request>>
  BY DEF Expire
<1>2. PICK row : row = [invitation[i] EXCEPT !.expired = TRUE]
  OBVIOUS
<1>3. /\ row \in Row
      /\ row.space = invitation[i].space /\ row.email = invitation[i].email
      /\ row.grants = invitation[i].grants
      /\ row.revoked = invitation[i].revoked /\ row.accepted = invitation[i].accepted
  BY <1>2, LinksAreNumbers DEF Row
<1>4. invitation' = [invitation EXCEPT ![i] = row]
  BY <1>1, <1>2
<1>5. /\ invitation' \in Seq(Row) /\ Len(invitation') = Len(invitation)
      /\ Links' = Links
      /\ \A j \in Links : invitation'[j] = IF j = i THEN row ELSE invitation[j]
  BY <1>3, <1>4, LinksAreNumbers DEF Links
<1>6. \A j \in Links : /\ invitation'[j].space = invitation[j].space
                       /\ invitation'[j].email = invitation[j].email
                       /\ invitation'[j].grants = invitation[j].grants
                       /\ Open(invitation'[j]) <=> Open(invitation[j])
  BY <1>3, <1>5 DEF Open
<1>7. StateOK' /\ AuditType'
  BY <1>1, <1>5 DEF IInv, StateOK, AuditType
<1>8. ASSUME NEW p \in Requests PROVE RequestOK(request[p])'
  <2>1. PICK o : o = request[p] /\ RequestOK(o)
    BY DEF IInv
  <2>2. RequestOK(o)'
    BY <1>1, <1>5, <1>6, <2>1, StillOK
  <2> QED BY <1>1, <2>1, <2>2
<1>9. LinksExclude'
  BY <1>1 DEF IInv, LinksExclude
<1>10. \A j \in Links : Open(invitation'[j]) =>
           /\ members[invitation'[j].space][invitation'[j].email] = None
           /\ \A k \in Links \ {j} :
                  Open(invitation'[k]) => \/ invitation'[k].space # invitation'[j].space
                                         \/ invitation'[k].email # invitation'[j].email
  BY <1>6 DEF IInv, OneOpenLink
<1>11. OneOpenLink'
  BY <1>1, <1>5, <1>10 DEF OneOpenLink, Open
<1> QED BY <1>7, <1>8, <1>9, <1>11 DEF IInv

\* Invitations do not depend on who owns the space; the new owner has an account.
LEMMA TransferOwnershipStep ==
    ASSUME IInv, NEW s \in Spaces, NEW p \in People, TransferOwnership(s, p)
    PROVE  IInv'
<1>1. /\ p \in accounts /\ members[s][p] # None
      /\ owner' = [owner EXCEPT ![s] = p]
      /\ UNCHANGED <<accounts, members, invitation, audit, request>>
  BY DEF TransferOwnership, IInv, StateOK
<1>2. StateOK' /\ AuditType'
  BY <1>1 DEF IInv, StateOK, AuditType, Links
<1>3. \A q \in Requests : RequestOK(request[q])'
  BY <1>1 DEF IInv, RequestOK, Links, Open
<1>4. LinksExclude' /\ OneOpenLink'
  BY <1>1 DEF IInv, LinksExclude, OneOpenLink, Links, Open
<1> QED BY <1>2, <1>3, <1>4 DEF IInv

LEMMA RemoveMemberStep ==
    ASSUME IInv, NEW s \in Spaces, NEW p \in People, RemoveMember(s, p)
    PROVE  IInv'
<1>1. /\ members' = [members EXCEPT ![s][p] = None]
      /\ UNCHANGED <<owner, accounts, invitation, audit, request>>
  BY DEF RemoveMember
<1>2. /\ members' \in [Spaces -> [People -> Grants \cup {None}]]
      /\ \A t \in Spaces, e \in People :
             members'[t][e] = IF t = s /\ e = p THEN None ELSE members[t][e]
  BY <1>1 DEF IInv, StateOK
<1>3. \A t \in Spaces, e \in People : members'[t][e] # None => e \in accounts
  BY <1>2 DEF IInv, StateOK
<1>5. StateOK' /\ AuditType'
  BY <1>1, <1>2, <1>3 DEF IInv, StateOK, AuditType, Links
<1>6. ASSUME NEW q \in Requests PROVE RequestOK(request[q])'
  <2>1. PICK o : o = request[q] /\ RequestOK(o)
    BY DEF IInv
  <2>2. \A t \in Spaces, e \in People : members[t][e] = None => members'[t][e] = None
    BY <1>2
  <2>3. RequestOK(o)'
    BY <1>1, <2>1, <2>2, StillOK DEF Links
  <2> QED BY <1>1, <2>1, <2>3
<1>7. LinksExclude'
  BY <1>1 DEF IInv, LinksExclude
<1>8. OneOpenLink'
  <2>1. \A i \in Links : invitation[i].space \in Spaces /\ invitation[i].email \in People
    BY LinksAreNumbers DEF Row
  <2> QED BY <1>1, <1>2, <2>1 DEF IInv, OneOpenLink, Links, Open
<1> QED BY <1>5, <1>6, <1>7, <1>8 DEF IInv

LEMMA StutterStep == ASSUME IInv, UNCHANGED vars PROVE IInv'
<1>1. UNCHANGED <<owner, accounts, members, invitation, audit, request>>
  BY DEF vars, tables
<1>2. StateOK' /\ AuditType'
  BY <1>1 DEF IInv, StateOK, AuditType, Links
<1>3. \A q \in Requests : RequestOK(request[q])'
  BY <1>1 DEF IInv, RequestOK, Links, Open
<1>4. LinksExclude' /\ OneOpenLink'
  BY <1>1 DEF IInv, LinksExclude, OneOpenLink, Links, Open
<1> QED BY <1>2, <1>3, <1>4 DEF IInv

LEMMA StepIInv == IInv /\ [Next]_vars => IInv'
<1> SUFFICES ASSUME IInv, [Next]_vars PROVE IInv'
  OBVIOUS
<1>1. ASSUME NEW q \in Requests,
             IssueStops(q) \/ MailSent(q) \/ Victim(q) \/ Abandon(q)
      PROVE  IInv'
  BY <1>1, FinishStep DEF IssueStops, MailSent, Victim, Abandon
<1>2. ASSUME NEW q \in Requests, ServerStep(q) \/ Abandon(q) PROVE IInv'
  BY <1>1, <1>2, LockSpaceStep, CommitIssueStep, MailFailsStep, CommitRevokeStep,
     LockLinkStep, LockAccountStep, InsertAccountStep, CommitAcceptStep DEF ServerStep
<1>3. CASE Next
  BY <1>2, <1>3, ReceiveIssueStep, ReceiveRevokeStep, ReceiveAcceptStep, ExpireStep,
     TransferOwnershipStep, RemoveMemberStep DEF Next, Arrival
<1> QED BY <1>3, StutterStep

LEMMA Invariance == Spec => []IInv
BY InitIInv, StepIInv, PTL DEF Spec

\* The state has its type: members have accounts, and no more invitations than
\* MaxInvitations are ever issued.
THEOREM InvitationsTypeCorrect == Spec => []TypeOK
<1> DEFINE TransfersOK == transferred \in Seq(Spaces) /\ Len(transferred) <= MaxTransfers
<1>1. Init => TransfersOK
  BY BoundAssumption DEF Init
<1>2. TransfersOK /\ [Next]_vars => TransfersOK'
  <2>1. ASSUME TransfersOK, NEW s \in Spaces, NEW p \in People, TransferOwnership(s, p)
        PROVE  TransfersOK'
    BY <2>1, BoundAssumption DEF TransferOwnership
  <2>2. ASSUME TransfersOK, UNCHANGED transferred PROVE TransfersOK'
    BY <2>2
  <2> HIDE DEF TransfersOK
  <2> QED BY <2>1, <2>2 DEF Next, Expire, RemoveMember, vars
<1>3. IInv /\ TransfersOK => TypeOK
  BY DEF IInv, StateOK, TypeOK
<1> HIDE DEF TransfersOK
<1> QED BY <1>1, <1>2, <1>3, Invariance, PTL DEF Spec

\* However invitations are issued, accepted and revoked at the same time, and
\* whatever fails, a recipient has at most one open link to a space, and none once
\* a member.
THEOREM RecipientsHoldOneLink == Spec => []OneOpenLink
<1>1. IInv => OneOpenLink
  BY DEF IInv
<1> QED BY <1>1, Invariance, PTL

----------------------------------------------------------------------------
\* One step, for one link.
Closed(i) ==
    /\ Dead(i) => Dead(i)'
    /\ invitation[i].accepted =>
           audit'[i] = audit[i] /\ invitation'[i].revoked = invitation[i].revoked

\* A link that no one may accept any more is not locked again, for it is read
\* under its lock.
NotLocked(i) == LinkIsFree(i) /\ ~ Valid(invitation[i]) => LinkIsFree(i)'

LEMMA ReplacedRequest ==
    ASSUME IInv, NEW q \in Requests, NEW r, request' = [request EXCEPT ![q] = r],
           NEW i, LocksLink(r, i) => LocksLink(request[q], i) \/ Valid(invitation[i])
    PROVE  NotLocked(i)
<1>1. \A p \in Requests : request'[p] = IF p = q THEN r ELSE request[p]
  BY DEF IInv, StateOK
<1> QED BY <1>1 DEF NotLocked, LinkIsFree, LocksLink

LEMMA FinishedRequest ==
    ASSUME IInv, NEW q \in Requests, Finish(q), NEW i PROVE NotLocked(i)
BY IdleIsRight, ReplacedRequest DEF Finish, LocksLink

LEMMA MovedRequest ==
    ASSUME IInv, NEW q \in Requests, NEW pc, Goto(q, pc), NEW i,
           \/ pc \notin LinkPhases
           \/ request[q].pc \in LinkPhases
           \/ Valid(invitation[request[q].link])
    PROVE  NotLocked(i)
<1>1. PICK r : r = [request[q] EXCEPT !.pc = pc]
  OBVIOUS
<1>2. request[q] \in Request
  BY DEF IInv, StateOK
<1>3. r.pc = pc /\ r.link = request[q].link
  BY <1>1, <1>2 DEF Request
<1>4. request' = [request EXCEPT ![q] = r]
  BY <1>1 DEF Goto
<1>5. LocksLink(r, i) => LocksLink(request[q], i) \/ Valid(invitation[i])
  BY <1>3 DEF LocksLink, LinkPhases
<1> QED BY <1>4, <1>5, ReplacedRequest

LEMMA BegunRequest ==
    ASSUME IInv, NEW q \in Requests, NEW r, Begin(q, r), r.pc = "arrived", NEW i
    PROVE  NotLocked(i)
BY ReplacedRequest DEF Begin, LocksLink

\* A step that leaves the tables alone.
LEMMA SameRows ==
    ASSUME IInv, NEW i \in Links, UNCHANGED tables, NotLocked(i) PROVE Closed(i)
BY DEF Closed, Dead, NotLocked, Valid, Open, tables

\* A step that changes the row of no link, but for the expiry.
LEMMA ClosedRow ==
    ASSUME IInv, NEW i \in Links, NotLocked(i),
           invitation'[i].accepted = invitation[i].accepted,
           invitation'[i].expired = invitation[i].expired
               \/ (invitation'[i].expired = TRUE /\ ~ invitation[i].accepted),
           invitation'[i].revoked = invitation[i].revoked
               \/ (invitation'[i].revoked = TRUE /\ ~ invitation[i].accepted),
           invitation[i].accepted => audit'[i] = audit[i]
    PROVE  Closed(i)
BY DEF Closed, Dead, NotLocked, Valid, Open

LEMMA CommitIssueCloses ==
    ASSUME IInv, NEW q \in Requests, CommitIssue(q), NEW i \in Links PROVE Closed(i)
<1>1. PICK r \in Request : r = request[q]
  BY DEF IInv, StateOK
<1>2. PICK s : s = [r EXCEPT !.pc = "mailing", !.link = Len(invitation) + 1]
  OBVIOUS
<1>3. s.pc = "mailing"
  BY <1>2 DEF Request
<1>4. request' = [request EXCEPT ![q] = s]
  <2>1. request' = [request EXCEPT ![q].pc = "mailing", ![q].link = Len(invitation) + 1]
    BY DEF CommitIssue
  <2> QED BY <1>1, <1>2, <2>1 DEF IInv, StateOK
<1>5. NotLocked(i)
  BY <1>3, <1>4, ReplacedRequest DEF LocksLink
<1>6. i \in Targets(r) => ~ invitation[i].accepted
  <2>1. r.op = "issue"
    BY <1>1 DEF CommitIssue
  <2> QED BY <2>1 DEF Targets, Open
<1>7. /\ invitation'[i].accepted = invitation[i].accepted
      /\ invitation'[i].expired = invitation[i].expired
      /\ i \in Targets(r) => invitation'[i].revoked = TRUE
      /\ i \notin Targets(r) => invitation'[i].revoked = invitation[i].revoked
      /\ i \notin Targets(r) => audit'[i] = audit[i]
  BY <1>1, IssuedRows
<1> QED BY <1>5, <1>6, <1>7, ClosedRow

LEMMA CommitRevokeCloses ==
    ASSUME IInv, NEW q \in Requests, CommitRevoke(q), NEW i \in Links PROVE Closed(i)
<1>1. PICK links : links = {j \in {request[q].link} :
                               /\ Open(invitation[j])
                               /\ invitation[j].space = request[q].space}
  OBVIOUS
<1>2. /\ invitation' = RevokeAll(links) /\ audit' = AuditAll(links, "revoked")
      /\ Finish(q)
  BY <1>1 DEF CommitRevoke
<1>3. i \in links => ~ invitation[i].accepted
  BY <1>1 DEF Open
<1>4. /\ invitation'[i].accepted = invitation[i].accepted
      /\ invitation'[i].expired = invitation[i].expired
      /\ i \in links => invitation'[i].revoked = TRUE
      /\ i \notin links => invitation'[i].revoked = invitation[i].revoked
  BY <1>2, RevokedRows
<1>5. i \notin links => audit'[i] = audit[i]
  BY <1>2, AuditedRows DEF EventNames
<1> QED BY <1>2, <1>3, <1>4, <1>5, FinishedRequest, ClosedRow

\* The link accepted is locked by its acceptance, so it is not dead; and it is open.
LEMMA CommitAcceptCloses ==
    ASSUME IInv, NEW q \in Requests, CommitAccept(q), NEW i \in Links PROVE Closed(i)
<1>1. PICK r \in Request : r = request[q]
  BY DEF IInv, StateOK
<1>2. Finish(q) /\ r.pc = "accountLocked"
  BY <1>1 DEF CommitAccept
<1>3. NotLocked(i)
  BY <1>2, FinishedRequest
<1>4. CASE members[r.space][r.email] # None
  BY <1>1, <1>3, <1>4, SameRows DEF CommitAccept
<1>5. CASE members[r.space][r.email] = None
  <2>1. CASE i = r.link
    <3>1. Open(invitation[i])
      BY <1>1, <1>5, <2>1, AcceptedRows
    <3>2. ~ LinkIsFree(i)
      BY <1>1, <1>2, <2>1 DEF LinkIsFree, LocksLink
    <3> QED BY <3>1, <3>2 DEF Closed, Dead, Open
  <2>2. CASE i # r.link
    <3>1. /\ invitation'[i].accepted = invitation[i].accepted
          /\ invitation'[i].expired = invitation[i].expired
          /\ invitation'[i].revoked = invitation[i].revoked
      BY <1>1, <1>5, <2>2, AcceptedRows
    <3>2. audit'[i] = audit[i]
      <4>1. \A j \in Links \ {r.link} : audit'[j] = audit[j]
        BY <1>1, <1>5, AcceptedRows
      <4> QED BY <2>2, <4>1
    <3> QED BY <1>3, <3>1, <3>2, ClosedRow
  <2> QED BY <2>1, <2>2
<1> QED BY <1>4, <1>5

LEMMA StepCloses ==
    ASSUME IInv, [Next]_vars, NEW i \in Links PROVE Closed(i)
<1>1. CASE UNCHANGED request /\ UNCHANGED <<invitation, audit>>
  BY <1>1, ClosedRow DEF NotLocked, LinkIsFree
<1>2. ASSUME NEW s \in Spaces, NEW p \in People, TransferOwnership(s, p) \/ RemoveMember(s, p)
      PROVE  Closed(i)
  BY <1>1, <1>2 DEF TransferOwnership, RemoveMember
<1>3. ASSUME NEW j \in Links, Expire(j) PROVE Closed(i)
  <2>1. /\ invitation' = [invitation EXCEPT ![j].expired = TRUE]
        /\ UNCHANGED <<audit, request>> /\ ~ invitation[j].accepted
    BY <1>3 DEF Expire, Valid, Open
  <2>2. PICK row : row = [invitation[j] EXCEPT !.expired = TRUE]
    OBVIOUS
  <2>3. /\ row.revoked = invitation[j].revoked /\ row.accepted = invitation[j].accepted
        /\ row.expired = TRUE
    BY <2>2, LinksAreNumbers DEF Row
  <2>4. invitation' = [invitation EXCEPT ![j] = row]
    BY <2>1, <2>2
  <2>5. invitation'[i] = IF i = j THEN row ELSE invitation[i]
    BY <2>4, LinksAreNumbers
  <2> QED BY <2>1, <2>3, <2>5, ClosedRow DEF NotLocked, LinkIsFree
<1>4. ASSUME NEW q \in Requests, UNCHANGED tables,
             \/ IssueStops(q) \/ MailSent(q) \/ Victim(q) \/ Abandon(q)
             \/ LockSpace(q) \/ LockLink(q) \/ LockAccount(q) \/ InsertAccount(q)
      PROVE  Closed(i)
  <2>1. CASE Finish(q)
    BY <1>4, <2>1, FinishedRequest, SameRows
  <2>2. CASE LockSpace(q) /\ Goto(q, "spaceLocked")
    BY <1>4, <2>2, MovedRequest, SameRows DEF LinkPhases
  <2>3. CASE LockLink(q) /\ Goto(q, "invitationLocked") /\ Valid(invitation[request[q].link])
    BY <1>4, <2>3, MovedRequest, SameRows
  <2>4. CASE LockAccount(q) /\ (Goto(q, "gapLocked") \/ Goto(q, "accountLocked"))
    BY <1>4, <2>4, MovedRequest, SameRows DEF LockAccount, LinkPhases
  <2>5. CASE InsertAccount(q)
    BY <1>4, <2>5, MovedRequest, SameRows DEF InsertAccount, LinkPhases
  <2> QED BY <1>4, <2>1, <2>2, <2>3, <2>4, <2>5 DEF IssueStops, MailSent, Victim,
          Abandon, LockSpace, LockLink, LockAccount
<1>5. ASSUME NEW q \in Requests, MailFails(q) PROVE Closed(i)
  <2>1. PICK r : r = [request[q] EXCEPT !.op = "undo", !.pc = "arrived"]
    OBVIOUS
  <2>2. request[q] \in Request /\ r.pc = "arrived"
    BY <2>1 DEF IInv, StateOK, Request
  <2>3. request' = [request EXCEPT ![q] = r] /\ UNCHANGED tables
    <3>1. request' = [request EXCEPT ![q].op = "undo", ![q].pc = "arrived"]
      BY <1>5 DEF MailFails
    <3> QED BY <1>5, <2>1, <3>1 DEF MailFails, IInv, StateOK
  <2> QED BY <2>2, <2>3, ReplacedRequest, SameRows DEF LocksLink
<1>6. ASSUME NEW q \in Requests, ServerStep(q) \/ Abandon(q) PROVE Closed(i)
  BY <1>4, <1>5, <1>6, CommitIssueCloses, CommitRevokeCloses, CommitAcceptCloses
     DEF ServerStep, IssueStops, MailSent, Victim, Abandon, LockSpace, LockLink,
         LockAccount, InsertAccount
<1>7. ASSUME NEW q \in Requests, NEW r, Begin(q, r), r.pc = "arrived" PROVE Closed(i)
  BY <1>7, BegunRequest, SameRows DEF Begin
<1>8. ASSUME NEW q \in Requests, NEW a, NEW s, NEW p, NEW g, ReceiveIssue(q, a, s, p, g)
      PROVE  Closed(i)
  BY <1>7, <1>8 DEF ReceiveIssue, Idle
<1>9. ASSUME NEW q \in Requests, NEW a, NEW s, NEW j, ReceiveRevoke(q, a, s, j)
      PROVE  Closed(i)
  BY <1>7, <1>9 DEF ReceiveRevoke, Idle
<1>10. ASSUME NEW q \in Requests, NEW a, NEW j, ReceiveAccept(q, a, j)
       PROVE  Closed(i)
  BY <1>7, <1>10 DEF ReceiveAccept, Idle
<1>11. CASE Next
  BY <1>2, <1>3, <1>6, <1>8, <1>9, <1>10, <1>11 DEF Next, Arrival
<1>12. CASE UNCHANGED vars
  BY <1>1, <1>12 DEF vars, tables
<1> QED BY <1>11, <1>12

\* A link that was revoked or has expired, and that no acceptance holds, is never
\* accepted, whatever requests read it while it was open; and one that was accepted
\* is not accepted again, and never revoked.
THEOREM DeadLinksStayDead == Spec => ClosedForGood
<1>1. IInv /\ [Next]_vars =>
        [\A i \in Links :
          /\ Dead(i) => Dead(i)'
          /\ invitation[i].accepted =>
                 audit'[i] = audit[i] /\ invitation'[i].revoked = invitation[i].revoked]_vars
  BY StepCloses DEF Closed
<1> QED BY <1>1, Invariance, PTL DEF Spec, ClosedForGood
=============================================================================
