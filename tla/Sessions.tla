------------------------------ MODULE Sessions ------------------------------
(***************************************************************************)
(* The sessions of the devices: who is signed in, until when, and how a    *)
(* token is checked on every request (database.rs, http.rs).               *)
(*                                                                         *)
(* A request reads the clock of the server, then the row of its token, and *)
(* only then refreshes last_seen_at, by a second statement.  Between two   *)
(* of these steps time passes, and the other requests go on.  The account  *)
(* and the tokens themselves are abstract: a token is the row it opens.    *)
(***************************************************************************)
EXTENDS Naturals

CONSTANTS
    Tokens,         \* the tokens create_session draws, each at most once
    Accounts,
    Requests,       \* slots for the requests that are in progress at a time
    None,
    IdleTimeouts,   \* the idle delays a client chooses from
    Lifetimes,      \* DEFAULT_SECONDS and PERSISTENT_SECONDS
    Ceiling,        \* MAX_SECONDS, also the CHECK of the table
    MaxTime         \* bound: the clock stops there

ASSUME DelaysAssumption ==
    /\ Ceiling \in Nat \ {0} /\ MaxTime \in Nat
    /\ IdleTimeouts \subseteq 1..Ceiling
    /\ Lifetimes \subseteq 1..Ceiling

VARIABLES
    now,       \* the clock of the server
    session,   \* account_sessions, by token
    uses,      \* history: when each token was accepted, as its requests read it
    request    \* what each slot is doing

vars == <<now, session, uses, request>>

Row == [account : Accounts, idle : IdleTimeouts, created : Nat, seen : Nat,
        expires : Nat, revoked : BOOLEAN]

ASSUME NoneAssumption == None \notin Row

Request == [pc : {"idle", "issuing", "presented", "checked", "revoking"},
            token : Tokens \cup {None},
            at : 0..MaxTime,                 \* the time it read
            target : Tokens \cup {None}]     \* the session it is to revoke

Idle == [pc |-> "idle", token |-> None, at |-> 0, target |-> None]

\* The CHECK constraints of account_sessions.
ChecksHold(row) ==
    /\ row.created < row.expires /\ row.expires <= row.created + Ceiling
    /\ row.created <= row.seen /\ row.seen <= row.expires

\* The type of the state.  No statement of the code is ever refused by a CHECK
\* of the table, whatever the time that passed before it ran.
TypeOK ==
    /\ now \in 0..MaxTime
    /\ session \in [Tokens -> Row \cup {None}]
    /\ uses \in [Tokens -> SUBSET (0..MaxTime)]
    /\ request \in [Requests -> Request]
    /\ \A t \in Tokens : session[t] # None => ChecksHold(session[t])

Init ==
    /\ now = 0
    /\ session = [t \in Tokens |-> None]
    /\ uses = [t \in Tokens |-> {}]
    /\ request = [q \in Requests |-> Idle]

Finish(q) == request' = [request EXCEPT ![q] = Idle]

Tick ==
    /\ now < MaxTime
    /\ now' = now + 1
    /\ UNCHANGED <<session, uses, request>>

----------------------------------------------------------------------------
\* SessionToken::generate: 256 random bits are drawn once.
Fresh(t) ==
    /\ session[t] = None
    /\ \A p \in Requests : request[p].pc = "issuing" => request[p].token # t

\* create_session: the password is right, a token is drawn, the clock is read.
Login(q, t) ==
    /\ request[q] = Idle
    /\ Fresh(t)
    /\ request' = [request EXCEPT ![q] = [Idle EXCEPT !.pc = "issuing", !.token = t,
                                                   !.at = now]]
    /\ UNCHANGED <<now, session, uses>>

NewRow(account, idle, at, lifetime) ==
    [account |-> account, idle |-> idle, created |-> at, seen |-> at,
     expires |-> at + lifetime, revoked |-> FALSE]

Insert(q, account, idle, lifetime) ==
    LET r == request[q] IN
    /\ r.pc = "issuing"
    /\ session' = [session EXCEPT ![r.token] =
                       NewRow(account, idle, r.at, lifetime)]
    /\ Finish(q)
    /\ UNCHANGED <<now, uses>>

----------------------------------------------------------------------------
\* A request comes with a token: authenticate_session reads the clock.
Present(q, t) ==
    /\ request[q] = Idle
    /\ session[t] # None
    /\ request' = [request EXCEPT ![q] = [Idle EXCEPT !.pc = "presented", !.token = t,
                                                   !.at = now]]
    /\ UNCHANGED <<now, session, uses>>

\* Mutants: what authenticate_session might forget to compare.
ValidUnlessRevoked(row, at) == ~ row.revoked /\ at <= row.seen + row.idle
ValidWhileUsed(row, at) == at < row.expires /\ at <= row.seen + row.idle

Valid(row, at) ==
    ~ row.revoked /\ at < row.expires /\ at <= row.seen + row.idle

\* The SELECT.
Check(q) ==
    LET r == request[q] IN
    /\ r.pc = "presented"
    /\ Valid(session[r.token], r.at)
    /\ request' = [request EXCEPT ![q].pc = "checked"]
    /\ UNCHANGED <<now, session, uses>>

\* Mutant: a session that is refused counts as used.
RefuseAndRefresh(q) ==
    LET r == request[q] IN
    /\ r.pc = "presented"
    /\ ~ Valid(session[r.token], r.at)
    /\ session' = IF r.at < session[r.token].expires
                  THEN [session EXCEPT ![r.token].seen = r.at] ELSE session
    /\ Finish(q)
    /\ UNCHANGED <<now, uses>>

Refuse(q) ==
    LET r == request[q] IN
    /\ r.pc = "presented"
    /\ ~ Valid(session[r.token], r.at)
    /\ Finish(q)
    /\ UNCHANGED <<now, session, uses>>

\* The request goes on: to revoke the session target, or to anything else (None).
GoesOn(r, target) ==
    IF target = None THEN Idle
    ELSE [Idle EXCEPT !.pc = "revoking", !.token = r.token, !.target = target]

\* Mutant: the UPDATE writes the time it runs at.
RefreshByTheClock(q, target) ==
    LET r == request[q] IN
    /\ r.pc = "checked"
    /\ session' = [session EXCEPT ![r.token].seen = now]
    /\ uses' = [uses EXCEPT ![r.token] = @ \cup {r.at}]
    /\ request' = [request EXCEPT ![q] = GoesOn(r, target)]
    /\ UNCHANGED now

\* The UPDATE: it says nothing of revoked_at, nor of what was read.
Refresh(q, target) ==
    LET r == request[q] IN
    /\ r.pc = "checked"
    /\ session' = [session EXCEPT ![r.token].seen = r.at]
    /\ uses' = [uses EXCEPT ![r.token] = @ \cup {r.at}]
    /\ request' = [request EXCEPT ![q] = GoesOn(r, target)]
    /\ UNCHANGED now

----------------------------------------------------------------------------
\* list_sessions: the sessions of one account.
SessionsOf(account) ==
    {t \in Tokens : session[t] # None /\ session[t].account = account}

\* revoke_session: a session of another account is not found, one already revoked
\* is not revoked again.
Revoke(q) ==
    LET r == request[q] IN
    /\ r.pc = "revoking"
    /\ session' = IF r.target \in SessionsOf(session[r.token].account)
                  THEN [session EXCEPT ![r.target].revoked = TRUE] ELSE session
    /\ Finish(q)
    /\ UNCHANGED <<now, uses>>

\* The handler is dropped, or the database fails the statement.
Abandon(q) ==
    /\ request[q].pc # "idle"
    /\ Finish(q)
    /\ UNCHANGED <<now, session, uses>>

Next ==
    \/ Tick
    \/ \E q \in Requests :
           \/ \E t \in Tokens : Login(q, t) \/ Present(q, t)
           \/ \E target \in Tokens \cup {None} : Refresh(q, target)
           \/ \E a \in Accounts, i \in IdleTimeouts, l \in Lifetimes : Insert(q, a, i, l)
           \/ Check(q) \/ Refuse(q) \/ Revoke(q) \/ Abandon(q)

Spec == Init /\ [][Next]_vars

----------------------------------------------------------------------------
\* A revoked session with no request past its check.
Closed(t) ==
    /\ session[t] # None /\ session[t].revoked
    /\ \A q \in Requests : request[q].token = t =>
           request[q].pc \notin {"checked", "revoking"}

\* "Revocation is immediate and cannot be undone": once the requests that were
\* already past their check are over, no request ever gets through with the
\* token again, whatever refreshes and revocations cross.
RevocationIsFinal == [][\A t \in Tokens : Closed(t) => Closed(t)']_vars

\* Past the end of the lifetime, or past the idle delay of the login and of every
\* accepted use.
Late(t, at) == LET s == session[t] IN
    \/ at >= s.expires
    \/ \A u \in uses[t] \cup {s.created} : at > u + s.idle

\* A session that is late, with no request left that came in time.
Lapsed(t) ==
    /\ session[t] # None /\ Late(t, now)
    /\ \A q \in Requests : request[q].token = t =>
           /\ request[q].pc # "checked"
           /\ request[q].pc = "presented" => Late(t, request[q].at)

\* A session that has lapsed is not revived.  A refusal alone promises less: a
\* request that came in time may be applied after another was refused, and gives
\* the session a new delay.  Once no such request is left, none gets through again.
LapsedIsFinal == [][\A t \in Tokens : Lapsed(t) => Lapsed(t)']_vars

\* A session lives only as long as it is used: behind each accepted use there is
\* another, or the login, within the idle delay, all the way back to the login,
\* and none reaches the end of the lifetime.  So once the delay has passed with no
\* accepted use, the session is over for good, even though last_seen_at may go
\* backwards when refreshes are applied out of order.
EveryUseFollowsAnother ==
    \A t \in Tokens : \A u \in uses[t] : LET s == session[t] IN
        /\ u < s.expires /\ s.expires <= s.created + Ceiling
        /\ \E v \in (uses[t] \ {u}) \cup {s.created} : v <= u /\ u <= v + s.idle
=============================================================================
