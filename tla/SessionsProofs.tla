-------------------------- MODULE SessionsProofs --------------------------
(***************************************************************************)
(* A session ends for good when it is revoked, and lives only as long as   *)
(* it is used, for every number of tokens and requests, every delay and    *)
(* however long the clock runs.                                            *)
(***************************************************************************)
EXTENDS Sessions, TLAPS

\* When a token is known to have been good: at its login, and at each use.
Known(t) == uses[t] \cup {session[t].created}

\* No gap in its use is longer than the idle delay.  (Stated for each moment up to
\* the last use, and beyond it by the delay: that last_seen_at may go backwards
\* makes no gap.)
Unbroken(t) ==
    \A x \in Nat :
        x > session[t].created /\ (\E u \in Known(t) : x <= u + session[t].idle)
            => \E v \in Known(t) : v < x /\ x <= v + session[t].idle

TokenOK(t) ==
    /\ session[t] = None => uses[t] = {}
    /\ session[t] # None =>
           /\ session[t].created <= now
           /\ session[t].seen \in Known(t)
           /\ \A u \in uses[t] : session[t].created <= u /\ u < session[t].expires
           /\ Unbroken(t)

\* What a request may rely on between its steps.
RequestOK(r) ==
    /\ r.at <= now
    /\ r.pc # "idle" => r.token \in Tokens
    /\ r.pc = "issuing" => session[r.token] = None
    /\ r.pc \in {"presented", "checked", "revoking"} => session[r.token] # None
    /\ r.pc \in {"presented", "checked"} => session[r.token].created <= r.at
    /\ r.pc = "checked" =>
           /\ r.at < session[r.token].expires
           /\ \E u \in Known(r.token) : r.at <= u + session[r.token].idle

\* Two logins never draw the same token.
DrawnOnce ==
    \A p, q \in Requests :
        /\ p # q /\ request[p].pc = "issuing" /\ request[q].pc = "issuing"
        => request[p].token # request[q].token

IInv ==
    /\ TypeOK
    /\ \A t \in Tokens : TokenOK(t)
    /\ \A q \in Requests : RequestOK(request[q])
    /\ DrawnOnce

----------------------------------------------------------------------------
LEMMA IdleIsRight ==
    ASSUME now \in Nat
    PROVE  Idle \in Request /\ RequestOK(Idle) /\ Idle.pc = "idle" /\ Idle.token = None
BY DelaysAssumption DEF Idle, Request, RequestOK

LEMMA InitIInv == Init => IInv
<1> SUFFICES ASSUME Init PROVE IInv
  OBVIOUS
<1>1. now \in 0..MaxTime
  BY DelaysAssumption DEF Init
<1>2. \A q \in Requests : request[q] = Idle
  BY DEF Init
<1>3. TypeOK
  BY <1>1, IdleIsRight DEF Init, TypeOK
<1>4. \A t \in Tokens : TokenOK(t)
  BY DEF Init, TokenOK
<1>5. (\A q \in Requests : RequestOK(request[q])) /\ DrawnOnce
  BY <1>1, <1>2, IdleIsRight DEF DrawnOnce
<1> QED BY <1>3, <1>4, <1>5 DEF IInv

\* A row once written keeps what was fixed at the login, and the history of its
\* uses only grows.
Ages(t) ==
    /\ session'[t] # None
    /\ session'[t].created = session[t].created
    /\ session'[t].idle = session[t].idle
    /\ session'[t].expires = session[t].expires
    /\ uses[t] \subseteq uses'[t]

Persist == \A t \in Tokens : session[t] # None => Ages(t)

\* What a request relies on survives the steps of the others.
LEMMA StillRight ==
    ASSUME IInv, Persist, now' \in Nat, now <= now', NEW p \in Requests,
           request'[p] = request[p],
           request[p].pc = "issuing" => session'[request[p].token] = None
    PROVE  RequestOK(request[p])'
<1>1. PICK r \in Request : r = request[p] /\ RequestOK(r)
  BY DEF IInv, TypeOK
<1>2. now \in Nat /\ r.at \in Nat
  BY DelaysAssumption DEF IInv, TypeOK, Request
<1>3. r.at <= now'
  BY <1>1, <1>2 DEF RequestOK
<1>4. r.pc \in {"presented", "checked", "revoking"} => Ages(r.token)
  BY <1>1 DEF RequestOK, Persist
<1>5. r.pc \in {"presented", "checked"} =>
          session'[r.token] # None /\ session'[r.token].created <= r.at
  BY <1>1, <1>4 DEF RequestOK, Ages
<1>6. r.pc = "checked" =>
          /\ r.at < session'[r.token].expires
          /\ \E u \in Known(r.token) : r.at <= u + session'[r.token].idle
  BY <1>1, <1>4 DEF RequestOK, Ages
<1>7. r.pc = "checked" =>
          \E u \in Known(r.token)' : r.at <= u + session'[r.token].idle
  BY <1>4, <1>6 DEF Ages, Known
<1>8. r.pc = "revoking" => session'[r.token] # None
  BY <1>4 DEF Ages
<1>9. r.pc = "issuing" => session'[r.token] = None
  BY <1>1
<1>10. request'[p] = r
  BY <1>1
<1> QED BY <1>1, <1>3, <1>5, <1>6, <1>7, <1>8, <1>9, <1>10 DEF RequestOK

\* A step that gives one request a new record, and leaves the table alone.
LEMMA RequestStep ==
    ASSUME IInv, NEW q \in Requests, NEW r \in Request,
           request' = [request EXCEPT ![q] = r],
           UNCHANGED <<now, session, uses>>, RequestOK(r),
           r.pc = "issuing" =>
               \A p \in Requests \ {q} : request[p].pc = "issuing" => request[p].token # r.token
    PROVE  IInv'
<1>1. \A p \in Requests : request'[p] = IF p = q THEN r ELSE request[p]
  BY DEF IInv, TypeOK
<1>2. TypeOK'
  BY DEF IInv, TypeOK, ChecksHold
<1>3. \A t \in Tokens : TokenOK(t)'
  BY DEF IInv, TokenOK, Known, Unbroken
<1>4. ASSUME NEW p \in Requests PROVE RequestOK(request[p])'
  <2>1. RequestOK(request'[p])
    BY <1>1 DEF IInv
  <2> QED BY <2>1 DEF RequestOK, Known
<1>5. DrawnOnce'
  BY <1>1 DEF IInv, DrawnOnce
<1> QED BY <1>2, <1>3, <1>4, <1>5 DEF IInv

LEMMA FinishStep ==
    ASSUME IInv, NEW q \in Requests, Finish(q), UNCHANGED <<now, session, uses>>
    PROVE  IInv'
<1>1. now \in Nat
  BY DelaysAssumption DEF IInv, TypeOK
<1> QED BY <1>1, IdleIsRight, RequestStep DEF Finish

\* Time passes: what was true of the clock is still true of a later one.
LEMMA TickStep == IInv /\ Tick => IInv'
<1> SUFFICES ASSUME IInv, Tick PROVE IInv'
  OBVIOUS
<1>1. /\ now \in 0..MaxTime /\ now' = now + 1 /\ now' \in 0..MaxTime
      /\ UNCHANGED <<session, uses, request>>
  BY DelaysAssumption DEF IInv, TypeOK, Tick
<1>2. TypeOK'
  BY <1>1 DEF IInv, TypeOK, ChecksHold
<1>3. ASSUME NEW t \in Tokens PROVE TokenOK(t)'
  <2>1. session[t] # None => session[t].created \in Nat
    BY DEF IInv, TypeOK, Row
  <2>2. session[t] # None => session[t].created <= now + 1
    BY <1>1, <2>1, DelaysAssumption DEF IInv, TokenOK
  <2> QED BY <1>1, <2>2 DEF IInv, TokenOK, Known, Unbroken
<1>4. ASSUME NEW p \in Requests PROVE RequestOK(request[p])'
  <2>1. Persist
    BY <1>1 DEF Persist, Ages
  <2>2. now' \in Nat /\ now <= now'
    BY <1>1, DelaysAssumption
  <2>3. request[p].pc = "issuing" => session'[request[p].token] = None
    BY <1>1 DEF IInv, RequestOK
  <2> QED BY <1>1, <2>1, <2>2, <2>3, StillRight
<1>5. DrawnOnce'
  BY <1>1 DEF IInv, DrawnOnce
<1> QED BY <1>2, <1>3, <1>4, <1>5 DEF IInv

----------------------------------------------------------------------------
\* The steps that only read.
LEMMA LoginStep ==
    ASSUME IInv, NEW q \in Requests, NEW t \in Tokens, Login(q, t)
    PROVE  IInv'
<1>1. PICK r : r = [Idle EXCEPT !.pc = "issuing", !.token = t, !.at = now]
  OBVIOUS
<1>2. r \in Request /\ r.pc = "issuing" /\ r.token = t /\ r.at = now
  BY <1>1 DEF Idle, Request, IInv, TypeOK
<1>3. /\ request' = [request EXCEPT ![q] = r] /\ UNCHANGED <<now, session, uses>>
      /\ session[t] = None
      /\ \A p \in Requests : request[p].pc = "issuing" => request[p].token # t
  BY <1>1 DEF Login, Fresh
<1>4. RequestOK(r)
  BY <1>2, <1>3, DelaysAssumption DEF RequestOK, IInv, TypeOK
<1> QED BY <1>2, <1>3, <1>4, RequestStep

LEMMA PresentStep ==
    ASSUME IInv, NEW q \in Requests, NEW t \in Tokens, Present(q, t)
    PROVE  IInv'
<1>1. PICK r : r = [Idle EXCEPT !.pc = "presented", !.token = t, !.at = now]
  OBVIOUS
<1>2. r \in Request /\ r.pc = "presented" /\ r.token = t /\ r.at = now
  BY <1>1 DEF Idle, Request, IInv, TypeOK
<1>3. /\ request' = [request EXCEPT ![q] = r] /\ UNCHANGED <<now, session, uses>>
      /\ session[t] # None
  BY <1>1 DEF Present
<1>4. session[t].created <= now
  BY <1>3 DEF IInv, TokenOK
<1>5. RequestOK(r)
  BY <1>2, <1>3, <1>4, DelaysAssumption DEF RequestOK, IInv, TypeOK
<1> QED BY <1>2, <1>3, <1>5, RequestStep

\* What the check finds: the request is within the delay of a known use.
LEMMA CheckStep ==
    ASSUME IInv, NEW q \in Requests, Check(q)
    PROVE  IInv'
<1>1. PICK r : r = [request[q] EXCEPT !.pc = "checked"]
  OBVIOUS
<1>2. request[q] \in Request /\ RequestOK(request[q])
  BY DEF IInv, TypeOK
<1>3. /\ r \in Request /\ r.pc = "checked" /\ r.token = request[q].token
      /\ r.at = request[q].at
  BY <1>1, <1>2 DEF Request
<1>4. /\ request' = [request EXCEPT ![q] = r] /\ UNCHANGED <<now, session, uses>>
      /\ request[q].pc = "presented" /\ Valid(session[r.token], r.at)
  BY <1>1, <1>3 DEF Check
<1>5. /\ r.token \in Tokens /\ session[r.token] # None
      /\ session[r.token].created <= r.at /\ r.at <= now
  BY <1>2, <1>3, <1>4 DEF RequestOK
<1>6. session[r.token].seen \in Known(r.token)
  BY <1>5 DEF IInv, TokenOK
<1>7. RequestOK(r)
  BY <1>3, <1>4, <1>5, <1>6 DEF RequestOK, Valid
<1> QED BY <1>3, <1>4, <1>7, RequestStep

----------------------------------------------------------------------------
\* The steps that write a row: it is enough to look at that row, at the token
\* of a login that is over, and at the new record.
LEMMA WriteStep ==
    ASSUME IInv, NEW q \in Requests, NEW t \in Tokens, NEW row \in Row,
           session' = [session EXCEPT ![t] = row], ChecksHold(row),
           uses' \in [Tokens -> SUBSET (0..MaxTime)],
           \A u \in Tokens \ {t} : uses'[u] = uses[u],
           TokenOK(t)', session[t] # None => Ages(t), UNCHANGED now,
           \A p \in Requests \ {q} : request[p].pc = "issuing" => request[p].token # t,
           NEW r \in Request, request' = [request EXCEPT ![q] = r], RequestOK(r)',
           r.pc # "issuing"
    PROVE  IInv'
<1>1. \A p \in Requests : request'[p] = IF p = q THEN r ELSE request[p]
  BY DEF IInv, TypeOK
<1>2. \A u \in Tokens : session'[u] = IF u = t THEN row ELSE session[u]
  BY DEF IInv, TypeOK
<1>3. TypeOK'
  BY <1>2 DEF IInv, TypeOK, ChecksHold
<1>4. ASSUME NEW u \in Tokens PROVE TokenOK(u)'
  <2>1. CASE u = t
    BY <2>1
  <2>2. CASE u # t
    BY <1>2, <2>2 DEF IInv, TokenOK, Known, Unbroken
  <2> QED BY <2>1, <2>2
<1>5. Persist
  BY <1>2 DEF Persist, Ages
<1>6. ASSUME NEW p \in Requests PROVE RequestOK(request[p])'
  <2>1. CASE p = q
    BY <1>1, <2>1
  <2>2. CASE p # q
    <3>1. request'[p] = request[p]
      BY <1>1, <2>2
    <3>2. request[p].pc = "issuing" => session'[request[p].token] = None
      BY <1>2, <2>2 DEF IInv, RequestOK
    <3>3. now' \in Nat /\ now <= now'
      BY DelaysAssumption DEF IInv, TypeOK
    <3> QED BY <1>5, <3>1, <3>2, <3>3, StillRight
  <2> QED BY <2>1, <2>2
<1>7. DrawnOnce'
  BY <1>1 DEF IInv, DrawnOnce
<1> QED BY <1>3, <1>4, <1>6, <1>7 DEF IInv

\* The row of a new token: nobody has used it, and no other login has drawn it.
LEMMA InsertStep ==
    ASSUME IInv, NEW q \in Requests, NEW account \in Accounts,
           NEW idle \in IdleTimeouts, NEW lifetime \in Lifetimes,
           Insert(q, account, idle, lifetime)
    PROVE  IInv'
<1>1. PICK r \in Request : r = request[q] /\ RequestOK(r)
  BY DEF IInv, TypeOK
<1>2. r.pc = "issuing" /\ r.token \in Tokens /\ session[r.token] = None
  BY <1>1 DEF Insert, RequestOK
<1>3. PICK row : row = NewRow(account, idle, r.at, lifetime)
  OBVIOUS
<1>4. r.at \in 0..MaxTime /\ lifetime \in 1..Ceiling /\ idle \in 1..Ceiling
  BY DelaysAssumption DEF Request
<1>5. /\ row \in Row /\ ChecksHold(row) /\ row.created = r.at /\ row.seen = r.at
      /\ row.idle = idle /\ row # None
  <2>1. r.at \in Nat /\ r.at + lifetime \in Nat
    BY <1>4, DelaysAssumption
  <2>2. row \in Row
    BY <1>3, <2>1 DEF NewRow, Row
  <2>3. /\ row.created = r.at /\ row.seen = r.at /\ row.idle = idle
        /\ row.expires = r.at + lifetime
    BY <1>3 DEF NewRow
  <2>4. ChecksHold(row)
    BY <1>4, <2>1, <2>3, DelaysAssumption DEF ChecksHold
  <2> QED BY <2>2, <2>3, <2>4, NoneAssumption
<1>6. /\ session' = [session EXCEPT ![r.token] = row] /\ UNCHANGED <<now, uses>>
      /\ request' = [request EXCEPT ![q] = Idle]
  BY <1>1, <1>3 DEF Insert, Finish
<1>7. uses'[r.token] = {} /\ session'[r.token] = row
  BY <1>2, <1>6 DEF IInv, TypeOK, TokenOK
<1>8. TokenOK(r.token)'
  <2>1. \A x \in Nat : x > r.at /\ x <= r.at + idle => r.at < x /\ x <= r.at + idle
    BY <1>4
  <2>2. \A u \in Known(r.token)' : u = r.at
    BY <1>5, <1>7 DEF Known
  <2>3. r.at \in Known(r.token)'
    BY <1>5, <1>7 DEF Known
  <2>4. Unbroken(r.token)'
    BY <1>5, <1>7, <2>1, <2>2, <2>3 DEF Unbroken
  <2>5. row.created <= now'
    BY <1>1, <1>5, <1>6 DEF RequestOK
  <2> QED BY <1>5, <1>7, <2>3, <2>4, <2>5 DEF TokenOK
<1>9. \A p \in Requests \ {q} : request[p].pc = "issuing" => request[p].token # r.token
  BY <1>1, <1>2 DEF IInv, DrawnOnce
<1>10. Idle \in Request /\ RequestOK(Idle)' /\ Idle.pc = "idle"
  BY <1>6, IdleIsRight, DelaysAssumption DEF IInv, TypeOK, RequestOK
<1>11. /\ uses' \in [Tokens -> SUBSET (0..MaxTime)]
       /\ \A u \in Tokens \ {r.token} : uses'[u] = uses[u]
  BY <1>6 DEF IInv, TypeOK
<1> QED BY <1>2, <1>5, <1>6, <1>8, <1>9, <1>10, <1>11, WriteStep

\* A use is added, within the delay of one that was known before: no gap opens,
\* even when the use is older than the last one.
LEMMA NoGapOpens ==
    ASSUME NEW t \in Tokens, Unbroken(t), NEW at \in Nat, NEW since \in Known(t),
           at <= since + session[t].idle, Known(t) \subseteq Nat,
           session[t].idle \in Nat, Known(t)' = Known(t) \cup {at},
           session'[t].created = session[t].created, session'[t].idle = session[t].idle
    PROVE  Unbroken(t)'
<1> DEFINE idle == session[t].idle
<1> SUFFICES ASSUME NEW x \in Nat, x > session[t].created,
                    NEW u \in Known(t) \cup {at}, x <= u + idle
             PROVE  \E v \in Known(t) \cup {at} : v < x /\ x <= v + idle
  BY DEF Unbroken
<1>1. CASE u = at /\ at < x
  BY <1>1
<1>2. CASE u = at /\ x <= at
  <2>1. since \in Nat /\ idle \in Nat
    OBVIOUS
  <2>2. x <= since + idle
    BY <1>2, <2>1
  <2>3. \E v \in Known(t) : v < x /\ x <= v + idle
    BY <2>2 DEF Unbroken
  <2> QED BY <2>3
<1>3. CASE u \in Known(t)
  <2>1. \E v \in Known(t) : v < x /\ x <= v + idle
    BY <1>3 DEF Unbroken
  <2> QED BY <2>1
<1> QED BY <1>1, <1>2, <1>3

LEMMA RefreshStep ==
    ASSUME IInv, NEW q \in Requests, NEW target \in Tokens \cup {None},
           Refresh(q, target)
    PROVE  IInv'
<1>1. PICK r \in Request : r = request[q] /\ RequestOK(r)
  BY DEF IInv, TypeOK
<1>2. PICK t \in Tokens : t = r.token
  BY <1>1 DEF Refresh, RequestOK
<1>3. PICK row : row = [session[t] EXCEPT !.seen = r.at]
  OBVIOUS
<1>4. /\ r.pc = "checked" /\ UNCHANGED now
      /\ session' = [session EXCEPT ![t] = row]
      /\ uses' = [uses EXCEPT ![t] = uses[t] \cup {r.at}]
      /\ request' = [request EXCEPT ![q] = GoesOn(r, target)]
  BY <1>1, <1>2, <1>3 DEF Refresh
<1>5. /\ session[t] \in Row /\ ChecksHold(session[t]) /\ session[t] # None
      /\ session[t].created <= r.at /\ r.at < session[t].expires /\ r.at <= now
      /\ TokenOK(t) /\ r.at \in 0..MaxTime /\ r.at \in Nat
      /\ session[t].created \in Nat /\ session[t].expires \in Nat
  BY <1>1, <1>2, <1>4, DelaysAssumption DEF IInv, TypeOK, RequestOK, Request, Row
<1>6. /\ row \in Row /\ ChecksHold(row) /\ row # None /\ row.seen = r.at
      /\ row.created = session[t].created /\ row.idle = session[t].idle
      /\ row.expires = session[t].expires
  BY <1>3, <1>5, NoneAssumption DEF Row, ChecksHold
<1>7. /\ session'[t] = row /\ uses'[t] = uses[t] \cup {r.at}
      /\ uses' \in [Tokens -> SUBSET (0..MaxTime)]
      /\ \A u \in Tokens \ {t} : uses'[u] = uses[u]
  BY <1>4, <1>5 DEF IInv, TypeOK
<1>8. Known(t)' = Known(t) \cup {r.at}
  BY <1>6, <1>7 DEF Known
<1>9. TokenOK(t)'
  <2>1. PICK since \in Known(t) : r.at <= since + session[t].idle
    BY <1>1, <1>2, <1>4 DEF RequestOK
  <2>2. Known(t) \subseteq Nat /\ session[t].idle \in Nat
    <3>1. uses[t] \subseteq 0..MaxTime
      BY DEF IInv, TypeOK
    <3>2. session[t].idle \in 1..Ceiling
      BY <1>5, DelaysAssumption DEF Row
    <3> QED BY <1>5, <3>1, <3>2, DelaysAssumption DEF Known
  <2>3. Unbroken(t)'
    BY <1>5, <1>6, <1>7, <1>8, <2>1, <2>2, NoGapOpens DEF TokenOK
  <2> QED BY <1>4, <1>5, <1>6, <1>7, <1>8, <2>3 DEF TokenOK
<1>10. Ages(t)
  BY <1>6, <1>7 DEF Ages
<1>11. \A p \in Requests \ {q} : request[p].pc = "issuing" => request[p].token # t
  BY <1>5 DEF IInv, RequestOK
<1>12. /\ GoesOn(r, target) \in Request /\ RequestOK(GoesOn(r, target))'
       /\ GoesOn(r, target).pc # "issuing"
  <2>1. CASE target = None
    <3>1. now' \in Nat /\ now \in Nat
      BY <1>4, DelaysAssumption DEF IInv, TypeOK
    <3> QED BY <2>1, <3>1, IdleIsRight DEF GoesOn, RequestOK, Idle
  <2>2. CASE target # None
    <3>1. PICK g : g = [Idle EXCEPT !.pc = "revoking", !.token = t, !.target = target]
      OBVIOUS
    <3>2. g = GoesOn(r, target)
      BY <1>2, <2>2, <3>1 DEF GoesOn
    <3>3. g \in Request /\ g.pc = "revoking" /\ g.token = t /\ g.at = 0
      <4>1. Idle \in Request /\ Idle.at = 0
        BY IdleIsRight, DelaysAssumption DEF IInv, TypeOK, Idle
      <4> QED BY <3>1, <4>1 DEF Request
    <3>4. 0 <= now'
      BY <1>4, DelaysAssumption DEF IInv, TypeOK
    <3>5. session'[t] # None
      BY <1>6, <1>7
    <3> HIDE <3>2
    <3>6. RequestOK(g)'
      BY <3>3, <3>4, <3>5 DEF RequestOK
    <3> QED BY <3>2, <3>3, <3>6
  <2> QED BY <2>1, <2>2
<1> QED BY <1>4, <1>6, <1>7, <1>9, <1>10, <1>11, <1>12, WriteStep

\* Revoking changes nothing else in the row.
LEMMA RevokeStep ==
    ASSUME IInv, NEW q \in Requests, Revoke(q)
    PROVE  IInv'
<1>1. CASE request[q].target \notin SessionsOf(session[request[q].token].account)
  BY <1>1, FinishStep DEF Revoke
<1>2. CASE request[q].target \in SessionsOf(session[request[q].token].account)
  <2>1. PICK t \in Tokens : t = request[q].target /\ session[t] # None
    BY <1>2 DEF SessionsOf
  <2>2. PICK row : row = [session[t] EXCEPT !.revoked = TRUE]
    OBVIOUS
  <2>3. /\ session' = [session EXCEPT ![t] = row] /\ UNCHANGED <<now, uses>>
        /\ request' = [request EXCEPT ![q] = Idle]
    BY <1>2, <2>1, <2>2 DEF Revoke, Finish
  <2>4. session[t] \in Row /\ ChecksHold(session[t]) /\ TokenOK(t)
    BY <2>1 DEF IInv, TypeOK
  <2>5. /\ row \in Row /\ ChecksHold(row) /\ row # None /\ row.seen = session[t].seen
        /\ row.created = session[t].created /\ row.idle = session[t].idle
        /\ row.expires = session[t].expires
    BY <2>2, <2>4, NoneAssumption DEF Row, ChecksHold
  <2>6. /\ session'[t] = row /\ uses'[t] = uses[t]
        /\ uses' \in [Tokens -> SUBSET (0..MaxTime)]
        /\ \A u \in Tokens \ {t} : uses'[u] = uses[u]
    BY <2>3 DEF IInv, TypeOK
  <2>7. Known(t)' = Known(t)
    BY <2>5, <2>6 DEF Known
  <2>8. TokenOK(t)'
    BY <2>1, <2>3, <2>4, <2>5, <2>6, <2>7 DEF TokenOK, Unbroken
  <2>9. Ages(t)
    BY <2>5, <2>6 DEF Ages
  <2>10. \A p \in Requests \ {q} : request[p].pc = "issuing" => request[p].token # t
    BY <2>1 DEF IInv, RequestOK
  <2>11. Idle \in Request /\ RequestOK(Idle)' /\ Idle.pc = "idle"
    BY <2>3, IdleIsRight, DelaysAssumption DEF IInv, TypeOK, RequestOK
  <2> QED BY <2>3, <2>5, <2>6, <2>8, <2>9, <2>10, <2>11, WriteStep
<1> QED BY <1>1, <1>2

----------------------------------------------------------------------------
LEMMA StepIInv == IInv /\ [Next]_vars => IInv'
<1> SUFFICES ASSUME IInv, [Next]_vars PROVE IInv'
  OBVIOUS
<1>1. CASE UNCHANGED vars
  <2>1. UNCHANGED <<now, session, uses, request>>
    BY <1>1 DEF vars
  <2> QED BY <2>1 DEF IInv, TypeOK, ChecksHold, TokenOK, Known, Unbroken, RequestOK,
             DrawnOnce
<1>2. CASE Tick
  BY <1>2, TickStep
<1>3. ASSUME NEW q \in Requests, NEW t \in Tokens, Login(q, t) \/ Present(q, t)
      PROVE  IInv'
  BY <1>3, LoginStep, PresentStep
<1>4. ASSUME NEW q \in Requests, NEW target \in Tokens \cup {None}, Refresh(q, target)
      PROVE  IInv'
  BY <1>4, RefreshStep
<1>5. ASSUME NEW q \in Requests, NEW a \in Accounts, NEW i \in IdleTimeouts,
             NEW l \in Lifetimes, Insert(q, a, i, l)
      PROVE  IInv'
  BY <1>5, InsertStep
<1>6. ASSUME NEW q \in Requests, Refuse(q) \/ Abandon(q) PROVE IInv'
  BY <1>6, FinishStep DEF Refuse, Abandon
<1>7. ASSUME NEW q \in Requests, Check(q) \/ Revoke(q) PROVE IInv'
  BY <1>7, CheckStep, RevokeStep
<1> QED BY <1>1, <1>2, <1>3, <1>4, <1>5, <1>6, <1>7 DEF Next

LEMMA Invariance == Spec => []IInv
BY InitIInv, StepIInv, PTL DEF Spec

----------------------------------------------------------------------------
\* The state is always of its type, and no statement is refused by a CHECK of the
\* table, however late it runs.
THEOREM SessionsTypeCorrect == Spec => []TypeOK
<1>1. IInv => TypeOK
  BY DEF IInv
<1> QED BY <1>1, Invariance, PTL

\* Behind each accepted use there is another, or the login, within the idle delay.
THEOREM SessionsLiveByUse == Spec => []EveryUseFollowsAnother
<1>1. ASSUME IInv PROVE EveryUseFollowsAnother
  <2> SUFFICES ASSUME NEW t \in Tokens, NEW u \in uses[t]
               PROVE  /\ u < session[t].expires
                      /\ session[t].expires <= session[t].created + Ceiling
                      /\ \E v \in (uses[t] \ {u}) \cup {session[t].created} :
                             v <= u /\ u <= v + session[t].idle
    BY DEF EveryUseFollowsAnother
  <2>1. session[t] # None
    BY <1>1 DEF IInv, TokenOK
  <2>2. /\ session[t] \in Row /\ ChecksHold(session[t]) /\ TokenOK(t)
        /\ u \in Nat /\ uses[t] \subseteq Nat
    <3>1. /\ session[t] \in Row /\ ChecksHold(session[t]) /\ TokenOK(t)
          /\ uses[t] \subseteq 0..MaxTime
      BY <1>1, <2>1 DEF IInv, TypeOK
    <3> QED BY <3>1, DelaysAssumption
  <2>3. session[t].created \in Nat /\ session[t].idle \in Nat
    <3>1. session[t].created \in Nat /\ session[t].idle \in 1..Ceiling
      BY <2>2, DelaysAssumption DEF Row
    <3> QED BY <3>1, DelaysAssumption
  <2>4. session[t].created <= u /\ u < session[t].expires /\ Unbroken(t)
    BY <2>1, <2>2 DEF TokenOK
  <2>5. CASE u = session[t].created
    BY <2>2, <2>3, <2>4, <2>5 DEF ChecksHold
  <2>6. CASE u # session[t].created
    <3>1. u > session[t].created /\ u <= u + session[t].idle /\ u \in Known(t)
      BY <2>2, <2>3, <2>4, <2>6 DEF Known
    <3>2. PICK v \in Known(t) : v < u /\ u <= v + session[t].idle
      BY <2>2, <2>4, <3>1 DEF Unbroken
    <3>3. v \in (uses[t] \ {u}) \cup {session[t].created} /\ v <= u
      BY <2>2, <2>3, <3>2 DEF Known
    <3> QED BY <2>2, <2>4, <3>2, <3>3 DEF ChecksHold
  <2> QED BY <2>5, <2>6
<1> QED BY <1>1, Invariance, PTL

\* A step reopens no session: it leaves the row revoked, and lets no request past
\* its check.
LEMMA StepKeepsClosed ==
    ASSUME IInv, [Next]_vars, NEW t \in Tokens, Closed(t)
    PROVE  Closed(t)'
<1>1. \A q \in Requests : request[q].token = t => request[q].pc \notin {"checked", "revoking", "issuing"}
  BY DEF Closed, IInv, RequestOK
<1>2. /\ session[t] # None /\ session[t] \in Row /\ session[t].revoked
      /\ session \in [Tokens -> Row \cup {None}] /\ request \in [Requests -> Request]
  BY DEF Closed, IInv, TypeOK
<1>3. CASE UNCHANGED vars \/ Tick
  BY <1>3 DEF vars, Tick, Closed
<1>4. ASSUME NEW q \in Requests, NEW r, request' = [request EXCEPT ![q] = r],
             r.token = t => r.pc \notin {"checked", "revoking"},
             session'[t] # None, session'[t].revoked
      PROVE  Closed(t)'
  <2>1. \A p \in Requests : request'[p] = IF p = q THEN r ELSE request[p]
    BY <1>2, <1>4
  <2> QED BY <1>1, <1>4, <2>1 DEF Closed
<1>5. Idle.pc = "idle"
  BY DEF Idle
<1>6. ASSUME NEW q \in Requests, NEW u \in Tokens, Login(q, u) \/ Present(q, u)
      PROVE  Closed(t)'
  <2>1. PICK pc \in {"issuing", "presented"} :
            request' = [request EXCEPT ![q] =
                            [Idle EXCEPT !.pc = pc, !.token = u, !.at = now]]
    BY <1>6 DEF Login, Present
  <2>2. [Idle EXCEPT !.pc = pc, !.token = u, !.at = now].pc = pc
    BY DEF Idle
  <2>3. session' = session
    BY <1>6 DEF Login, Present
  <2> QED BY <1>2, <1>4, <2>1, <2>2, <2>3
<1>7. ASSUME NEW q \in Requests, Refuse(q) \/ Abandon(q) PROVE Closed(t)'
  BY <1>2, <1>4, <1>5, <1>7 DEF Refuse, Abandon, Finish
<1>8. ASSUME NEW q \in Requests, Check(q) PROVE Closed(t)'
  <2>1. /\ request' = [request EXCEPT ![q] = [request[q] EXCEPT !.pc = "checked"]]
        /\ session' = session /\ request[q].token # t
    BY <1>2, <1>8 DEF Check, Valid
  <2>2. [request[q] EXCEPT !.pc = "checked"].token = request[q].token
    BY <1>2 DEF Request
  <2> QED BY <1>2, <1>4, <2>1, <2>2
<1>9. ASSUME NEW q \in Requests, NEW target \in Tokens \cup {None}, Refresh(q, target)
      PROVE  Closed(t)'
  <2>1. /\ request' = [request EXCEPT ![q] = GoesOn(request[q], target)]
        /\ session' = [session EXCEPT ![request[q].token].seen = request[q].at]
        /\ request[q].token # t
    BY <1>1, <1>9 DEF Refresh
  <2>2. GoesOn(request[q], target).token = t => GoesOn(request[q], target).pc = "idle"
    BY <2>1 DEF GoesOn, Idle
  <2>3. session'[t] = session[t]
    BY <1>2, <2>1
  <2> QED BY <1>2, <1>4, <2>1, <2>2, <2>3
<1>10. ASSUME NEW q \in Requests, NEW a \in Accounts, NEW i \in IdleTimeouts,
              NEW l \in Lifetimes, Insert(q, a, i, l)
       PROVE  Closed(t)'
  <2>1. /\ session' = [session EXCEPT ![request[q].token] =
                           NewRow(a, i, request[q].at, l)]
        /\ request[q].token # t /\ Finish(q)
    BY <1>1, <1>10 DEF Insert
  <2>2. session'[t] = session[t]
    BY <1>2, <2>1
  <2> QED BY <1>2, <1>4, <1>5, <2>1, <2>2 DEF Finish
<1>11. ASSUME NEW q \in Requests, Revoke(q) PROVE Closed(t)'
  <2>1. session'[t] # None /\ session'[t].revoked
    <3>1. CASE session' = session
      BY <1>2, <3>1
    <3>2. CASE session' = [session EXCEPT ![request[q].target].revoked = TRUE]
      <4>1. CASE request[q].target = t
        <5>1. session'[t] = [session[t] EXCEPT !.revoked = TRUE]
          BY <1>2, <3>2, <4>1
        <5>2. session'[t] \in Row /\ session'[t].revoked
          BY <1>2, <5>1 DEF Row
        <5> QED BY <5>2, NoneAssumption
      <4>2. CASE request[q].target # t
        BY <1>2, <3>2, <4>2
      <4> QED BY <4>1, <4>2
    <3> QED BY <1>11, <3>1, <3>2 DEF Revoke
  <2> QED BY <1>4, <1>5, <1>11, <2>1 DEF Revoke, Finish
<1> QED BY <1>3, <1>6, <1>7, <1>8, <1>9, <1>10, <1>11 DEF Next

\* Once the requests past their check are over, a revoked session stays closed.
THEOREM RevokedForGood == Spec => RevocationIsFinal
<1>1. IInv /\ [Next]_vars => [\A t \in Tokens : Closed(t) => Closed(t)']_vars
  BY StepKeepsClosed
<1> QED BY <1>1, Invariance, PTL DEF Spec, RevocationIsFinal

----------------------------------------------------------------------------
\* What the row and the history of a token hold, as numbers.
LEMMA NumbersOf ==
    ASSUME IInv, NEW t \in Tokens, session[t] # None
    PROVE  /\ session[t].created \in Nat /\ session[t].expires \in Nat
           /\ session[t].idle \in Nat /\ uses[t] \subseteq Nat /\ now \in Nat
<1>1. /\ session[t] \in Row /\ uses[t] \subseteq 0..MaxTime /\ now \in 0..MaxTime
  BY DEF IInv, TypeOK
<1>2. session[t].idle \in 1..Ceiling
  BY <1>1, DelaysAssumption DEF Row
<1> QED BY <1>1, <1>2, DelaysAssumption DEF Row

\* A request is refused when it comes late: last_seen_at is never beyond the last use.
LEMMA LateIsRefused ==
    ASSUME IInv, NEW t \in Tokens, session[t] # None, NEW at \in Nat, Late(t, at)
    PROVE  ~ Valid(session[t], at)
<1>1. session[t].seen \in uses[t] \cup {session[t].created}
  BY DEF IInv, TokenOK, Known
<1>2. session[t].seen \in Nat
  BY <1>1, NumbersOf
<1> QED BY <1>1, <1>2, NumbersOf DEF Late, Valid

\* Who is late stays late, at any later time.
LEMMA LateStaysLate ==
    ASSUME IInv, NEW t \in Tokens, session[t] # None, NEW at \in Nat, Late(t, at),
           NEW later \in Nat, at <= later
    PROVE  Late(t, later)
BY NumbersOf DEF Late

\* The steps that neither give the row another delay nor record a use of it.
LEMMA StaysLapsed ==
    ASSUME IInv, NEW t \in Tokens, Lapsed(t), NEW q \in Requests, NEW r,
           request' = [request EXCEPT ![q] = r], UNCHANGED now,
           session'[t] # None, uses'[t] = uses[t],
           session'[t].created = session[t].created,
           session'[t].idle = session[t].idle,
           session'[t].expires = session[t].expires,
           r.token = t => r.pc # "checked" /\ (r.pc = "presented" => Late(t, r.at))
    PROVE  Lapsed(t)'
<1>1. \A p \in Requests : request'[p] = IF p = q THEN r ELSE request[p]
  BY DEF IInv, TypeOK
<1>2. ASSUME NEW at, Late(t, at) PROVE Late(t, at)'
  BY <1>2 DEF Late
<1>3. Late(t, now)'
  BY <1>2 DEF Lapsed, Late
<1>4. ASSUME NEW p \in Requests, request'[p].token = t
      PROVE  /\ request'[p].pc # "checked"
             /\ request'[p].pc = "presented" => Late(t, request[p].at)'
  BY <1>1, <1>2, <1>4 DEF Lapsed, Late
<1> QED BY <1>3, <1>4 DEF Lapsed

\* A step revives no session that has lapsed.
LEMMA StepKeepsLapsed ==
    ASSUME IInv, [Next]_vars, NEW t \in Tokens, Lapsed(t)
    PROVE  Lapsed(t)'
<1>1. /\ session[t] # None /\ session[t] \in Row /\ now \in Nat
      /\ session \in [Tokens -> Row \cup {None}] /\ request \in [Requests -> Request]
      /\ uses \in [Tokens -> SUBSET (0..MaxTime)]
  BY DelaysAssumption DEF Lapsed, IInv, TypeOK
<1>2. CASE UNCHANGED vars
  BY <1>2 DEF vars, Lapsed, Late
<1>3. CASE Tick
  <2>1. Late(t, now + 1)
    BY <1>1, LateStaysLate DEF Lapsed
  <2> QED BY <1>3, <2>1 DEF Tick, Lapsed, Late
<1>4. Idle.pc = "idle"
  BY DEF Idle
<1>5. ASSUME NEW q \in Requests, NEW u \in Tokens, Login(q, u) PROVE Lapsed(t)'
  <2>1. PICK r : r = [Idle EXCEPT !.pc = "issuing", !.token = u, !.at = now]
    OBVIOUS
  <2>2. r.pc = "issuing"
    BY <2>1 DEF Idle
  <2>3. request' = [request EXCEPT ![q] = r] /\ UNCHANGED <<now, session, uses>>
    BY <1>5, <2>1 DEF Login
  <2> QED BY <1>1, <2>2, <2>3, StaysLapsed
<1>6. ASSUME NEW q \in Requests, NEW u \in Tokens, Present(q, u) PROVE Lapsed(t)'
  <2>1. PICK r : r = [Idle EXCEPT !.pc = "presented", !.token = u, !.at = now]
    OBVIOUS
  <2>2. r.pc = "presented" /\ r.at = now
    BY <2>1 DEF Idle
  <2>3. request' = [request EXCEPT ![q] = r] /\ UNCHANGED <<now, session, uses>>
    BY <1>6, <2>1 DEF Present
  <2>4. Late(t, r.at)
    BY <2>2 DEF Lapsed
  <2> QED BY <1>1, <2>2, <2>3, <2>4, StaysLapsed
<1>7. ASSUME NEW q \in Requests, Refuse(q) \/ Abandon(q) PROVE Lapsed(t)'
  BY <1>1, <1>4, <1>7, StaysLapsed DEF Refuse, Abandon, Finish
<1>8. ASSUME NEW q \in Requests, Check(q) PROVE Lapsed(t)'
  <2>1. PICK r : r = [request[q] EXCEPT !.pc = "checked"]
    OBVIOUS
  <2>2. r.token = request[q].token /\ request[q] \in Request
    BY <1>1, <2>1 DEF Request
  <2>3. /\ request' = [request EXCEPT ![q] = r] /\ UNCHANGED <<now, session, uses>>
        /\ request[q].pc = "presented" /\ Valid(session[request[q].token], request[q].at)
    BY <1>8, <2>1 DEF Check
  <2>4. request[q].token # t
    <3> SUFFICES ASSUME request[q].token = t PROVE FALSE
      OBVIOUS
    <3>1. Late(t, request[q].at)
      BY <2>3 DEF Lapsed
    <3>2. request[q].at \in Nat
      BY <2>2, DelaysAssumption DEF Request
    <3> QED BY <1>1, <2>3, <3>1, <3>2, LateIsRefused
  <2> QED BY <1>1, <2>2, <2>3, <2>4, StaysLapsed
<1>9. ASSUME NEW q \in Requests, NEW target \in Tokens \cup {None}, Refresh(q, target)
      PROVE  Lapsed(t)'
  <2>1. /\ request' = [request EXCEPT ![q] = GoesOn(request[q], target)]
        /\ session' = [session EXCEPT ![request[q].token].seen = request[q].at]
        /\ uses' = [uses EXCEPT ![request[q].token] = @ \cup {request[q].at}]
        /\ UNCHANGED now /\ request[q].token # t
    BY <1>9 DEF Refresh, Lapsed
  <2>2. GoesOn(request[q], target).token = t => GoesOn(request[q], target).pc = "idle"
    BY <2>1 DEF GoesOn, Idle
  <2>3. session'[t] = session[t] /\ uses'[t] = uses[t]
    BY <1>1, <2>1
  <2>4. PICK r : r = GoesOn(request[q], target)
    OBVIOUS
  <2> QED BY <1>1, <2>1, <2>2, <2>3, <2>4, StaysLapsed
<1>10. ASSUME NEW q \in Requests, NEW a \in Accounts, NEW i \in IdleTimeouts,
              NEW l \in Lifetimes, Insert(q, a, i, l)
       PROVE  Lapsed(t)'
  <2>1. /\ session' = [session EXCEPT ![request[q].token] =
                           NewRow(a, i, request[q].at, l)]
        /\ request[q].pc = "issuing" /\ Finish(q) /\ UNCHANGED <<now, uses>>
    BY <1>10 DEF Insert
  <2>2. request[q].token # t
    BY <1>1, <2>1 DEF IInv, RequestOK
  <2>3. session'[t] = session[t]
    BY <1>1, <2>1, <2>2
  <2> QED BY <1>1, <1>4, <2>1, <2>3, StaysLapsed DEF Finish
<1>11. ASSUME NEW q \in Requests, Revoke(q) PROVE Lapsed(t)'
  <2>1. /\ session'[t] # None
        /\ session'[t].created = session[t].created
        /\ session'[t].idle = session[t].idle
        /\ session'[t].expires = session[t].expires
    <3>1. CASE session' = session
      BY <1>1, <3>1
    <3>2. CASE session' = [session EXCEPT ![request[q].target].revoked = TRUE]
      <4>1. CASE request[q].target = t
        <5>1. PICK row : row = [session[t] EXCEPT !.revoked = TRUE]
          OBVIOUS
        <5>2. /\ row \in Row /\ row.created = session[t].created
              /\ row.idle = session[t].idle /\ row.expires = session[t].expires
          BY <1>1, <5>1 DEF Row
        <5>3. session'[t] = row
          BY <1>1, <3>2, <4>1, <5>1
        <5> QED BY <5>2, <5>3, NoneAssumption
      <4>2. CASE request[q].target # t
        BY <1>1, <3>2, <4>2
      <4> QED BY <4>1, <4>2
    <3> QED BY <1>11, <3>1, <3>2 DEF Revoke
  <2> QED BY <1>4, <1>11, <2>1, StaysLapsed DEF Revoke, Finish
<1> QED BY <1>2, <1>3, <1>5, <1>6, <1>7, <1>8, <1>9, <1>10, <1>11 DEF Next

\* A session that has lapsed, with no request left that came in time, is not
\* revived.
THEOREM LapsedForGood == Spec => LapsedIsFinal
<1>1. IInv /\ [Next]_vars => [\A t \in Tokens : Lapsed(t) => Lapsed(t)']_vars
  BY StepKeepsLapsed
<1> QED BY <1>1, Invariance, PTL DEF Spec, LapsedIsFinal
=============================================================================
