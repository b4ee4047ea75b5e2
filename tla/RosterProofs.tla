---------------------------- MODULE RosterProofs -----------------------------
(***************************************************************************)
(* Theorems about who may act: sessions after a sign-out (Logins), and the *)
(* admin requests that read one statement at a time (Roster), for every    *)
(* number of accounts, sessions and requests.                              *)
(*                                                                         *)
(* In the second half, about what the admins' channel shows: the posts of  *)
(* AutoPost, their log and the slots of the day, for any vacancies, slots  *)
(* and faults.                                                             *)
(***************************************************************************)
EXTENDS Roster, AutoPost, FiniteSetTheorems, SequenceTheorems, TLAPS

RosterOps == {"add", "update", "remove"}
AccountOps == {"ban", "unban", "revoke"}

-----------------------------------------------------------------------------
(***************************************************************************)
(* The invariant of the sessions.                                          *)
(***************************************************************************)

\* A login that was checked, or a session that is open, is a user's; it came
\* after the user's last sign-out, by its own time or by its link's, or it was
\* under way when the user was signed out.
Follows(login, since) ==
    /\ login \in Login
    /\ login.pc \in {"checked", "open"} => login.user \in Users
    /\ login.pc = "checked" =>
          login.link # NoLink /\ (login.late \/ login.link > since[login.user])
    /\ login.pc = "open" =>
          \/ login.late
          \/ IF login.link = NoLink THEN login.made >= since[login.user]
                                    ELSE login.link > since[login.user]

\* The watermark of the links is the second of the last sign-out.
LoginsInv ==
    /\ LoginsTypeOK
    /\ signedOut = linksBefore
    /\ \A u \in Users : linksBefore[u] <= now
    /\ \A s \in Sessions : Follows(logins[s], linksBefore)

LEMMA LoginsInvTells == LoginsInv => SignedOutStaysOut
BY DEF LoginsInv, Follows, SignedOutStaysOut

LEMMA FreshLogins ==
    /\ NoLogin \in Login /\ NoLogin.pc = "idle" /\ NoLogin.link = NoLink /\ NoLogin.late = FALSE
    /\ Gone \in Login /\ Gone.pc = "gone"
    /\ \A since : Follows(NoLogin, since) /\ Follows(Gone, since)
<1>1. -1 \in -1..MaxTime /\ 0 \in 0..MaxTime
  BY LoginsAssumption
<1>2. /\ NoLogin \in Login /\ NoLogin.pc = "idle" /\ NoLogin.link = NoLink
      /\ NoLogin.late = FALSE
  BY <1>1 DEF NoLogin, Login, NoLink
<1>3. Gone \in Login /\ Gone.pc = "gone"
  BY <1>2 DEF Gone, NoLogin, Login
<1> QED BY <1>2, <1>3 DEF Follows

LEMMA LoginsStart == RosterInit => LoginsInv
<1> SUFFICES ASSUME RosterInit PROVE LoginsInv
  OBVIOUS
<1>1. LoginsTypeOK /\ signedOut = linksBefore /\ \A u \in Users : linksBefore[u] <= now
  BY FreshLogins, LoginsAssumption DEF RosterInit, LoginsTypeOK, Never
<1>2. \A s \in Sessions : logins[s] = NoLogin
  BY DEF RosterInit
<1> QED BY <1>1, <1>2, FreshLogins DEF LoginsInv

\* One login moves, and no clock or watermark.
LEMMA OneLogin ==
    ASSUME LoginsInv, NEW s \in Sessions, NEW login, Put(s, login), Follows(login, linksBefore),
           UNCHANGED <<now, linksBefore, signedOut>>
    PROVE  LoginsInv'
<1>1. logins' \in [Sessions -> Login]
  BY DEF Put, LoginsInv, LoginsTypeOK, Follows
<1>2. \A x \in Sessions : logins'[x] = IF x = s THEN login ELSE logins[x]
  BY DEF Put, LoginsInv, LoginsTypeOK
<1>3. \A x \in Sessions : Follows(logins'[x], linksBefore)
  BY <1>2 DEF LoginsInv
<1> QED BY <1>1, <1>3 DEF LoginsInv, LoginsTypeOK

LEMMA LoginStepKeepsLoginsInv ==
    ASSUME LoginsInv, LoginStep, UNCHANGED signedOut
    PROVE  LoginsInv'
<1>1. ASSUME NEW s \in Sessions, NEW u \in Users, SignInWithInitData(s, u)
      PROVE  LoginsInv'
  <2> DEFINE login == [OpenLogin(u) EXCEPT !.made = now]
  <2>1. /\ login \in Login /\ login.pc = "open" /\ login.user = u
        /\ login.link = NoLink /\ login.made = now
    <3>1. now \in 0..MaxTime /\ -1 \in -1..MaxTime
      BY LoginsAssumption DEF LoginsInv, LoginsTypeOK
    <3> QED BY <3>1 DEF OpenLogin, NoLogin, Login, NoLink
  <2>2. Follows(login, linksBefore)
    BY <2>1 DEF Follows, LoginsInv
  <2>3. Put(s, login) /\ UNCHANGED <<now, linksBefore, signedOut>>
    BY <1>1 DEF SignInWithInitData
  <2> HIDE DEF login
  <2> QED BY <2>2, <2>3, OneLogin
<1>2. ASSUME NEW s \in Sessions, NEW u \in Users, NEW link \in 0..now, CheckLink(s, u, link)
      PROVE  LoginsInv'
  <2> DEFINE login == [NoLogin EXCEPT !.pc = "checked", !.user = u, !.link = link]
  <2>1. link \in 0..MaxTime /\ linksBefore[u] \in -1..MaxTime
    BY LoginsAssumption DEF LoginsInv, LoginsTypeOK
  <2>2. login \in Login /\ login.pc = "checked" /\ login.user = u /\ login.link = link
    <3>1. link \in -1..MaxTime /\ 0 \in 0..MaxTime
      BY <2>1, LoginsAssumption
    <3> QED BY <3>1 DEF NoLogin, Login
  <2>3. link # NoLink /\ link > linksBefore[u]
    BY <1>2, <2>1 DEF CheckLink, IsRevoked, Never, NoLink
  <2>4. Follows(login, linksBefore)
    BY <2>2, <2>3 DEF Follows
  <2>5. Put(s, login) /\ UNCHANGED <<now, linksBefore, signedOut>>
    BY <1>2 DEF CheckLink
  <2> HIDE DEF login
  <2> QED BY <2>4, <2>5, OneLogin
<1>3. ASSUME NEW s \in Sessions, SignInWithLink(s)
      PROVE  LoginsInv'
  <2> DEFINE login == [logins[s] EXCEPT !.pc = "open", !.made = now]
  <2>1. logins[s] \in Login /\ logins[s].pc = "checked" /\ Follows(logins[s], linksBefore)
    BY <1>3 DEF SignInWithLink, LoginsInv, LoginsTypeOK
  <2>2. /\ login \in Login /\ login.pc = "open" /\ login.user = logins[s].user
        /\ login.link = logins[s].link /\ login.late = logins[s].late
    BY <2>1 DEF LoginsInv, LoginsTypeOK, Login
  <2>3. Follows(login, linksBefore)
    BY <2>1, <2>2 DEF Follows
  <2>4. Put(s, login) /\ UNCHANGED <<now, linksBefore, signedOut>>
    BY <1>3 DEF SignInWithLink
  <2> HIDE DEF login
  <2> QED BY <2>3, <2>4, OneLogin
<1>4. ASSUME NEW s \in Sessions, DropExpired(s)
      PROVE  LoginsInv'
  BY <1>4, FreshLogins, OneLogin DEF DropExpired
<1>5. CASE Tick
  <2>1. UNCHANGED <<logins, linksBefore, signedOut>> /\ now' = now + 1 /\ now' \in 0..MaxTime
    BY <1>5, LoginsAssumption DEF Tick, LoginsInv, LoginsTypeOK
  <2>2. \A u \in Users : linksBefore[u] \in Int /\ linksBefore[u] <= now /\ now \in Int
    BY LoginsAssumption DEF LoginsInv, LoginsTypeOK
  <2>3. \A u \in Users : linksBefore[u] <= now'
    BY <2>1, <2>2
  <2> QED BY <2>1, <2>3 DEF LoginsInv, LoginsTypeOK
<1> QED BY <1>1, <1>2, <1>3, <1>4, <1>5 DEF LoginStep

\* A sign-out closes what is open and marks what is under way.
LEMMA SignOutKeepsLoginsInv ==
    ASSUME LoginsInv, NEW u \in Users, RevokeSessions(u), UNCHANGED now,
           signedOut' = [signedOut EXCEPT ![u] = now]
    PROVE  LoginsInv'
<1>1. /\ signedOut' = linksBefore' /\ linksBefore' \in [Users -> -1..MaxTime]
      /\ \A v \in Users : linksBefore'[v] = IF v = u THEN now ELSE linksBefore[v]
      /\ now \in 0..MaxTime
  BY DEF LoginsInv, LoginsTypeOK, RevokeSessions
<1>2. ASSUME NEW s \in Sessions
      PROVE  logins'[s] \in Login /\ Follows(logins'[s], linksBefore')
  <2>1. logins[s] \in Login /\ Follows(logins[s], linksBefore)
    BY DEF LoginsInv, LoginsTypeOK
  <2>2. CASE logins[s].user # u
    <3>1. logins'[s] = logins[s]
      BY <2>2 DEF RevokeSessions
    <3> QED BY <1>1, <2>1, <2>2, <3>1 DEF Follows
  <2>3. CASE logins[s].user = u /\ logins[s].pc = "open"
    <3>1. logins'[s] = Gone
      BY <2>3 DEF RevokeSessions, SignedOut
    <3> QED BY <3>1, FreshLogins
  <2>4. CASE logins[s].user = u /\ logins[s].pc = "checked"
    <3> DEFINE login == [logins[s] EXCEPT !.late = TRUE]
    <3>1. logins'[s] = login
      BY <2>4 DEF RevokeSessions, SignedOut
    <3>2. /\ login \in Login /\ login.pc = "checked" /\ login.late = TRUE
          /\ login.user = u /\ login.link = logins[s].link
      BY <2>1, <2>4 DEF Login
    <3> HIDE DEF login
    <3> QED BY <2>1, <2>4, <3>1, <3>2 DEF Follows
  <2>5. CASE logins[s].user = u /\ logins[s].pc \notin {"open", "checked"}
    <3>1. logins'[s] = logins[s]
      BY <2>5 DEF RevokeSessions, SignedOut
    <3> QED BY <2>1, <2>5, <3>1 DEF Follows
  <2> QED BY <2>2, <2>3, <2>4, <2>5
<1>3. logins' \in [Sessions -> Login]
  BY <1>2 DEF RevokeSessions
<1>4. \A v \in Users : linksBefore'[v] <= now'
  BY <1>1 DEF LoginsInv
<1> QED BY <1>1, <1>2, <1>3, <1>4 DEF LoginsInv, LoginsTypeOK
-----------------------------------------------------------------------------
(***************************************************************************)
(* The invariant of the admin requests: what a request has read stands, as *)
(* long as no other commit has overtaken it.                               *)
(***************************************************************************)

\* The role of u by the table T, as RoleOf, and the enabled owners of T.
Owned(T) == EnabledOwners(T)
RoleIn(u, T) ==
    IF T[u].disabled THEN "none"
    ELSE IF T[u] = NoRow /\ u \in AdminIds /\ Owned(T) = {} THEN "owner"
    ELSE T[u].role

LEMMA RoleOfIsByTheTable == \A u : RoleOf(u) = RoleIn(u, admins)
BY DEF RoleOf, RoleIn, Owned

Admitted == {"target", "owners", "last", "write"}

\* What the request q knows of the table T and the bans B.
Knows(q, T, B) ==
    /\ q.pc \in {"bootstrap", "insert"} => T[q.actor] = NoRow
    /\ q.pc = "insert" => Owned(T) = {}
    /\ q.pc \in Admitted \cup {"banned"} =>
          T[q.actor] # NoRow /\ ~T[q.actor].disabled /\ T[q.actor].role = q.role
    /\ q.pc \in Admitted => ~B[q.actor] /\ Rank(q.role) >= NeededRank(q.call.op)
    /\ q.pc \in {"last", "write"} /\ q.call.op \in RosterOps =>
          q.row = T[q.target] /\ ~Misses(q.call, q.row)
    /\ q.pc = "write" /\ q.call.op \in RosterOps /\ Dethrones(q.call, q.row) =>
          Cardinality(Owned(T)) > 1
    /\ q.pc = "owners" => T[q.target] = NoRow
    /\ q.pc = "write" /\ q.call.op \in AccountOps => Rank(RoleIn(q.target, T)) < Rank(q.role)

IsUnderWay(q) == q.pc \notin {"idle", "done"}

\* A request under way has an actor, a call and a target.
Sound(q, T, B) ==
    /\ q \in Request
    /\ IsUnderWay(q) => q.actor \in Users /\ q.call \in Calls /\ q.target \in Users
    /\ q.pc \in {"last", "owners"} =>
          q.call.op \in (IF q.pc = "last" THEN RosterOps ELSE AccountOps)
    /\ IsUnderWay(q) /\ q.overtaken = FALSE => Knows(q, T, B)

RequestsInv ==
    /\ admins \in [Users -> AdminRow \cup {NoRow}]
    /\ banned \in [Users -> BOOLEAN]
    /\ reqs \in [Requests -> Request]
    /\ \A r \in Requests : Sound(reqs[r], admins, banned)

LEMMA OvertakenRequest ==
    ASSUME NEW q \in Request
    PROVE  LET late == [q EXCEPT !.overtaken = TRUE] IN
           /\ late \in Request /\ late.overtaken = TRUE /\ late.pc = q.pc
           /\ late.actor = q.actor /\ late.call = q.call /\ late.target = q.target
<1> DEFINE late == [q EXCEPT !.overtaken = TRUE]
<1>1. ASSUME NEW Pcs, NEW Actors, NEW Asks, NEW Ranks, NEW Rows,
             q \in [pc: Pcs, actor: Actors, call: Asks, target: Actors, role: Ranks, row: Rows,
                    overtaken: BOOLEAN]
      PROVE  /\ late \in [pc: Pcs, actor: Actors, call: Asks, target: Actors, role: Ranks,
                          row: Rows, overtaken: BOOLEAN]
             /\ late.overtaken = TRUE /\ late.pc = q.pc
             /\ late.actor = q.actor /\ late.call = q.call /\ late.target = q.target
  BY <1>1
<1> HIDE DEF late
<1> QED BY <1>1 DEF Request, late

LEMMA RequestsAreEndless ==
    /\ NoRequest \in Request /\ NoRequest.pc = "idle"
    /\ Served \in Request /\ Served.pc = "done"
    /\ \A T, B : Sound(NoRequest, T, B) /\ Sound(Served, T, B)
<1>1. NoRequest \in Request /\ NoRequest.pc = "idle"
  BY DEF NoRequest, Request
<1>2. Served \in Request /\ Served.pc = "done"
  BY <1>1 DEF Served, NoRequest, Request
<1> QED BY <1>1, <1>2 DEF Sound, IsUnderWay

LEMMA RequestsStart == RosterInit => RequestsInv
<1> SUFFICES ASSUME RosterInit PROVE RequestsInv
  OBVIOUS
<1>1. admins \in [Users -> AdminRow \cup {NoRow}] /\ banned \in [Users -> BOOLEAN]
  BY CallsAssumption DEF RosterInit
<1>2. reqs \in [Requests -> Request] /\ \A r \in Requests : reqs[r] = NoRequest
  BY RequestsAreEndless DEF RosterInit
<1> QED BY <1>1, <1>2, RequestsAreEndless DEF RequestsInv

\* One request goes on as q, and writes nothing.
Goes(r, q) == reqs' = [reqs EXCEPT ![r] = q] /\ UNCHANGED <<admins, banned>>

LEMMA OneRequest ==
    ASSUME RequestsInv, NEW r \in Requests, NEW q, Goes(r, q), Sound(q, admins, banned)
    PROVE  RequestsInv'
<1>1. \A x \in Requests : reqs'[x] = IF x = r THEN q ELSE reqs[x]
  BY DEF Goes, RequestsInv
<1>2. \A x \in Requests : Sound(reqs'[x], admins, banned)
  BY <1>1 DEF RequestsInv
<1>3. reqs' \in [Requests -> Request]
  BY DEF Goes, RequestsInv, Sound
<1>4. UNCHANGED <<admins, banned>>
  BY DEF Goes
<1> QED BY <1>2, <1>3, <1>4 DEF RequestsInv

\* A request commits, and goes on as q: whoever else is under way is overtaken.
LEMMA OneCommit ==
    ASSUME RequestsInv, NEW r \in Requests, NEW q, Commit(r, q), Sound(q, admins', banned'),
           admins' \in [Users -> AdminRow \cup {NoRow}], banned' \in [Users -> BOOLEAN]
    PROVE  RequestsInv'
<1>1. ASSUME NEW x \in Requests
      PROVE  reqs'[x] \in Request /\ Sound(reqs'[x], admins', banned')
  <2>1. CASE x = r
    <3>1. reqs'[x] = q
      BY <2>1 DEF Commit
    <3> QED BY <3>1 DEF Sound
  <2>2. CASE x # r /\ ~IsUnderWay(reqs[x])
    <3>1. reqs'[x] = reqs[x]
      BY <2>2 DEF Commit, IsUnderWay
    <3>2. Sound(reqs[x], admins, banned) /\ reqs[x].pc \in {"idle", "done"}
      BY <2>2 DEF RequestsInv, IsUnderWay
    <3> QED BY <2>2, <3>1, <3>2 DEF Sound
  <2>3. CASE x # r /\ IsUnderWay(reqs[x])
    <3> DEFINE late == [reqs[x] EXCEPT !.overtaken = TRUE]
    <3>1. reqs'[x] = late
      BY <2>3 DEF Commit, IsUnderWay
    <3>2. Sound(reqs[x], admins, banned)
      BY DEF RequestsInv
    <3>3. /\ late \in Request /\ late.overtaken = TRUE /\ late.pc = reqs[x].pc
          /\ late.actor = reqs[x].actor /\ late.call = reqs[x].call
          /\ late.target = reqs[x].target
      <4>1. reqs[x] \in Request
        BY <3>2 DEF Sound
      <4> QED BY <4>1, OvertakenRequest
    <3> HIDE DEF late
    <3> QED BY <3>1, <3>2, <3>3 DEF Sound, IsUnderWay
  <2> QED BY <2>1, <2>2, <2>3
<1>2. reqs' \in [Requests -> Request]
  BY <1>1 DEF Commit
<1> QED BY <1>1, <1>2 DEF RequestsInv
Steps == {"role", "bootstrap", "insert", "banned", "target", "owners", "last", "write"}

LEMMA NextStatement ==
    ASSUME NEW q \in Request, NEW pc \in Steps
    PROVE  LET n == [q EXCEPT !.pc = pc] IN
           /\ n \in Request /\ n.pc = pc /\ n.actor = q.actor /\ n.call = q.call
           /\ n.target = q.target /\ n.role = q.role /\ n.row = q.row
           /\ n.overtaken = q.overtaken
BY DEF Steps, Request

\* A request that is under way is Sound.
LEMMA RequestUnderWay ==
    ASSUME RequestsInv, NEW r \in Requests, IsUnderWay(reqs[r])
    PROVE  /\ reqs[r] \in Request /\ Sound(reqs[r], admins, banned)
           /\ reqs[r].actor \in Users /\ reqs[r].call \in Calls /\ reqs[r].target \in Users
           /\ admins[reqs[r].actor] \in AdminRow \cup {NoRow}
           /\ admins[reqs[r].target] \in AdminRow \cup {NoRow}
           /\ reqs[r].overtaken = FALSE => Knows(reqs[r], admins, banned)
<1>1. reqs[r] \in Request /\ Sound(reqs[r], admins, banned)
  BY DEF RequestsInv
<1>2. reqs[r].actor \in Users /\ reqs[r].call \in Calls /\ reqs[r].target \in Users
      /\ (reqs[r].overtaken = FALSE => Knows(reqs[r], admins, banned))
  BY <1>1 DEF Sound
<1> QED BY <1>1, <1>2 DEF RequestsInv

\* To be refused is to be served.
LEMMA Refused ==
    ASSUME RequestsInv, NEW r \in Requests, Goes(r, Served)
    PROVE  RequestsInv'
BY OneRequest, RequestsAreEndless

LEMMA GoesOn ==
    ASSUME RequestsInv, NEW r \in Requests, IsUnderWay(reqs[r]), NEW pc \in Steps,
           Goes(r, [reqs[r] EXCEPT !.pc = pc]),
           pc \in {"last", "owners"} =>
              reqs[r].call.op \in (IF pc = "last" THEN RosterOps ELSE AccountOps),
           reqs[r].overtaken = FALSE => Knows([reqs[r] EXCEPT !.pc = pc], admins, banned)
    PROVE  RequestsInv'
<1> DEFINE n == [reqs[r] EXCEPT !.pc = pc]
<1>1. reqs[r] \in Request /\ reqs[r].actor \in Users /\ reqs[r].call \in Calls
      /\ reqs[r].target \in Users
  BY RequestUnderWay
<1>2. /\ n \in Request /\ n.pc = pc /\ n.actor = reqs[r].actor /\ n.call = reqs[r].call
      /\ n.target = reqs[r].target /\ n.overtaken = reqs[r].overtaken
  BY <1>1, NextStatement
<1>3. (reqs[r].overtaken = FALSE => Knows(n, admins, banned)) /\ Goes(r, n)
  OBVIOUS
<1> HIDE DEF n
<1>4. Sound(n, admins, banned)
  BY <1>1, <1>2, <1>3 DEF Sound
<1> QED BY <1>3, <1>4, OneRequest

LEMMA AuthenticateKeeps ==
    ASSUME LoginsInv, RequestsInv, NEW r \in Requests, NEW s \in Sessions, NEW call \in Calls,
           NEW target \in Users, Authenticate(r, s, call, target)
    PROVE  RequestsInv'
<1> DEFINE q == [NoRequest EXCEPT !.pc = "role", !.actor = logins[s].user,
                                  !.call = call, !.target = target]
<1>1. logins[s].user \in Users
  BY DEF Authenticate, Usable, LoginsInv, Follows
<1>2. /\ q \in Request /\ q.pc = "role" /\ q.actor \in Users /\ q.call = call
      /\ q.target = target
  BY <1>1, RequestsAreEndless DEF NoRequest, Request
<1>3. Goes(r, q)
  BY DEF Authenticate, Goes
<1> HIDE DEF q
<1>4. Sound(q, admins, banned)
  BY <1>2 DEF Sound, Knows, Admitted
<1> QED BY <1>3, <1>4, OneRequest

LEMMA ReadRoleKeeps ==
    ASSUME RequestsInv, NEW r \in Requests, ReadRole(r)
    PROVE  RequestsInv'
<1> DEFINE row == admins[reqs[r].actor]
           pc == IF row = NoRow THEN "bootstrap" ELSE "banned"
           q == [reqs[r] EXCEPT !.role = row.role, !.pc = pc]
<1>1. IsUnderWay(reqs[r])
  BY DEF ReadRole, IsUnderWay
<1>2. /\ reqs[r] \in Request /\ reqs[r].actor \in Users /\ reqs[r].call \in Calls
      /\ reqs[r].target \in Users /\ row \in AdminRow \cup {NoRow}
  BY <1>1, RequestUnderWay
<1>3. CASE row.disabled \/ (row = NoRow /\ reqs[r].actor \notin AdminIds)
  <2>1. Goes(r, Served)
    BY <1>3 DEF ReadRole, Actor, Goes
  <2> QED BY <2>1, Refused
<1>4. CASE ~(row.disabled \/ (row = NoRow /\ reqs[r].actor \notin AdminIds))
  <2>1. Goes(r, q)
    BY <1>4 DEF ReadRole, Actor, Goes
  <2>2. row.role \in Roles \cup {"none"}
    BY <1>2 DEF AdminRow, NoRow
  <2>3. pc \in {"bootstrap", "banned"}
    OBVIOUS
  <2>4. /\ q \in Request /\ q.pc = pc /\ q.actor = reqs[r].actor /\ q.call = reqs[r].call
        /\ q.target = reqs[r].target /\ q.role = row.role
    <3> HIDE DEF pc, row
    <3> QED BY <1>2, <2>2, <2>3 DEF Request
  <2> HIDE DEF q
  <2>5. Knows(q, admins, banned)
    BY <1>4, <2>3, <2>4 DEF Knows, Admitted
  <2>6. Sound(q, admins, banned)
    BY <1>2, <2>3, <2>4, <2>5 DEF Sound
  <2> QED BY <2>1, <2>6, OneRequest
<1> QED BY <1>3, <1>4

LEMMA ReadOwnersKeeps ==
    ASSUME RequestsInv, NEW r \in Requests, ReadOwners(r)
    PROVE  RequestsInv'
<1>1. IsUnderWay(reqs[r]) /\ reqs[r].pc = "bootstrap"
  BY DEF ReadOwners, IsUnderWay
<1>2. reqs[r] \in Request /\ (reqs[r].overtaken = FALSE => Knows(reqs[r], admins, banned))
  BY <1>1, RequestUnderWay
<1>3. CASE Owned(admins) = {}
  <2> DEFINE n == [reqs[r] EXCEPT !.pc = "insert"]
  <2>1. Goes(r, n)
    BY <1>3 DEF ReadOwners, Advance, Goes, Owned
  <2>2. n.pc = "insert" /\ n.actor = reqs[r].actor
    BY <1>2, NextStatement DEF Steps
  <2> HIDE DEF n
  <2>3. reqs[r].overtaken = FALSE => Knows(n, admins, banned)
    BY <1>1, <1>2, <1>3, <2>2 DEF Knows, Admitted
  <2> QED BY <1>1, <2>1, <2>3, GoesOn DEF n, Steps
<1>4. CASE Owned(admins) # {}
  <2>1. Goes(r, Served)
    BY <1>4 DEF ReadOwners, Advance, Goes, Owned
  <2> QED BY <2>1, Refused
<1> QED BY <1>3, <1>4

LEMMA BootstrapKeeps ==
    ASSUME RequestsInv, NEW r \in Requests, Bootstrap(r)
    PROVE  RequestsInv'
<1> DEFINE u == reqs[r].actor
           owner == [role |-> "owner", disabled |-> FALSE]
           q == [reqs[r] EXCEPT !.pc = "banned", !.role = "owner"]
<1>1. IsUnderWay(reqs[r]) /\ reqs[r].pc = "insert"
  BY DEF Bootstrap, IsUnderWay
<1>2. /\ reqs[r] \in Request /\ u \in Users /\ reqs[r].call \in Calls /\ reqs[r].target \in Users
      /\ (reqs[r].overtaken = FALSE => Knows(reqs[r], admins, banned))
  BY <1>1, RequestUnderWay
<1>3. owner \in AdminRow /\ owner # NoRow /\ owner.role = "owner" /\ owner.disabled = FALSE
  BY DEF AdminRow, Roles, NoRow
<1>4. /\ q \in Request /\ q.pc = "banned" /\ q.actor = u /\ q.call = reqs[r].call
      /\ q.target = reqs[r].target /\ q.role = "owner" /\ q.overtaken = reqs[r].overtaken
  BY <1>2 DEF Request, Roles
<1>5. /\ admins' = [admins EXCEPT ![u] = IF @ = NoRow THEN owner ELSE @]
      /\ Commit(r, q) /\ banned' = banned
  BY DEF Bootstrap, Actor
<1> HIDE DEF u, owner, q
<1>6. admins' \in [Users -> AdminRow \cup {NoRow}] /\ banned' \in [Users -> BOOLEAN]
  BY <1>3, <1>5 DEF RequestsInv
<1>7. reqs[r].overtaken = FALSE => Knows(q, admins', banned')
  <2>1. SUFFICES ASSUME reqs[r].overtaken = FALSE PROVE Knows(q, admins', banned')
    OBVIOUS
  <2>2. admins'[u] = owner
    BY <1>1, <1>2, <1>5, <2>1 DEF Knows, RequestsInv, u
  <2> QED BY <1>3, <1>4, <2>2 DEF Knows, Admitted
<1>8. Sound(q, admins', banned')
  BY <1>2, <1>4, <1>7 DEF Sound
<1> QED BY <1>5, <1>6, <1>8, OneCommit

LEMMA RequireRoleKeeps ==
    ASSUME RequestsInv, NEW r \in Requests, RequireRole(r)
    PROVE  RequestsInv'
<1>1. IsUnderWay(reqs[r]) /\ reqs[r].pc = "banned"
  BY DEF RequireRole, IsUnderWay
<1>2. reqs[r] \in Request /\ (reqs[r].overtaken = FALSE => Knows(reqs[r], admins, banned))
  BY <1>1, RequestUnderWay
<1> DEFINE may == ~banned[reqs[r].actor] /\ Rank(reqs[r].role) >= NeededRank(reqs[r].call.op)
<1>3. CASE may
  <2> DEFINE n == [reqs[r] EXCEPT !.pc = "target"]
  <2>1. Goes(r, n)
    BY <1>3 DEF RequireRole, Advance, Goes, Actor
  <2>2. /\ n.pc = "target" /\ n.actor = reqs[r].actor /\ n.role = reqs[r].role
        /\ n.call = reqs[r].call
    BY <1>2, NextStatement DEF Steps
  <2> HIDE DEF n
  <2>3. reqs[r].overtaken = FALSE => Knows(n, admins, banned)
    BY <1>1, <1>2, <1>3, <2>2 DEF Knows, Admitted
  <2> QED BY <1>1, <2>1, <2>3, GoesOn DEF n, Steps
<1>4. CASE ~may
  <2>1. Goes(r, Served)
    BY <1>4 DEF RequireRole, Advance, Goes, Actor
  <2> QED BY <2>1, Refused
<1> QED BY <1>3, <1>4
LEMMA RanksAre ==
    /\ \A role : Rank(role) \in Int
    /\ Rank("none") = -1
    /\ \A op : NeededRank(op) \in Int /\ NeededRank(op) >= 1
BY DEF Rank, NeededRank

LEMMA ReadTargetKeeps ==
    ASSUME RequestsInv, NEW r \in Requests, ReadTarget(r)
    PROVE  RequestsInv'
<1> DEFINE row == admins[reqs[r].target]
           pc == IF Dethrones(reqs[r].call, row) THEN "last" ELSE "write"
           q == [reqs[r] EXCEPT !.row = row, !.pc = pc]
<1>1. IsUnderWay(reqs[r]) /\ reqs[r].pc = "target" /\ reqs[r].call.op \in RosterOps
  BY DEF ReadTarget, IsUnderWay, RosterOps
<1>2. /\ reqs[r] \in Request /\ reqs[r].actor \in Users /\ reqs[r].call \in Calls
      /\ reqs[r].target \in Users /\ row \in AdminRow \cup {NoRow}
      /\ (reqs[r].overtaken = FALSE => Knows(reqs[r], admins, banned))
  BY <1>1, RequestUnderWay
<1>3. CASE Misses(reqs[r].call, row)
  <2>1. Goes(r, Served)
    BY <1>3 DEF ReadTarget, Goes
  <2> QED BY <2>1, Refused
<1>4. CASE ~Misses(reqs[r].call, row)
  <2>1. Goes(r, q)
    BY <1>4 DEF ReadTarget, Goes
  <2>2. pc \in {"last", "write"} /\ (pc = "write" => ~Dethrones(reqs[r].call, row))
    OBVIOUS
  <2>3. /\ q \in Request /\ q.pc = pc /\ q.actor = reqs[r].actor /\ q.call = reqs[r].call
        /\ q.target = reqs[r].target /\ q.role = reqs[r].role /\ q.row = row
        /\ q.overtaken = reqs[r].overtaken
    <3> HIDE DEF pc, row
    <3> QED BY <1>2, <2>2 DEF Request
  <2> HIDE DEF q, pc
  <2>4. reqs[r].overtaken = FALSE => Knows(q, admins, banned)
    BY <1>1, <1>2, <1>4, <2>2, <2>3 DEF Knows, Admitted, RosterOps, AccountOps
  <2>5. Sound(q, admins, banned)
    BY <1>1, <1>2, <2>2, <2>3, <2>4 DEF Sound
  <2> QED BY <2>1, <2>5, OneRequest
<1> QED BY <1>3, <1>4

LEMMA GuardLastOwnerKeeps ==
    ASSUME RequestsInv, NEW r \in Requests, GuardLastOwner(r)
    PROVE  RequestsInv'
<1>1. IsUnderWay(reqs[r]) /\ reqs[r].pc = "last"
  BY DEF GuardLastOwner, IsUnderWay
<1>2. /\ reqs[r] \in Request /\ (reqs[r].overtaken = FALSE => Knows(reqs[r], admins, banned))
      /\ Sound(reqs[r], admins, banned)
  BY <1>1, RequestUnderWay
<1>3. CASE OwnerLeft(r)
  <2> DEFINE n == [reqs[r] EXCEPT !.pc = "write"]
  <2>1. Goes(r, n)
    BY <1>3 DEF GuardLastOwner, Advance, Goes
  <2>2. /\ n.pc = "write" /\ n.actor = reqs[r].actor /\ n.role = reqs[r].role
        /\ n.call = reqs[r].call /\ n.row = reqs[r].row /\ n.target = reqs[r].target
    BY <1>2, NextStatement DEF Steps
  <2>3. Cardinality(Owned(admins)) > 1 /\ reqs[r].call.op \in RosterOps
    BY <1>1, <1>2, <1>3 DEF OwnerLeft, Owned, Sound
  <2> HIDE DEF n
  <2>4. reqs[r].overtaken = FALSE => Knows(n, admins, banned)
    BY <1>1, <1>2, <2>2, <2>3 DEF Knows, Admitted, RosterOps, AccountOps
  <2> QED BY <1>1, <2>1, <2>4, GoesOn DEF n, Steps
<1>4. CASE ~OwnerLeft(r)
  <2>1. Goes(r, Served)
    BY <1>4 DEF GuardLastOwner, Advance, Goes
  <2> QED BY <2>1, Refused
<1> QED BY <1>3, <1>4

LEMMA GuardTargetKeeps ==
    ASSUME RequestsInv, NEW r \in Requests, GuardTarget(r)
    PROVE  RequestsInv'
<1> DEFINE row == admins[reqs[r].target]
           env == row = NoRow /\ reqs[r].target \in AdminIds
           above == ~row.disabled /\ OutranksOrEquals(row.role, reqs[r].role)
<1>1. IsUnderWay(reqs[r]) /\ reqs[r].pc = "target" /\ reqs[r].call.op \in AccountOps
  BY DEF GuardTarget, IsUnderWay, AccountOps
<1>2. /\ reqs[r] \in Request
      /\ row \in AdminRow \cup {NoRow}
      /\ (reqs[r].overtaken = FALSE => Knows(reqs[r], admins, banned))
  BY <1>1, RequestUnderWay
<1>3. CASE env
  <2> DEFINE n == [reqs[r] EXCEPT !.pc = "owners"]
  <2>1. Goes(r, n)
    BY <1>3 DEF GuardTarget, Advance, Goes
  <2>2. /\ n.pc = "owners" /\ n.actor = reqs[r].actor /\ n.role = reqs[r].role
        /\ n.call = reqs[r].call /\ n.target = reqs[r].target
    BY <1>2, NextStatement DEF Steps
  <2> HIDE DEF n
  <2>3. reqs[r].overtaken = FALSE => Knows(n, admins, banned)
    BY <1>1, <1>2, <1>3, <2>2 DEF Knows, Admitted
  <2> QED BY <1>1, <2>1, <2>3, GoesOn DEF n, Steps
<1>4. CASE ~env /\ above
  <2>1. Goes(r, Served)
    BY <1>4 DEF GuardTarget, Advance, Goes
  <2> QED BY <2>1, Refused
<1>5. CASE ~env /\ ~above
  <2> DEFINE n == [reqs[r] EXCEPT !.pc = "write"]
  <2>1. Goes(r, n)
    BY <1>5 DEF GuardTarget, Advance, Goes
  <2>2. /\ n.pc = "write" /\ n.actor = reqs[r].actor /\ n.role = reqs[r].role
        /\ n.call = reqs[r].call /\ n.target = reqs[r].target
    BY <1>2, NextStatement DEF Steps
  <2> HIDE DEF n
  <2>3. ASSUME reqs[r].overtaken = FALSE PROVE Knows(n, admins, banned)
    <3>1. Rank(reqs[r].role) >= NeededRank(reqs[r].call.op)
      BY <1>1, <1>2, <2>3 DEF Knows, Admitted
    <3>2. RoleIn(reqs[r].target, admins) = IF row.disabled THEN "none" ELSE row.role
      BY <1>5 DEF RoleIn
    <3>3. row.disabled \/ row.role = "none" \/ ~(Rank(row.role) >= Rank(reqs[r].role))
      BY <1>5 DEF OutranksOrEquals
    <3>4. Rank(RoleIn(reqs[r].target, admins)) < Rank(reqs[r].role)
      <4> HIDE DEF row
      <4> QED BY <3>1, <3>2, <3>3, RanksAre
    <3> QED BY <1>1, <1>2, <2>2, <2>3, <3>4 DEF Knows, Admitted, RosterOps, AccountOps
  <2> QED BY <1>1, <2>1, <2>3, GoesOn DEF n, Steps
<1> QED BY <1>3, <1>4, <1>5

LEMMA GuardEnvTargetKeeps ==
    ASSUME RequestsInv, NEW r \in Requests, GuardEnvTarget(r)
    PROVE  RequestsInv'
<1>1. IsUnderWay(reqs[r]) /\ reqs[r].pc = "owners"
  BY DEF GuardEnvTarget, IsUnderWay
<1>2. /\ reqs[r] \in Request /\ (reqs[r].overtaken = FALSE => Knows(reqs[r], admins, banned))
      /\ Sound(reqs[r], admins, banned)
  BY <1>1, RequestUnderWay
<1>3. CASE Owned(admins) # {}
  <2> DEFINE n == [reqs[r] EXCEPT !.pc = "write"]
  <2>1. Goes(r, n)
    BY <1>3 DEF GuardEnvTarget, Advance, Goes, Owned
  <2>2. /\ n.pc = "write" /\ n.actor = reqs[r].actor /\ n.role = reqs[r].role
        /\ n.call = reqs[r].call /\ n.target = reqs[r].target
    BY <1>2, NextStatement DEF Steps
  <2> HIDE DEF n
  <2>3. ASSUME reqs[r].overtaken = FALSE PROVE Knows(n, admins, banned)
    <3>1. Rank(reqs[r].role) >= NeededRank(reqs[r].call.op) /\ admins[reqs[r].target] = NoRow
      BY <1>1, <1>2, <2>3 DEF Knows, Admitted
    <3>2. RoleIn(reqs[r].target, admins) = "none"
      BY <1>3, <3>1 DEF RoleIn, NoRow
    <3>3. Rank(RoleIn(reqs[r].target, admins)) < Rank(reqs[r].role)
      BY <3>1, <3>2, RanksAre
    <3>4. reqs[r].call.op \in AccountOps
      BY <1>1, <1>2 DEF Sound
    <3> QED BY <1>1, <1>2, <2>2, <2>3, <3>3, <3>4 DEF Knows, Admitted, RosterOps, AccountOps
  <2> QED BY <1>1, <2>1, <2>3, GoesOn DEF n, Steps
<1>4. CASE Owned(admins) = {}
  <2>1. Goes(r, Served)
    BY <1>4 DEF GuardEnvTarget, Advance, Goes, Owned
  <2> QED BY <2>1, Refused
<1> QED BY <1>3, <1>4

\* A write either finds nothing to do or is committed; both end the request.
LEMMA WriteEnds ==
    ASSUME RequestsInv, NEW r \in Requests, Write(r)
    PROVE  /\ IsUnderWay(reqs[r]) /\ reqs[r].pc = "write" /\ reqs'[r] = Served
           /\ \/ Goes(r, Served)
              \/ /\ Commit(r, Served)
                 /\ admins' \in [Users -> AdminRow \cup {NoRow}]
                 /\ banned' \in [Users -> BOOLEAN]
<1>1. IsUnderWay(reqs[r]) /\ reqs[r].pc = "write"
  BY DEF Write, AddAdmin, UpdateAdmin, RemoveAdmin, BanOrRevoke, IsUnderWay
<1>2. /\ reqs[r] \in Request /\ reqs[r].call \in Call /\ reqs[r].target \in Users
      /\ admins \in [Users -> AdminRow \cup {NoRow}] /\ banned \in [Users -> BOOLEAN]
      /\ reqs \in [Requests -> Request]
  BY <1>1, RequestUnderWay, CallsAssumption DEF RequestsInv
<1>3. CASE AddAdmin(r)
  <2>1. CASE reqs[r].row = NoRow /\ admins[reqs[r].target] # NoRow
    BY <1>1, <1>2, <1>3, <2>1 DEF AddAdmin, Advance, Goes
  <2>2. CASE ~(reqs[r].row = NoRow /\ admins[reqs[r].target] # NoRow)
    <3> DEFINE new == [role |-> reqs[r].call.role, disabled |-> FALSE]
    <3>1. Commit(r, Served) /\ banned' = banned
          /\ admins' = [admins EXCEPT ![reqs[r].target] =
                           IF reqs[r].row # NoRow /\ @ = NoRow THEN @ ELSE new]
      BY <1>3, <2>2 DEF AddAdmin
    <3>2. new \in AdminRow
      <4>1. reqs[r].call.op = "add" /\ reqs[r].call \in Calls
        BY <1>1, <1>3, RequestUnderWay DEF AddAdmin
      <4>2. reqs[r].call.role \in Roles
        BY <1>2, <4>1, CallsAssumption DEF Call
      <4> QED BY <4>2 DEF AdminRow
    <3>3. reqs'[r] = Served
      BY <3>1 DEF Commit
    <3> HIDE DEF new
    <3>4. admins' \in [Users -> AdminRow \cup {NoRow}]
      BY <1>2, <3>1, <3>2
    <3> QED BY <1>1, <1>2, <3>1, <3>3, <3>4
  <2> QED BY <2>1, <2>2
<1>4. CASE UpdateAdmin(r)
  <2> DEFINE call == reqs[r].call
             read == reqs[r].row
             t == reqs[r].target
  <2>1. CASE Patched(read, call, read) = read
    BY <1>1, <1>2, <1>4, <2>1 DEF UpdateAdmin, Advance, Goes
  <2>2. CASE Patched(read, call, read) # read
    <3>1. Commit(r, Served) /\ banned' = banned
          /\ admins' = [admins EXCEPT ![t] = IF @ = NoRow THEN @ ELSE Patched(@, call, read)]
      BY <1>4, <2>2 DEF UpdateAdmin
    <3>2. admins[t] # NoRow => Patched(admins[t], call, read) \in AdminRow
      BY <1>2 DEF Patched, AdminRow, Call, Keep
    <3>3. reqs'[r] = Served
      BY <1>2, <3>1 DEF Commit
    <3> HIDE DEF call, read, t
    <3>4. admins' \in [Users -> AdminRow \cup {NoRow}]
      BY <1>2, <3>1, <3>2 DEF t
    <3> QED BY <1>1, <1>2, <3>1, <3>3, <3>4
  <2> QED BY <2>1, <2>2
<1>5. CASE RemoveAdmin(r)
  <2>1. Commit(r, Served) /\ banned' = banned /\ admins' = [admins EXCEPT ![reqs[r].target] = NoRow]
    BY <1>5 DEF RemoveAdmin
  <2> QED BY <1>1, <1>2, <2>1 DEF Commit
<1>6. CASE BanOrRevoke(r)
  <2>1. Commit(r, Served) /\ admins' = admins
    BY <1>6 DEF BanOrRevoke
  <2>2. banned' \in [Users -> BOOLEAN]
    BY <1>2, <1>6 DEF BanOrRevoke
  <2> QED BY <1>1, <1>2, <2>1, <2>2 DEF Commit
<1> QED BY <1>3, <1>4, <1>5, <1>6 DEF Write

LEMMA WriteKeeps ==
    ASSUME RequestsInv, NEW r \in Requests, Write(r)
    PROVE  RequestsInv'
<1>1. CASE Goes(r, Served)
  BY <1>1, Refused
<1>2. CASE /\ Commit(r, Served)
           /\ admins' \in [Users -> AdminRow \cup {NoRow}]
           /\ banned' \in [Users -> BOOLEAN]
  <2>1. Sound(Served, admins', banned')
    BY RequestsAreEndless
  <2> QED BY <1>2, <2>1, OneCommit
<1> QED BY <1>1, <1>2, WriteEnds

-----------------------------------------------------------------------------
(***************************************************************************)
(* Every step keeps both invariants.                                       *)
(***************************************************************************)
Inv == LoginsInv /\ RequestsInv

LEMMA InvStart == RosterInit => Inv
BY LoginsStart, RequestsStart DEF Inv

\* A request's step leaves the sessions alone, or signs its target out.
LEMMA AdminStepKeepsLoginsInv ==
    ASSUME Inv, NEW r \in Requests, AdminStep(r)
    PROVE  LoginsInv'
<1>1. CASE UNCHANGED <<now, logins, linksBefore, signedOut>>
  BY <1>1 DEF Inv, LoginsInv, LoginsTypeOK
<1>2. CASE BanOrRevoke(r) /\ reqs[r].call.op # "unban"
  <2>1. RevokeSessions(reqs[r].target) /\ UNCHANGED now
        /\ signedOut' = [signedOut EXCEPT ![reqs[r].target] = now]
    BY <1>2 DEF BanOrRevoke
  <2>2. reqs[r].target \in Users
    BY <1>2, RequestUnderWay DEF Inv, BanOrRevoke, IsUnderWay
  <2> QED BY <2>1, <2>2, SignOutKeepsLoginsInv DEF Inv
<1>3. \/ UNCHANGED <<now, logins, linksBefore, signedOut>>
      \/ BanOrRevoke(r) /\ reqs[r].call.op # "unban"
  <2>1. CASE \E s \in Sessions, call \in Calls, target \in Users : Authenticate(r, s, call, target)
    BY <2>1 DEF Authenticate
  <2>2. CASE ReadRole(r) \/ ReadOwners(r) \/ Bootstrap(r) \/ RequireRole(r)
    BY <2>2 DEF ReadRole, ReadOwners, Bootstrap, RequireRole
  <2>3. CASE ReadTarget(r) \/ GuardLastOwner(r) \/ GuardTarget(r) \/ GuardEnvTarget(r)
    BY <2>3 DEF ReadTarget, GuardLastOwner, GuardTarget, GuardEnvTarget
  <2>4. CASE AddAdmin(r) \/ UpdateAdmin(r) \/ RemoveAdmin(r)
    BY <2>4 DEF AddAdmin, UpdateAdmin, RemoveAdmin
  <2>5. CASE BanOrRevoke(r)
    BY <2>5 DEF BanOrRevoke
  <2> QED BY <2>1, <2>2, <2>3, <2>4, <2>5 DEF AdminStep, Write
<1> QED BY <1>1, <1>2, <1>3

LEMMA StepKeepsInv == Inv /\ [RosterNext]_rosterVars => Inv'
<1> SUFFICES ASSUME Inv, [RosterNext]_rosterVars PROVE Inv'
  OBVIOUS
<1>1. CASE LoginStep /\ UNCHANGED <<admins, banned, reqs, signedOut>>
  <2>1. LoginsInv'
    BY <1>1, LoginStepKeepsLoginsInv DEF Inv
  <2>2. RequestsInv'
    BY <1>1 DEF Inv, RequestsInv
  <2> QED BY <2>1, <2>2 DEF Inv
<1>2. ASSUME NEW r \in Requests, AdminStep(r) PROVE Inv'
  <2>1. LoginsInv'
    BY <1>2, AdminStepKeepsLoginsInv
  <2>2. RequestsInv'
    <3>1. ASSUME NEW s \in Sessions, NEW call \in Calls, NEW target \in Users,
                 Authenticate(r, s, call, target)
          PROVE  RequestsInv'
      BY <3>1, AuthenticateKeeps DEF Inv
    <3>2. CASE ReadRole(r) \/ ReadOwners(r) \/ Bootstrap(r) \/ RequireRole(r)
      BY <3>2, ReadRoleKeeps, ReadOwnersKeeps, BootstrapKeeps, RequireRoleKeeps DEF Inv
    <3>3. CASE ReadTarget(r) \/ GuardLastOwner(r) \/ GuardTarget(r) \/ GuardEnvTarget(r)
      BY <3>3, ReadTargetKeeps, GuardLastOwnerKeeps, GuardTargetKeeps, GuardEnvTargetKeeps DEF Inv
    <3>4. CASE Write(r)
      BY <3>4, WriteKeeps DEF Inv
    <3> QED BY <1>2, <3>1, <3>2, <3>3, <3>4 DEF AdminStep
  <2> QED BY <2>1, <2>2 DEF Inv
<1>3. CASE UNCHANGED rosterVars
  BY <1>3 DEF rosterVars, Inv, LoginsInv, LoginsTypeOK, RequestsInv
<1> QED BY <1>1, <1>2, <1>3 DEF RosterNext

\* The invariant of the sessions and the admin requests, in every reachable
\* state.
THEOREM InvHolds == RosterSpec => []Inv
BY InvStart, StepKeepsInv, PTL DEF RosterSpec

\* A ban or a sign-out leaves no session and no link that opens one, whatever
\* logins it meets (admin_users.py, _revoke_sessions; core/session.py).
THEOREM SignOutsStand == RosterSpec => []SignedOutStaysOut
<1>1. Inv => SignedOutStaysOut
  BY LoginsInvTells DEF Inv
<1> QED BY <1>1, InvHolds, PTL

-----------------------------------------------------------------------------
(***************************************************************************)
(* What the panel does to its own table.                                   *)
(***************************************************************************)
LEMMA OwnersAreFinite ==
    ASSUME NEW T
    PROVE  IsFiniteSet(Owned(T)) /\ Cardinality(Owned(T)) \in Nat
BY RosterAssumption, FS_Subset, FS_CardinalityType DEF Owned, EnabledOwners

\* Of several owners, one is left when another one goes.
LEMMA AnotherOwner ==
    ASSUME NEW T, NEW t, Cardinality(Owned(T)) > 1
    PROVE  \E u \in Owned(T) : u # t
<1>1. SUFFICES ASSUME Owned(T) \subseteq {t} PROVE FALSE
  OBVIOUS
<1>2. IsFiniteSet({t}) /\ Cardinality({t}) = 1
  BY FS_Singleton
<1>3. Cardinality(Owned(T)) <= 1
  BY <1>1, <1>2, FS_Subset
<1> QED BY <1>3, OwnersAreFinite

\* A request that was not overtaken leaves an owner where there is one.
LEMMA WriteLeavesAnOwner ==
    ASSUME Inv, NEW r \in Requests, Write(r), reqs[r].overtaken = FALSE, Owned(admins) # {}
    PROVE  Owned(admins') # {}
<1> DEFINE t == reqs[r].target
           row == reqs[r].row
           call == reqs[r].call
<1>1. /\ reqs[r].pc = "write" /\ Knows(reqs[r], admins, banned) /\ t \in Users
      /\ admins \in [Users -> AdminRow \cup {NoRow}]
  BY WriteEnds, RequestUnderWay DEF Inv, RequestsInv
<1>2. call.op \in RosterOps => row = admins[t] /\ ~Misses(call, row)
  BY <1>1 DEF Knows
<1>3. call.op \in RosterOps /\ Dethrones(call, row) => Cardinality(Owned(admins)) > 1
  BY <1>1 DEF Knows
<1> HIDE DEF t, row, call
<1>4. CASE Cardinality(Owned(admins)) > 1 /\ \A u \in Users : u # t => admins'[u] = admins[u]
  <2>1. PICK u \in Owned(admins) : u # t
    BY <1>4, AnotherOwner
  <2>2. u \in Owned(admins')
    BY <1>4, <2>1 DEF Owned, EnabledOwners
  <2> QED BY <2>2
<1>5. ASSUME \A u \in Users : u # t => admins'[u] = admins[u],
             t \in Owned(admins) => admins'[t].role = "owner" /\ admins'[t].disabled = FALSE
      PROVE  Owned(admins') # {}
  BY <1>5 DEF Owned, EnabledOwners
<1>6. CASE AddAdmin(r)
  <2>1. \A u \in Users : u # t => admins'[u] = admins[u]
    BY <1>1, <1>6 DEF AddAdmin, t
  <2>2. t \notin Owned(admins)
    BY <1>2, <1>6 DEF AddAdmin, Misses, RosterOps, Owned, EnabledOwners, NoRow, call
  <2> QED BY <1>5, <2>1, <2>2
<1>7. CASE UpdateAdmin(r)
  <2>1. /\ \A u \in Users : u # t => admins'[u] = admins[u]
        /\ call.op = "update" /\ call.op \in RosterOps
        /\ admins'[t] = admins[t] \/ admins'[t] = Patched(admins[t], call, row)
    BY <1>1, <1>7 DEF UpdateAdmin, RosterOps, t, row, call
  <2>2. CASE Dethrones(call, row)
    BY <1>3, <1>4, <2>1, <2>2
  <2>3. CASE ~Dethrones(call, row) /\ t \in Owned(admins)
    <3>1. call \in Call
      BY WriteEnds, RequestUnderWay, CallsAssumption DEF Inv, call
    <3>2. row = admins[t]
      BY <1>2, <2>1
    <3>3. row.role = "owner" /\ row.disabled = FALSE
      <4>1. admins[t] # NoRow /\ admins[t].role = "owner" /\ ~admins[t].disabled
        BY <2>3 DEF Owned, EnabledOwners, NoRow
      <4>2. admins[t] \in AdminRow
        BY <1>1, <4>1
      <4>3. admins[t].disabled \in BOOLEAN
        BY <4>2 DEF AdminRow
      <4> QED BY <3>2, <4>1, <4>3
    <3>4. call.disabled # "yes" /\ (call.role = Keep \/ ~(Rank(call.role) < Rank("owner")))
      BY <2>1, <2>3, <3>3 DEF Dethrones
    <3>5. call.role \in {Keep, "owner"}
      BY <3>1, <3>4 DEF Call, Roles, Rank, Keep
    <3>6. Patched(row, call, row).role = "owner" /\ Patched(row, call, row).disabled = FALSE
      BY <3>3, <3>4, <3>5 DEF Patched
    <3> QED BY <1>5, <2>1, <2>3, <3>2, <3>3, <3>6 DEF Owned
  <2>4. CASE t \notin Owned(admins)
    BY <1>5, <2>1, <2>4
  <2> QED BY <2>2, <2>3, <2>4
<1>8. CASE RemoveAdmin(r)
  <2>1. /\ \A u \in Users : u # t => admins'[u] = admins[u]
        /\ call.op = "remove" /\ call.op \in RosterOps
    BY <1>1, <1>8 DEF RemoveAdmin, RosterOps, t, call
  <2>2. CASE t \in Owned(admins)
    <3>1. Dethrones(call, row)
      BY <1>2, <2>1, <2>2 DEF Dethrones, Owned, EnabledOwners
    <3> QED BY <1>3, <1>4, <2>1, <3>1
  <2>3. CASE t \notin Owned(admins)
    BY <1>5, <2>1, <2>3
  <2> QED BY <2>2, <2>3
<1>9. CASE BanOrRevoke(r)
  <2>1. admins' = admins
    BY <1>9 DEF BanOrRevoke
  <2> QED BY <2>1
<1> QED BY <1>6, <1>7, <1>8, <1>9 DEF Write

LEMMA StepsKeepOwners ==
    ASSUME Inv, RosterNext
    PROVE  \/ EnabledOwners(admins) = {} \/ EnabledOwners(admins') # {}
           \/ \E r \in Requests : reqs[r].pc = "write" /\ reqs[r].overtaken /\ reqs'[r].pc = "done"
<1>1. CASE admins' = admins
  BY <1>1
<1>2. ASSUME NEW r \in Requests, Bootstrap(r)
      PROVE  EnabledOwners(admins) = {} \/ EnabledOwners(admins') # {}
  <2>1. \A u \in Users : admins[u] # NoRow => admins'[u] = admins[u]
    BY <1>2 DEF Bootstrap, Inv, RequestsInv
  <2>2. \A u \in EnabledOwners(admins) : u \in EnabledOwners(admins')
    BY <2>1 DEF EnabledOwners, NoRow
  <2> QED BY <2>2
<1>3. ASSUME NEW r \in Requests, Write(r)
      PROVE  \/ EnabledOwners(admins) = {} \/ EnabledOwners(admins') # {}
             \/ reqs[r].pc = "write" /\ reqs[r].overtaken /\ reqs'[r].pc = "done"
  <2>1. reqs[r].pc = "write" /\ reqs'[r].pc = "done" /\ reqs[r].overtaken \in BOOLEAN
    BY <1>3, WriteEnds, RequestsAreEndless, RequestUnderWay DEF Inv, Request
  <2>2. CASE reqs[r].overtaken = FALSE
    BY <1>3, <2>2, WriteLeavesAnOwner DEF Owned
  <2> QED BY <2>1, <2>2
<1>4. \/ admins' = admins
      \/ \E r \in Requests : Bootstrap(r) \/ Write(r)
  <2>1. CASE LoginStep /\ UNCHANGED <<admins, banned, reqs, signedOut>>
    BY <2>1
  <2>2. ASSUME NEW r \in Requests, AdminStep(r)
        PROVE  admins' = admins \/ Bootstrap(r) \/ Write(r)
    BY <2>2 DEF AdminStep, Authenticate, ReadRole, ReadOwners, RequireRole, ReadTarget,
                GuardLastOwner, GuardTarget, GuardEnvTarget
  <2> QED BY <2>1, <2>2 DEF RosterNext
<1> QED BY <1>1, <1>2, <1>3, <1>4

LEMMA WritesAreAllowed ==
    ASSUME Inv, NEW r \in Requests, ~reqs[r].overtaken
    PROVE  /\ Write(r) => Permitted(r)
           /\ Bootstrap(r) => EnabledOwners(admins) = {} /\ admins[Actor(r)] = NoRow
<1>1. reqs[r].overtaken = FALSE
  BY DEF Inv, RequestsInv, Request
<1>2. ASSUME Write(r) PROVE Permitted(r)
  <2> DEFINE q == reqs[r]
  <2>1. /\ q.pc = "write" /\ Knows(q, admins, banned) /\ q \in Request
        /\ q.actor \in Users
    BY <1>1, <1>2, WriteEnds, RequestUnderWay DEF Inv
  <2>2. RoleOf(q.actor) = q.role
    BY <2>1 DEF Knows, Admitted, RoleOf
  <2>3. ~banned[q.actor] /\ Rank(q.role) >= NeededRank(q.call.op)
    BY <2>1 DEF Knows, Admitted
  <2>4. q.call.op \in AccountOps => Rank(RoleOf(q.target)) < Rank(q.role)
    BY <2>1, RoleOfIsByTheTable DEF Knows
  <2> QED BY <2>2, <2>3, <2>4 DEF Permitted, Actor, AccountOps
<1>3. ASSUME Bootstrap(r) PROVE EnabledOwners(admins) = {} /\ admins[Actor(r)] = NoRow
  <2>1. IsUnderWay(reqs[r]) /\ reqs[r].pc = "insert"
    BY <1>3 DEF Bootstrap, IsUnderWay
  <2>2. Knows(reqs[r], admins, banned)
    BY <1>1, <2>1, RequestUnderWay DEF Inv
  <2> QED BY <2>1, <2>2 DEF Knows, Owned, Actor
<1> QED BY <1>2, <1>3

\* The panel keeps an owner, and every write of it was permitted when made,
\* unless another commit overtook the request (admin_admins.py, core/auth.py).
THEOREM RosterGuarded == RosterSpec => RosterIsGuarded
<1>1. Inv /\ [RosterNext]_rosterVars =>
        [\/ EnabledOwners(admins) = {} \/ EnabledOwners(admins') # {}
         \/ \E r \in Requests : reqs[r].pc = "write" /\ reqs[r].overtaken /\ reqs'[r].pc = "done"
        ]_rosterVars
  BY StepsKeepOwners
<1>2. Inv /\ [RosterNext]_rosterVars =>
        [\A r \in Requests : ~reqs[r].overtaken =>
           /\ Write(r) => Permitted(r)
           /\ Bootstrap(r) => EnabledOwners(admins) = {} /\ admins[Actor(r)] = NoRow
        ]_rosterVars
  BY WritesAreAllowed
<1>3. RosterSpec => OwnersAreKept
  BY <1>1, InvHolds, PTL DEF RosterSpec, OwnersAreKept
<1>4. RosterSpec => WritesArePermitted
  BY <1>2, InvHolds, PTL DEF RosterSpec, WritesArePermitted
<1> QED BY <1>3, <1>4 DEF RosterIsGuarded

-----------------------------------------------------------------------------
(***************************************************************************)
(* AutoPost.                                                               *)
(***************************************************************************)
\* A task that has picked a vacancy and not recorded it yet.
Out(t) == task[t].pc \in {"send", "record"}

\* Every message is recorded, or its poster is about to record it.
MessagesAreRecorded ==
    faults = 0 =>
      \A i \in DOMAIN channel :
         \/ IsPosted(channel[i].uid)
         \/ \E t \in Tasks : task[t].pc = "record" /\ task[t].uid = channel[i].uid

OneIsAlone ==
    \A t, x \in Tasks : t # x /\ Out(t) /\ Out(x) => ~(task[t].alone /\ task[x].alone)

\* What a lone poster is about to send is new to the channel.
PicksAreNew ==
    faults = 0 => \A t \in Tasks : task[t].pc = "send" /\ task[t].alone =>
       \A i \in DOMAIN channel : channel[i].alone =>
            /\ task[t].by # "asked" => channel[i].uid # task[t].uid
            /\ task[t].by = "store" => Group[channel[i].uid] # Group[task[t].uid]

PostersHavePicks ==
    \A t \in Tasks : Out(t) => task[t].uid \in Vacancies /\ task[t].by \in {"store", "cache", "asked"}

\* The cache and the scheduler know of every closed slot but the reopened.
RowsKnow ==
    \A s \in Slots \ reopened :
       /\ cache # NoSchedule /\ schedule[s] => cache[s]
       /\ task["tick"].pc # "idle" /\ schedule[s] => task["tick"].row[s]

SlotsAreOpen ==
    /\ task["tick"].pc \in {"pick", "send", "record", "save"} =>
         task["tick"].slot \in Slots /\ ~task["tick"].row[task["tick"].slot]
    /\ task["tick"].pc # "idle" => task["tick"].row \in Schedule
    /\ task["now"].pc = "store" => task["now"].row \in Schedule
    /\ task["now"].slot = NoSlot
    /\ task["now"].pc \notin {"plan", "save"}

\* The slot is closed, or its poster has posted and will close it.
Closed(s) == \/ schedule[s]
             \/ task["tick"].pc \in {"record", "save"} /\ task["tick"].slot = s

SlotCount(s) == Cardinality({i \in DOMAIN channel : channel[i].slot = s})

SlotsAreCounted ==
    \A s \in Slots \ reopened : SlotCount(s) <= faults + (IF Closed(s) THEN 1 ELSE 0)

PicksInv == MessagesAreRecorded /\ OneIsAlone /\ PicksAreNew /\ VacanciesPostOnce
SlotInv == RowsKnow /\ SlotsAreOpen /\ SlotsAreCounted

AutoPostInv ==
    AutoPostTypeOK /\ PostersHavePicks /\ LogTellsTheChannel /\ PicksInv /\ SlotInv

-----------------------------------------------------------------------------
\* INSERT OR REPLACE keeps the other rows and the key unique.
LEMMA RemovedRow ==
    ASSUME posted \in Seq(Vacancies), IsInjective(posted),
           NEW k \in 1..Len(posted)
    PROVE  LET rest == RemoveFirst(posted, posted[k]) IN
           /\ rest \in Seq(Vacancies) /\ Len(rest) = Len(posted) - 1
           /\ \A i \in 1..Len(rest) : rest[i] = IF i < k THEN posted[i] ELSE posted[i + 1]
<1> DEFINE uid == posted[k]
           found == {i \in 1..Len(posted) : posted[i] = uid}
           before == SubSeq(posted, 1, k - 1)
           after == SubSeq(posted, k + 1, Len(posted))
           n == Len(posted)
<1>0. n \in Nat /\ DOMAIN posted = 1..n /\ k \in Int /\ 1 <= k /\ k <= n
  OBVIOUS
<1>1. found = {k}
  BY <1>0 DEF IsInjective
<1>2. Min(found) = k
  BY <1>0, <1>1 DEF Min
<1>3. SelectInSeq(posted, LAMBDA v : v = uid) = k
  <2>1. found # {}
    BY <1>1
  <2> QED BY <1>2, <2>1 DEF SelectInSeq
<1>4. RemoveFirst(posted, uid) = before \o after
  BY <1>3 DEF RemoveFirst, RemoveAt
<1>5. /\ before \in Seq(Vacancies) /\ Len(before) = k - 1
      /\ \A i \in 1..(k - 1) : before[i] = posted[i]
  <2>1. \A i \in 1..(k - 1) : posted[i] \in Vacancies
    BY <1>0
  <2>2. before \in Seq(Vacancies) /\ Len(before) = (IF 1 <= k - 1 THEN k - 1 - 1 + 1 ELSE 0)
        /\ \A i \in 1..(k - 1 - 1 + 1) : before[i] = posted[1 + i - 1]
    BY <1>0, <2>1, SubSeqProperties
  <2> HIDE DEF before
  <2> QED BY <1>0, <2>2
<1>6. /\ after \in Seq(Vacancies) /\ Len(after) = n - k
      /\ \A i \in 1..(n - k) : after[i] = posted[k + i]
  <2>1. \A i \in (k + 1)..n : posted[i] \in Vacancies
    BY <1>0
  <2>2. /\ after \in Seq(Vacancies)
        /\ Len(after) = (IF k + 1 <= n THEN n - (k + 1) + 1 ELSE 0)
        /\ \A i \in 1..(n - (k + 1) + 1) : after[i] = posted[k + 1 + i - 1]
    BY <1>0, <2>1, SubSeqProperties
  <2> HIDE DEF after, n
  <2>3. n - (k + 1) + 1 = n - k /\ (~(k + 1 <= n) => n - k = 0)
    BY <1>0
  <2>4. ASSUME NEW i \in 1..(n - k) PROVE after[i] = posted[k + i]
    <3>1. k + 1 + i - 1 = k + i
      BY <1>0
    <3> QED BY <2>2, <2>3, <3>1
  <2> QED BY <2>2, <2>3, <2>4
<1> HIDE DEF before, after, uid
<1>7. /\ before \o after \in Seq(Vacancies)
      /\ Len(before \o after) = Len(before) + Len(after)
      /\ \A i \in 1..Len(before) + Len(after) :
           (before \o after)[i] = IF i <= Len(before) THEN before[i] ELSE after[i - Len(before)]
  BY <1>5, <1>6, ConcatProperties
<1> HIDE DEF n
<1>8. Len(before \o after) = n - 1
  BY <1>0, <1>5, <1>6, <1>7
<1>9. ASSUME NEW i \in 1..(n - 1)
      PROVE  (before \o after)[i] = IF i < k THEN posted[i] ELSE posted[i + 1]
  <2>0. i \in 1..Len(before) + Len(after)
    BY <1>0, <1>5, <1>6
  <2>1. CASE i < k
    <3>1. i <= Len(before) /\ i \in 1..(k - 1)
      BY <1>0, <1>5, <2>1
    <3> QED BY <1>5, <1>7, <2>0, <2>1, <3>1
  <2>2. CASE ~(i < k)
    <3> DEFINE r == i - Len(before)
    <3>1. r \in 1..(n - k) /\ k + r = i + 1 /\ ~(i <= Len(before))
      BY <1>0, <1>5, <2>2
    <3>2. (before \o after)[i] = after[r]
      BY <1>7, <2>0, <3>1
    <3> HIDE DEF r
    <3>3. after[r] = posted[i + 1]
      BY <1>6, <3>1
    <3> QED BY <2>2, <3>2, <3>3
  <2> QED BY <2>1, <2>2
<1> QED BY <1>4, <1>7, <1>8, <1>9 DEF uid, n

LEMMA PostedGrows ==
    ASSUME posted \in Seq(Vacancies), IsInjective(posted), NEW uid \in Vacancies
    PROVE  /\ PostedNow(uid) \in Seq(Vacancies) /\ IsInjective(PostedNow(uid))
           /\ ToSet(PostedNow(uid)) = ToSet(posted) \cup {uid}
<1> DEFINE rest == RemoveFirst(posted, uid)
           new == Append(rest, uid)
           n == Len(posted)
<1>0. n \in Nat /\ DOMAIN posted = 1..n /\ PostedNow(uid) = new
  BY DEF PostedNow
<1>1. CASE \A i \in 1..Len(posted) : posted[i] # uid
  <2>1. rest = posted
    BY <1>1 DEF RemoveFirst
  <2>2. /\ new \in Seq(Vacancies) /\ Len(new) = Len(posted) + 1
        /\ \A i \in 1..Len(posted) : new[i] = posted[i]
        /\ new[Len(posted) + 1] = uid
    BY <2>1, AppendProperties
  <2>3. DOMAIN new = 1..(Len(posted) + 1)
    BY <1>0, <2>2
  <2> HIDE DEF new
  <2>4. IsInjective(new)
    BY <1>0, <1>1, <2>2, <2>3 DEF IsInjective
  <2>5. ToSet(new) = ToSet(posted) \cup {uid}
    <3>1. \A i \in DOMAIN new : new[i] \in ToSet(posted) \cup {uid}
      BY <1>0, <2>2, <2>3 DEF ToSet
    <3>2. \A i \in DOMAIN posted : posted[i] \in ToSet(new)
      BY <1>0, <2>2, <2>3 DEF ToSet
    <3>3. uid \in ToSet(new)
      <4>1. Len(posted) + 1 \in DOMAIN new
        BY <1>0, <2>3
      <4> QED BY <2>2, <4>1 DEF ToSet
    <3> QED BY <3>1, <3>2, <3>3 DEF ToSet
  <2> QED BY <1>0, <2>2, <2>4, <2>5
<1>2. CASE \E i \in 1..Len(posted) : posted[i] = uid
  <2>1. PICK k \in 1..n : posted[k] = uid
    BY <1>2
  <2>2. /\ rest \in Seq(Vacancies) /\ Len(rest) = n - 1
        /\ \A i \in 1..Len(rest) : rest[i] = IF i < k THEN posted[i] ELSE posted[i + 1]
    BY <2>1, RemovedRow
  <2> HIDE DEF rest
  <2>3. /\ new \in Seq(Vacancies) /\ Len(new) = Len(rest) + 1
        /\ \A i \in 1..Len(rest) : new[i] = rest[i]
        /\ new[Len(rest) + 1] = uid
    BY <2>2, AppendProperties
  <2> HIDE DEF new, n
  <2>4. Len(new) = n /\ DOMAIN new = 1..n /\ new[n] = uid
    <3>1. Len(new) = n /\ Len(rest) + 1 = n
      BY <1>0, <2>2, <2>3
    <3>2. DOMAIN new = 1..Len(new)
      BY <2>3
    <3> QED BY <2>3, <3>1, <3>2
  <2> DEFINE from(i) == IF i = n THEN k ELSE IF i < k THEN i ELSE i + 1
  <2>5. ASSUME NEW i \in 1..n PROVE from(i) \in 1..n /\ new[i] = posted[from(i)]
    <3>1. CASE i = n
      BY <2>1, <2>4, <3>1
    <3>2. CASE i # n
      <4>1. i \in 1..Len(rest) /\ (~(i < k) => i + 1 \in 1..n)
        BY <1>0, <2>2, <3>2
      <4>2. new[i] = IF i < k THEN posted[i] ELSE posted[i + 1]
        BY <2>2, <2>3, <4>1
      <4> QED BY <3>2, <4>1, <4>2
    <3> QED BY <3>1, <3>2
  <2>6. ASSUME NEW i \in 1..n, NEW j \in 1..n, from(i) = from(j) PROVE i = j
    <3>0. i \in Int /\ j \in Int /\ k \in Int /\ i <= n /\ j <= n /\ k <= n /\ n \in Int
      BY <1>0
    <3> QED BY <2>6, <3>0
  <2>7. IsInjective(new)
    <3> SUFFICES ASSUME NEW i \in 1..n, NEW j \in 1..n, new[i] = new[j]
                 PROVE  i = j
      BY <2>4 DEF IsInjective
    <3>1. posted[from(i)] = posted[from(j)] /\ from(i) \in DOMAIN posted /\ from(j) \in DOMAIN posted
      BY <1>0, <2>5
    <3>2. from(i) = from(j)
      <4> HIDE DEF from
      <4> QED BY <3>1 DEF IsInjective
    <3> QED BY <2>6, <3>2
  <2>8. ASSUME NEW i \in 1..n PROVE \E j \in 1..n : from(j) = i
    <3>0. i \in Int /\ k \in Int /\ 1 <= i /\ i <= n /\ 1 <= k /\ k <= n /\ n \in Int
      BY <1>0
    <3>1. CASE i = k
      <4>1. n \in 1..n /\ from(n) = i
        BY <3>0, <3>1
      <4> QED BY <4>1
    <3>2. CASE i < k
      <4>1. from(i) = i
        BY <3>0, <3>2
      <4> QED BY <4>1
    <3>3. CASE i > k
      <4>1. i - 1 \in 1..n /\ i - 1 # n /\ ~(i - 1 < k) /\ (i - 1) + 1 = i
        BY <3>0, <3>3
      <4>2. from(i - 1) = i
        BY <4>1
      <4> QED BY <4>1, <4>2
    <3> QED BY <3>0, <3>1, <3>2, <3>3
  <2>9. ToSet(new) = ToSet(posted)
    <3> HIDE DEF from
    <3>1. \A i \in DOMAIN new : new[i] \in ToSet(posted)
      BY <1>0, <2>4, <2>5 DEF ToSet
    <3>2. \A i \in DOMAIN posted : posted[i] \in ToSet(new)
      <4> SUFFICES ASSUME NEW i \in 1..n PROVE posted[i] \in ToSet(new)
        BY <1>0
      <4>1. PICK j \in 1..n : from(j) = i
        BY <2>8
      <4> QED BY <2>4, <2>5, <4>1 DEF ToSet
    <3> QED BY <3>1, <3>2 DEF ToSet
  <2>10. uid \in ToSet(posted)
    BY <1>0, <2>1 DEF ToSet
  <2> QED BY <1>0, <2>3, <2>7, <2>9, <2>10
<1> QED BY <1>1, <1>2

-----------------------------------------------------------------------------
(***************************************************************************)
(* Counting messages and attempts.                                         *)
(***************************************************************************)
\* A message more.
LEMMA OneMessageMore ==
    ASSUME NEW before \in Seq(Message), NEW m \in Message, NEW kind
    PROVE  LET after == Append(before, m)
               old == Cardinality({i \in DOMAIN before : before[i] \in kind})
           IN  /\ after \in Seq(Message) /\ DOMAIN after = DOMAIN before \cup {Len(before) + 1}
               /\ \A i \in DOMAIN before : after[i] = before[i] /\ i < Len(before) + 1
               /\ after[Len(before) + 1] = m /\ Len(before) + 1 \notin DOMAIN before
               /\ DOMAIN before = 1..Len(before) /\ Len(before) \in Nat
               /\ old \in Nat
               /\ Cardinality({i \in DOMAIN after : after[i] \in kind})
                     = old + (IF m \in kind THEN 1 ELSE 0)
<1> DEFINE n == Len(before)
           after == Append(before, m)
           told == {i \in 1..n : before[i] \in kind}
<1>1. n \in Nat /\ DOMAIN before = 1..n
  OBVIOUS
<1>2. /\ after \in Seq(Message) /\ Len(after) = n + 1 /\ after[n + 1] = m
      /\ \A i \in 1..n : after[i] = before[i]
  BY AppendProperties
<1>3. DOMAIN after = 1..(n + 1)
  BY <1>1, <1>2
<1> HIDE DEF after, n
<1>4. 1..(n + 1) = 1..n \cup {n + 1} /\ n + 1 \notin 1..n /\ \A i \in 1..n : i < n + 1
  BY <1>1
<1>5. IsFiniteSet(told) /\ Cardinality(told) \in Nat
  <2>1. IsFiniteSet(1..n)
    BY <1>1, FS_Interval
  <2>2. IsFiniteSet(told)
    BY <2>1, FS_Subset
  <2> QED BY <2>2, FS_CardinalityType
<1>6. CASE m \in kind
  <2>1. {i \in DOMAIN after : after[i] \in kind} = told \cup {n + 1}
    BY <1>2, <1>3, <1>4, <1>6
  <2>2. n + 1 \notin told
    BY <1>4
  <2>3. Cardinality(told \cup {n + 1}) = Cardinality(told) + 1
    BY <1>5, <2>2, FS_AddElement
  <2> HIDE DEF told
  <2>4. {i \in DOMAIN before : before[i] \in kind} = told
    BY <1>1 DEF told
  <2> QED BY <1>1, <1>2, <1>3, <1>4, <1>5, <1>6, <2>1, <2>3, <2>4 DEF after, n
<1>7. CASE m \notin kind
  <2>1. {i \in DOMAIN after : after[i] \in kind} = told
    BY <1>2, <1>3, <1>4, <1>7
  <2> HIDE DEF told
  <2>4. {i \in DOMAIN before : before[i] \in kind} = told
    BY <1>1 DEF told
  <2>5. Cardinality(told) = Cardinality(told) + (IF m \in kind THEN 1 ELSE 0)
    BY <1>5, <1>7
  <2>6. Cardinality({i \in DOMAIN after : after[i] \in kind})
          = Cardinality({i \in DOMAIN before : before[i] \in kind})
               + (IF m \in kind THEN 1 ELSE 0)
    BY <2>1, <2>4, <2>5
  <2> QED BY <1>1, <1>2, <1>3, <1>4, <1>5, <2>4, <2>6 DEF after, n
<1> QED BY <1>6, <1>7

\* The same of the messages of a vacancy and of a slot.
LEMMA SentGrows ==
    ASSUME AutoPostTypeOK, NEW m \in Message, channel' = Append(channel, m)
    PROVE  /\ channel' \in Seq(Message)
           /\ DOMAIN channel' = DOMAIN channel \cup {Len(channel) + 1}
           /\ \A i \in DOMAIN channel : channel'[i] = channel[i] /\ i < Len(channel) + 1
           /\ channel'[Len(channel) + 1] = m /\ Len(channel) + 1 \notin DOMAIN channel
           /\ DOMAIN channel \subseteq Nat /\ Len(channel) \in Nat
           /\ \A v : SentOf(v)' = SentOf(v) + (IF m.uid = v THEN 1 ELSE 0)
           /\ \A s : SlotCount(s)' = SlotCount(s) + (IF m.slot = s THEN 1 ELSE 0)
<1>1. channel \in Seq(Message)
  BY DEF AutoPostTypeOK
<1> DEFINE after == Append(channel, m)
<1>2. /\ after \in Seq(Message) /\ DOMAIN after = DOMAIN channel \cup {Len(channel) + 1}
      /\ \A i \in DOMAIN channel : after[i] = channel[i] /\ i < Len(channel) + 1
      /\ after[Len(channel) + 1] = m /\ Len(channel) + 1 \notin DOMAIN channel
      /\ DOMAIN channel = 1..Len(channel) /\ Len(channel) \in Nat
  BY <1>1, OneMessageMore
<1> HIDE DEF after
<1>3. \A i \in DOMAIN channel : channel[i] \in Message
  BY <1>1, <1>2
<1>4. \A i \in DOMAIN after : after[i] \in Message
  BY <1>2, <1>3
<1>5. ASSUME NEW v PROVE SentOf(v)' = SentOf(v) + (IF m.uid = v THEN 1 ELSE 0)
  <2> DEFINE kind == {x \in Message : x.uid = v}
  <2>1. Cardinality({i \in DOMAIN after : after[i] \in kind})
          = Cardinality({i \in DOMAIN channel : channel[i] \in kind})
              + (IF m \in kind THEN 1 ELSE 0)
    <3> HIDE DEF kind
    <3> QED BY <1>1, OneMessageMore DEF after
  <2>2. {i \in DOMAIN after : after[i] \in kind} = {i \in DOMAIN after : after[i].uid = v}
    BY <1>4
  <2>3. {i \in DOMAIN channel : channel[i] \in kind} = {i \in DOMAIN channel : channel[i].uid = v}
    BY <1>3
  <2>4. m \in kind <=> m.uid = v
    OBVIOUS
  <2> HIDE DEF kind
  <2>5. channel' = after
    BY DEF after
  <2> QED BY <2>1, <2>2, <2>3, <2>4, <2>5 DEF SentOf, Sent
<1>6. ASSUME NEW s PROVE SlotCount(s)' = SlotCount(s) + (IF m.slot = s THEN 1 ELSE 0)
  <2> DEFINE kind == {x \in Message : x.slot = s}
  <2>1. Cardinality({i \in DOMAIN after : after[i] \in kind})
          = Cardinality({i \in DOMAIN channel : channel[i] \in kind})
              + (IF m \in kind THEN 1 ELSE 0)
    <3> HIDE DEF kind
    <3> QED BY <1>1, OneMessageMore DEF after
  <2>2. {i \in DOMAIN after : after[i] \in kind} = {i \in DOMAIN after : after[i].slot = s}
    BY <1>4
  <2>3. {i \in DOMAIN channel : channel[i] \in kind} = {i \in DOMAIN channel : channel[i].slot = s}
    BY <1>3
  <2>4. m \in kind <=> m.slot = s
    OBVIOUS
  <2> HIDE DEF kind
  <2>5. channel' = after
    BY DEF after
  <2> QED BY <2>1, <2>2, <2>3, <2>4, <2>5 DEF SlotCount
<1> QED BY <1>2, <1>5, <1>6 DEF after

LEMMA CountsAreNumbers ==
    ASSUME AutoPostTypeOK
    PROVE  \A x : SentOf(x) \in Nat /\ SlotCount(x) \in Nat
<1>0. channel \in Seq(Message)
  BY DEF AutoPostTypeOK
<1>1. IsFiniteSet(DOMAIN channel)
  <2>1. Len(channel) \in Nat /\ DOMAIN channel = 1..Len(channel)
    BY <1>0
  <2> QED BY <2>1, FS_Interval
<1>2. ASSUME NEW S \in SUBSET DOMAIN channel PROVE Cardinality(S) \in Nat
  <2>1. IsFiniteSet(S)
    BY <1>1, FS_Subset
  <2> QED BY <2>1, FS_CardinalityType
<1>3. ASSUME NEW x PROVE SentOf(x) \in Nat /\ SlotCount(x) \in Nat
  <2>1. {i \in DOMAIN channel : channel[i].uid = x} \in SUBSET DOMAIN channel
    OBVIOUS
  <2>2. {i \in DOMAIN channel : channel[i].slot = x} \in SUBSET DOMAIN channel
    OBVIOUS
  <2> QED BY <1>2, <2>1, <2>2 DEF SentOf, Sent, SlotCount
<1> QED BY <1>3

\* An attempt in flight counts for its own vacancy.
Bit(condition) == IF condition THEN 1 ELSE 0

LEMMA PairCount ==
    ASSUME NEW found \in SUBSET Tasks
    PROVE  Cardinality(found) = Bit("tick" \in found) + Bit("now" \in found)
<1>1. Cardinality({}) = 0 /\ Cardinality({"tick"}) = 1 /\ Cardinality({"now"}) = 1
  BY FS_EmptySet, FS_Singleton
<1>2. Cardinality({"tick", "now"}) = 2
  <2>1. IsFiniteSet({"tick"}) /\ "now" \notin {"tick"}
    BY FS_Singleton
  <2>2. Cardinality({"tick"} \cup {"now"}) = Cardinality({"tick"}) + 1
    BY <2>1, FS_AddElement
  <2>3. {"tick"} \cup {"now"} = {"tick", "now"}
    OBVIOUS
  <2> QED BY <1>1, <2>2, <2>3
<1>3. CASE "tick" \in found /\ "now" \in found
  <2>1. found = {"tick", "now"}
    BY <1>3 DEF Tasks
  <2> QED BY <1>2, <1>3, <2>1 DEF Bit
<1>4. CASE "tick" \in found /\ "now" \notin found
  <2>1. found = {"tick"}
    BY <1>4 DEF Tasks
  <2> QED BY <1>1, <1>4, <2>1 DEF Bit
<1>5. CASE "tick" \notin found /\ "now" \in found
  <2>1. found = {"now"}
    BY <1>5 DEF Tasks
  <2> QED BY <1>1, <1>5, <2>1 DEF Bit
<1>6. CASE "tick" \notin found /\ "now" \notin found
  <2>1. found = {}
    BY <1>6 DEF Tasks
  <2> QED BY <1>1, <1>6, <2>1 DEF Bit
<1> QED BY <1>3, <1>4, <1>5, <1>6

Recording(t, v) == task[t].pc = "record" /\ task[t].uid = v

LEMMA UnrecordedIs ==
    \A v : /\ Unrecorded(v) = Bit(Recording("tick", v)) + Bit(Recording("now", v))
           /\ Unrecorded(v)' = Bit(Recording("tick", v)') + Bit(Recording("now", v)')
<1> SUFFICES ASSUME NEW v
             PROVE  /\ Unrecorded(v) = Bit(Recording("tick", v)) + Bit(Recording("now", v))
                    /\ Unrecorded(v)' = Bit(Recording("tick", v)') + Bit(Recording("now", v)')
  OBVIOUS
<1>0. "tick" \in Tasks /\ "now" \in Tasks
  BY DEF Tasks
<1>1. Unrecorded(v) = Bit(Recording("tick", v)) + Bit(Recording("now", v))
  <2> DEFINE found == {t \in Tasks : task[t].pc = "record" /\ task[t].uid = v}
  <2>1. /\ found \in SUBSET Tasks
        /\ "tick" \in found <=> Recording("tick", v)
        /\ "now" \in found <=> Recording("now", v)
    BY <1>0 DEF Recording
  <2>2. Unrecorded(v) = Cardinality(found)
    BY DEF Unrecorded
  <2> HIDE DEF found
  <2>3. Cardinality(found) = Bit("tick" \in found) + Bit("now" \in found)
    BY <2>1, PairCount
  <2> QED BY <2>1, <2>2, <2>3 DEF Bit
<1>2. Unrecorded(v)' = Bit(Recording("tick", v)') + Bit(Recording("now", v)')
  <2> DEFINE found == {t \in Tasks : task'[t].pc = "record" /\ task'[t].uid = v}
  <2>1. /\ found \in SUBSET Tasks
        /\ "tick" \in found <=> Recording("tick", v)'
        /\ "now" \in found <=> Recording("now", v)'
    BY <1>0 DEF Recording
  <2>2. Unrecorded(v)' = Cardinality(found)
    BY DEF Unrecorded
  <2> HIDE DEF found
  <2>3. Cardinality(found) = Bit("tick" \in found) + Bit("now" \in found)
    BY <2>1, PairCount
  <2> QED BY <2>1, <2>2, <2>3 DEF Bit
<1> QED BY <1>1, <1>2

LEMMA UnrecordedMoves ==
    ASSUME NEW t \in Tasks, NEW v,
           \A x \in Tasks : x # t => task'[x] = task[x]
    PROVE  \E others \in {0, 1} :
              /\ Unrecorded(v) = Bit(Recording(t, v)) + others
              /\ Unrecorded(v)' = Bit(Recording(t, v)') + others
<1>1. CASE t = "tick"
  <2>1. task'["now"] = task["now"]
    BY <1>1 DEF Tasks
  <2>2. Recording("now", v)' = Recording("now", v)
    BY <2>1 DEF Recording
  <2>3. Bit(Recording("now", v)) \in {0, 1}
    BY DEF Bit
  <2>4. Bit(Recording("now", v)') = Bit(Recording("now", v))
    BY <2>2 DEF Bit
  <2> QED BY <1>1, <2>3, <2>4, UnrecordedIs
<1>2. CASE t = "now"
  <2>1. task'["tick"] = task["tick"]
    BY <1>2 DEF Tasks
  <2>2. Recording("tick", v)' = Recording("tick", v)
    BY <2>1 DEF Recording
  <2>3. Bit(Recording("tick", v)) \in {0, 1}
    BY DEF Bit
  <2>4. Bit(Recording("tick", v)') = Bit(Recording("tick", v))
    BY <2>2 DEF Bit
  <2>5. Bit(Recording("now", v)) \in {0, 1} /\ Bit(Recording("now", v)') \in {0, 1}
    BY DEF Bit
  <2>6. /\ Unrecorded(v) = Bit(Recording("now", v)) + Bit(Recording("tick", v))
        /\ Unrecorded(v)' = Bit(Recording("now", v)') + Bit(Recording("tick", v))
    BY <2>3, <2>4, <2>5, UnrecordedIs
  <2> QED BY <1>2, <2>3, <2>6
<1> QED BY <1>1, <1>2 DEF Tasks

-----------------------------------------------------------------------------
(***************************************************************************)
(* Steps of a task.                                                        *)
(***************************************************************************)
LEMMA StepTask ==
    ASSUME AutoPostTypeOK, NEW t \in Tasks, NEW next \in Task, Step(t, next)
    PROVE  /\ task' \in [Tasks -> Task] /\ task'[t] = next
           /\ \A x \in Tasks : x # t => task'[x] = task[x]
<1> task \in [Tasks -> Task]
  BY DEF AutoPostTypeOK
<1> QED BY DEF Step

LEMMA TaskFields ==
    ASSUME NEW r \in Task
    PROVE  /\ r.pc \in {"idle", "store", "plan", "pick", "send", "record", "skip", "save"}
           /\ r.row \in Schedule \cup {NoSchedule} /\ r.slot \in Slots \cup {NoSlot}
           /\ r.uid \in Vacancies \cup {NoVacancy}
           /\ r.by \in {"none", "store", "cache", "asked"} /\ r.alone \in BOOLEAN
           /\ r = [pc |-> r.pc, row |-> r.row, slot |-> r.slot, uid |-> r.uid, by |-> r.by,
                   alone |-> r.alone]
BY DEF Task

LEMMA OverIs ==
    ASSUME AutoPostTypeOK, NEW t \in Tasks
    PROVE  /\ Over(t) \in Task /\ Over(t).uid = NoVacancy /\ Over(t).by = "none"
           /\ Over(t).alone = FALSE
           /\ t = "tick" => /\ Over(t).pc = "save" /\ Over(t).row = task[t].row
                            /\ Over(t).slot = task[t].slot
           /\ t # "tick" => Over(t) = Idle
           /\ Idle \in Task /\ Idle.pc = "idle" /\ Idle.slot = NoSlot /\ Idle.uid = NoVacancy
           /\ Idle.row = NoSchedule
<1>1. task[t] \in Task
  BY DEF AutoPostTypeOK
<1>2. task[t].row \in Schedule \cup {NoSchedule} /\ task[t].slot \in Slots \cup {NoSlot}
  BY <1>1, TaskFields
<1>3. /\ Idle \in Task /\ Idle.pc = "idle" /\ Idle.slot = NoSlot /\ Idle.uid = NoVacancy
      /\ Idle.by = "none" /\ Idle.alone = FALSE /\ Idle.row = NoSchedule
  BY DEF Idle, Task
<1> DEFINE row == task[t].row
           slot == task[t].slot
<1>4. CASE t = "tick"
  <2>1. Over(t) = [pc |-> "save", row |-> row, slot |-> slot, uid |-> NoVacancy,
                   by |-> "none", alone |-> FALSE]
    BY <1>4 DEF Over, Idle
  <2>2. row \in Schedule \cup {NoSchedule} /\ slot \in Slots \cup {NoSlot}
    BY <1>2
  <2> HIDE DEF row, slot
  <2>3. /\ Over(t) \in Task /\ Over(t).uid = NoVacancy /\ Over(t).by = "none"
        /\ Over(t).alone = FALSE /\ Over(t).pc = "save" /\ Over(t).row = row
        /\ Over(t).slot = slot
    BY <2>1, <2>2 DEF Task
  <2> QED BY <1>3, <1>4, <2>3 DEF row, slot
<1>5. CASE t # "tick"
  <2>1. Over(t) = Idle
    BY <1>5 DEF Over
  <2> QED BY <1>3, <1>5, <2>1
<1> QED BY <1>4, <1>5

-----------------------------------------------------------------------------
(***************************************************************************)
(* Steps that post nothing.                                                *)
(***************************************************************************)
\* No attempt starts, ends or moves on.
Undisturbed ==
    \A t \in Tasks : Out(t) \/ Out(t)' =>
        /\ task'[t].pc = task[t].pc /\ task'[t].uid = task[t].uid
        /\ task'[t].by = task[t].by /\ task'[t].alone = task[t].alone

LEMMA Calm ==
    ASSUME AutoPostTypeOK, NEW t \in Tasks, NEW next \in Task, Step(t, next),
           task[t].pc \notin {"send", "record"}, next.pc \notin {"send", "record"}
    PROVE  Undisturbed
<1>1. task'[t] = next /\ \A x \in Tasks : x # t => task'[x] = task[x]
  BY StepTask
<1> SUFFICES ASSUME NEW x \in Tasks, Out(x) \/ Out(x)'
             PROVE  task'[x] = task[x]
  BY DEF Undisturbed
<1>2. x # t
  BY <1>1 DEF Out
<1> QED BY <1>1, <1>2

LEMMA NothingPosted ==
    ASSUME AutoPostInv, UNCHANGED <<posted, logged, channel, faults>>, Undisturbed
    PROVE  PostersHavePicks' /\ LogTellsTheChannel' /\ PicksInv'
<1>1. \A t \in Tasks : Out(t) \/ Out(t)' =>
          /\ Out(t)' = Out(t)
          /\ task'[t].pc = task[t].pc /\ task'[t].uid = task[t].uid
          /\ task'[t].by = task[t].by /\ task'[t].alone = task[t].alone
  BY DEF Undisturbed, Out
<1>2. PostersHavePicks'
  BY <1>1 DEF AutoPostInv, PostersHavePicks
<1>3. \A v : SentOf(v)' = SentOf(v) /\ IsPosted(v)' = IsPosted(v)
  BY DEF SentOf, Sent, IsPosted
<1>4. ASSUME NEW v PROVE Unrecorded(v)' = Unrecorded(v)
  <2>1. \A t \in Tasks : Recording(t, v)' <=> Recording(t, v)
    BY <1>1 DEF Recording, Out
  <2>2. Bit(Recording("tick", v)') = Bit(Recording("tick", v))
        /\ Bit(Recording("now", v)') = Bit(Recording("now", v))
    BY <2>1 DEF Bit, Tasks
  <2> QED BY <2>2, UnrecordedIs
<1>5. LogTellsTheChannel'
  BY <1>3, <1>4 DEF AutoPostInv, LogTellsTheChannel
<1>6. MessagesAreRecorded'
  <2> SUFFICES ASSUME faults = 0, NEW i \in DOMAIN channel
               PROVE  \/ IsPosted(channel[i].uid)
                      \/ \E t \in Tasks : task'[t].pc = "record" /\ task'[t].uid = channel[i].uid
    BY DEF MessagesAreRecorded, IsPosted
  <2>1. CASE IsPosted(channel[i].uid)
    BY <2>1
  <2>2. CASE \E t \in Tasks : task[t].pc = "record" /\ task[t].uid = channel[i].uid
    BY <1>1, <2>2 DEF Out
  <2> QED BY <2>1, <2>2 DEF AutoPostInv, PicksInv, MessagesAreRecorded
<1>7. OneIsAlone'
  BY <1>1 DEF AutoPostInv, PicksInv, OneIsAlone
<1>8. PicksAreNew'
  <2> SUFFICES ASSUME faults = 0, NEW t \in Tasks, task'[t].pc = "send", task'[t].alone,
                      NEW i \in DOMAIN channel, channel[i].alone
               PROVE  /\ task'[t].by # "asked" => channel[i].uid # task'[t].uid
                      /\ task'[t].by = "store" => Group[channel[i].uid] # Group[task'[t].uid]
    BY DEF PicksAreNew
  <2>1. /\ task'[t].pc = task[t].pc /\ task'[t].uid = task[t].uid
        /\ task'[t].by = task[t].by /\ task'[t].alone = task[t].alone
    BY <1>1 DEF Out
  <2>2. /\ task[t].by # "asked" => channel[i].uid # task[t].uid
        /\ task[t].by = "store" => Group[channel[i].uid] # Group[task[t].uid]
    BY <2>1 DEF AutoPostInv, PicksInv, PicksAreNew
  <2> QED BY <2>1, <2>2
<1>9. VacanciesPostOnce'
  BY DEF AutoPostInv, PicksInv, VacanciesPostOnce
<1> QED BY <1>2, <1>5, <1>6, <1>7, <1>8, <1>9 DEF PicksInv

\* No slot is closed behind its poster's back, and none is opened.
LEMMA SlotsStayCounted ==
    ASSUME AutoPostInv, UNCHANGED <<channel, faults>>, reopened \subseteq reopened',
           \A s \in Slots \ reopened' : Closed(s) => Closed(s)'
    PROVE  SlotsAreCounted'
<1> SUFFICES ASSUME NEW s \in Slots \ reopened'
             PROVE  SlotCount(s)' <= faults' + (IF Closed(s)' THEN 1 ELSE 0)
  BY DEF SlotsAreCounted
<1>1. SlotCount(s)' = SlotCount(s)
  BY DEF SlotCount
<1>2. SlotCount(s) <= faults + (IF Closed(s) THEN 1 ELSE 0)
  BY DEF AutoPostInv, SlotInv, SlotsAreCounted
<1>3. SlotCount(s) \in Nat /\ faults \in Nat
  BY CountsAreNumbers, AutoPostAssumption DEF AutoPostInv, AutoPostTypeOK
<1>4. Closed(s) => Closed(s)'
  OBVIOUS
<1> QED BY <1>1, <1>2, <1>3, <1>4

LEMMA QuietStep ==
    ASSUME AutoPostInv, UNCHANGED <<posted, logged, channel, faults>>, Undisturbed,
           task' \in [Tasks -> Task],
           fresh' \subseteq Vacancies, schedule' \in Schedule,
           cache' \in Schedule \cup {NoSchedule}, clock' \in [Slots -> {"future", "due", "stale"}],
           reopened \subseteq reopened', reopened' \subseteq Slots,
           RowsKnow', SlotsAreOpen',
           \A s \in Slots \ reopened' : Closed(s) => Closed(s)'
    PROVE  AutoPostInv'
<1>1. AutoPostTypeOK'
  BY DEF AutoPostInv, AutoPostTypeOK
<1>2. PostersHavePicks' /\ LogTellsTheChannel' /\ PicksInv'
  BY NothingPosted
<1>3. SlotsAreCounted'
  BY SlotsStayCounted
<1> QED BY <1>1, <1>2, <1>3 DEF AutoPostInv, SlotInv

LEMMA UseCacheKeeps ==
    ASSUME AutoPostInv, UseCache PROVE AutoPostInv'
<1> DEFINE next == [Idle EXCEPT !.pc = "plan", !.row = cache]
<1>0. AutoPostTypeOK /\ "tick" \in Tasks
  BY DEF AutoPostInv, Tasks
<1>1. /\ task["tick"].pc = "idle" /\ Step("tick", next) /\ cache \in Schedule
      /\ cache # NoSchedule
      /\ UNCHANGED <<fresh, posted, logged, channel, schedule, cache, clock, faults, reopened>>
  BY <1>0 DEF UseCache, AutoPostTypeOK
<1>2. Idle \in Task
  BY <1>0, OverIs
<1>3. next \in Task /\ next.pc = "plan" /\ next.row = cache
  BY <1>1, <1>2 DEF Task
<1> HIDE DEF next
<1>4. task' \in [Tasks -> Task] /\ task'["tick"] = next /\ task'["now"] = task["now"]
  BY <1>0, <1>1, <1>3, StepTask DEF Tasks
<1>5. Undisturbed
  BY <1>0, <1>1, <1>3, Calm
<1>6. RowsKnow'
  BY <1>1, <1>3, <1>4 DEF AutoPostInv, SlotInv, RowsKnow
<1>7. SlotsAreOpen'
  BY <1>1, <1>3, <1>4 DEF AutoPostInv, SlotInv, SlotsAreOpen
<1>8. \A s \in Slots \ reopened' : Closed(s) => Closed(s)'
  BY <1>1 DEF Closed
<1> QED BY <1>0, <1>1, <1>4, <1>5, <1>6, <1>7, <1>8, QuietStep DEF AutoPostTypeOK

LEMMA ReadSettingsKeeps ==
    ASSUME AutoPostInv, NEW t \in Tasks, NEW asked \in Vacancies \cup {NoVacancy},
           ReadSettings(t, asked)
    PROVE  AutoPostInv'
<1> DEFINE next == [Idle EXCEPT !.pc = "store", !.row = schedule, !.uid = asked]
<1>0. AutoPostTypeOK
  BY DEF AutoPostInv
<1>1. /\ task[t].pc = "idle" /\ Step(t, next) /\ schedule \in Schedule
      /\ UNCHANGED <<fresh, posted, logged, channel, schedule, cache, clock, faults, reopened>>
  BY <1>0 DEF ReadSettings, AutoPostTypeOK
<1>2. Idle \in Task /\ Idle.slot = NoSlot
  BY <1>0, OverIs
<1>3. next \in Task /\ next.pc = "store" /\ next.row = schedule /\ next.slot = NoSlot
  BY <1>1, <1>2 DEF Task
<1> HIDE DEF next
<1>4. task' \in [Tasks -> Task] /\ task'[t] = next /\ \A x \in Tasks : x # t => task'[x] = task[x]
  BY <1>0, <1>1, <1>3, StepTask
<1>5. Undisturbed
  BY <1>0, <1>1, <1>3, Calm
<1>6. RowsKnow'
  BY <1>1, <1>3, <1>4 DEF AutoPostInv, SlotInv, RowsKnow, Tasks
<1>7. SlotsAreOpen'
  BY <1>1, <1>3, <1>4 DEF AutoPostInv, SlotInv, SlotsAreOpen, Tasks
<1>8. \A s \in Slots \ reopened' : Closed(s) => Closed(s)'
  BY <1>1, <1>4 DEF Closed, Tasks
<1> QED BY <1>0, <1>1, <1>4, <1>5, <1>6, <1>7, <1>8, QuietStep DEF AutoPostTypeOK

LEMMA StoreCacheKeeps ==
    ASSUME AutoPostInv, NEW t \in Tasks, StoreCache(t)
    PROVE  AutoPostInv'
<1> DEFINE next == IF t = "tick" THEN [task[t] EXCEPT !.pc = "plan"]
                   ELSE [Idle EXCEPT !.pc = "pick", !.uid = task[t].uid]
<1>0. AutoPostTypeOK /\ task[t] \in Task
  BY DEF AutoPostInv, AutoPostTypeOK
<1>1. /\ task[t].pc = "store" /\ Step(t, next) /\ cache' = task[t].row
      /\ reopened' = reopened \cup {s \in Slots : schedule[s] /\ ~task[t].row[s]}
      /\ UNCHANGED <<fresh, posted, logged, channel, schedule, clock, faults>>
  BY DEF StoreCache
<1>2. task[t].row \in Schedule
  BY <1>1 DEF AutoPostInv, SlotInv, SlotsAreOpen, Tasks
<1>3. /\ next \in Task
      /\ t = "tick" => next.pc = "plan" /\ next.row = task[t].row
      /\ t # "tick" => next.pc = "pick" /\ next.slot = NoSlot
  <2>1. CASE t = "tick"
    <3>1. next = [task[t] EXCEPT !.pc = "plan"]
      BY <2>1
    <3> HIDE DEF next
    <3> QED BY <1>0, <2>1, <3>1 DEF Task
  <2>2. CASE t # "tick"
    <3>1. next = [pc |-> "pick", row |-> NoSchedule, slot |-> NoSlot, uid |-> task[t].uid,
                  by |-> "none", alone |-> FALSE]
      BY <2>2 DEF Idle
    <3>2. task[t].uid \in Vacancies \cup {NoVacancy}
      BY <1>0, TaskFields
    <3> HIDE DEF next
    <3> QED BY <2>2, <3>1, <3>2 DEF Task
  <2> QED BY <2>1, <2>2
<1> HIDE DEF next
<1>4. task' \in [Tasks -> Task] /\ task'[t] = next /\ \A x \in Tasks : x # t => task'[x] = task[x]
  BY <1>0, <1>1, <1>3, StepTask
<1>5. Undisturbed
  <2>1. next.pc \notin {"send", "record"} /\ task[t].pc \notin {"send", "record"}
    BY <1>1, <1>3
  <2> QED BY <1>0, <1>1, <1>3, <2>1, Calm
<1>6. RowsKnow'
  <2> SUFFICES ASSUME NEW s \in Slots \ reopened'
               PROVE  /\ cache' # NoSchedule /\ schedule[s] => cache'[s]
                      /\ task'["tick"].pc # "idle" /\ schedule[s] => task'["tick"].row[s]
    BY <1>1 DEF RowsKnow
  <2>1. s \in Slots \ reopened /\ (schedule[s] => task[t].row[s])
    BY <1>1
  <2>2. task["tick"].pc # "idle" /\ schedule[s] => task["tick"].row[s]
    BY <2>1 DEF AutoPostInv, SlotInv, RowsKnow
  <2>3. task'["tick"].row = task["tick"].row /\ (task'["tick"].pc = "idle" <=> task["tick"].pc = "idle")
    BY <1>1, <1>3, <1>4 DEF Tasks
  <2> QED BY <1>1, <2>1, <2>2, <2>3
<1>7. SlotsAreOpen'
  <2>1. CASE t = "tick"
    BY <1>1, <1>2, <1>3, <1>4, <2>1 DEF AutoPostInv, SlotInv, SlotsAreOpen, Tasks
  <2>2. CASE t = "now"
    BY <1>1, <1>3, <1>4, <2>2 DEF AutoPostInv, SlotInv, SlotsAreOpen, Tasks
  <2> QED BY <2>1, <2>2 DEF Tasks
<1>8. \A s \in Slots \ reopened' : Closed(s) => Closed(s)'
  <2>1. schedule' = schedule
    BY <1>1
  <2>2. task["tick"].pc \in {"record", "save"} => task'["tick"] = task["tick"]
    BY <1>1, <1>4 DEF Tasks
  <2> QED BY <2>1, <2>2 DEF Closed
<1>9. reopened \subseteq reopened' /\ reopened' \subseteq Slots
  BY <1>0, <1>1 DEF AutoPostTypeOK
<1> QED BY <1>0, <1>1, <1>2, <1>4, <1>5, <1>6, <1>7, <1>8, <1>9, QuietStep DEF AutoPostTypeOK

\* The steps of the world.
LEMMA WorldKeeps ==
    ASSUME AutoPostInv,
           \/ CacheExpires \/ \E v \in Vacancies : Close(v)
           \/ \E s \in Slots : SlotFallsDue(s) \/ SlotGrowsStale(s)
    PROVE  AutoPostInv'
<1>0. AutoPostTypeOK
  BY DEF AutoPostInv
<1> DEFINE Goal == /\ UNCHANGED <<posted, logged, channel, faults, schedule, task, reopened>>
                   /\ fresh' \subseteq fresh /\ cache' \in {cache, NoSchedule}
                   /\ clock' \in [Slots -> {"future", "due", "stale"}]
<1>1. Goal
  <2>1. CASE CacheExpires
    BY <1>0, <2>1 DEF CacheExpires, AutoPostTypeOK
  <2>2. ASSUME NEW v \in Vacancies, Close(v) PROVE Goal
    BY <1>0, <2>2 DEF Close, AutoPostTypeOK
  <2>3. ASSUME NEW s \in Slots, SlotFallsDue(s) PROVE Goal
    BY <1>0, <2>3 DEF SlotFallsDue, AutoPostTypeOK
  <2>4. ASSUME NEW s \in Slots, SlotGrowsStale(s) PROVE Goal
    BY <1>0, <2>4 DEF SlotGrowsStale, AutoPostTypeOK
  <2> QED BY <2>1, <2>2, <2>3, <2>4
<1>2. Undisturbed
  BY <1>1 DEF Undisturbed
<1>3. RowsKnow' /\ SlotsAreOpen'
  BY <1>1 DEF AutoPostInv, SlotInv, RowsKnow, SlotsAreOpen
<1>4. \A s \in Slots \ reopened' : Closed(s) => Closed(s)'
  BY <1>1 DEF Closed
<1> QED BY <1>0, <1>1, <1>2, <1>3, <1>4, QuietStep DEF AutoPostTypeOK

LEMMA CloseStaleKeeps ==
    ASSUME AutoPostInv, CloseStale PROVE AutoPostInv'
<1> DEFINE row == task["tick"].row
           closed == [s \in Slots |-> row[s] \/ clock[s] = "stale"]
           next == [task["tick"] EXCEPT !.row = closed]
<1>0. AutoPostTypeOK /\ "tick" \in Tasks /\ task["tick"] \in Task
  BY DEF AutoPostInv, AutoPostTypeOK, Tasks
<1>1. /\ task["tick"].pc = "plan" /\ Step("tick", next)
      /\ schedule' = closed /\ cache' = NoSchedule
      /\ UNCHANGED <<fresh, posted, logged, channel, clock, faults, reopened>>
  BY DEF CloseStale
<1>2. row \in Schedule
  BY <1>1 DEF AutoPostInv, SlotInv, SlotsAreOpen
<1>3. closed \in Schedule /\ \A s \in Slots : row[s] => closed[s]
  BY <1>2 DEF Schedule
<1>4. \A s \in Slots \ reopened : schedule[s] => row[s]
  BY <1>1 DEF AutoPostInv, SlotInv, RowsKnow
<1> HIDE DEF closed
<1>5. next \in Task /\ next.pc = "plan" /\ next.row = closed
  BY <1>0, <1>1, <1>3 DEF Task
<1> HIDE DEF next
<1>6. task' \in [Tasks -> Task] /\ task'["tick"] = next /\ task'["now"] = task["now"]
  BY <1>0, <1>1, <1>5, StepTask DEF Tasks
<1>7. Undisturbed
  BY <1>0, <1>1, <1>5, Calm
<1>8. RowsKnow'
  BY <1>1, <1>5, <1>6 DEF RowsKnow
<1>9. SlotsAreOpen'
  BY <1>1, <1>3, <1>5, <1>6 DEF AutoPostInv, SlotInv, SlotsAreOpen
<1>10. \A s \in Slots \ reopened' : Closed(s) => Closed(s)'
  BY <1>1, <1>3, <1>4 DEF Closed
<1> QED BY <1>0, <1>1, <1>3, <1>6, <1>7, <1>8, <1>9, <1>10, QuietStep DEF AutoPostTypeOK

LEMMA ServeSlotKeeps ==
    ASSUME AutoPostInv, NEW s \in Slots, ServeSlot(s) PROVE AutoPostInv'
<1> DEFINE next == [task["tick"] EXCEPT !.pc = "pick", !.slot = s]
<1>0. AutoPostTypeOK /\ "tick" \in Tasks /\ task["tick"] \in Task
  BY DEF AutoPostInv, AutoPostTypeOK, Tasks
<1>1. /\ task["tick"].pc = "plan" /\ Step("tick", next) /\ ~task["tick"].row[s]
      /\ UNCHANGED <<fresh, posted, logged, channel, schedule, cache, clock, faults, reopened>>
  BY DEF ServeSlot, Due, Open
<1>2. next \in Task /\ next.pc = "pick" /\ next.slot = s /\ next.row = task["tick"].row
  BY <1>0 DEF Task
<1> HIDE DEF next
<1>3. task' \in [Tasks -> Task] /\ task'["tick"] = next /\ task'["now"] = task["now"]
  BY <1>0, <1>1, <1>2, StepTask DEF Tasks
<1>4. Undisturbed
  BY <1>0, <1>1, <1>2, Calm
<1>5. RowsKnow'
  BY <1>1, <1>2, <1>3 DEF AutoPostInv, SlotInv, RowsKnow
<1>6. SlotsAreOpen'
  BY <1>1, <1>2, <1>3 DEF AutoPostInv, SlotInv, SlotsAreOpen
<1>7. \A x \in Slots \ reopened' : Closed(x) => Closed(x)'
  BY <1>1 DEF Closed
<1> QED BY <1>0, <1>1, <1>3, <1>4, <1>5, <1>6, <1>7, QuietStep DEF AutoPostTypeOK

LEMMA NothingDueKeeps ==
    ASSUME AutoPostInv, NothingDue PROVE AutoPostInv'
<1>0. AutoPostTypeOK /\ "tick" \in Tasks
  BY DEF AutoPostInv, Tasks
<1>1. /\ task["tick"].pc = "plan" /\ Step("tick", Idle)
      /\ UNCHANGED <<fresh, posted, logged, channel, schedule, cache, clock, faults, reopened>>
  BY DEF NothingDue
<1>2. Idle \in Task /\ Idle.pc = "idle"
  BY <1>0, OverIs
<1>3. task' \in [Tasks -> Task] /\ task'["tick"] = Idle /\ task'["now"] = task["now"]
  BY <1>0, <1>1, <1>2, StepTask DEF Tasks
<1>4. Undisturbed
  BY <1>0, <1>1, <1>2, Calm
<1>5. RowsKnow'
  BY <1>1, <1>2, <1>3 DEF AutoPostInv, SlotInv, RowsKnow
<1>6. SlotsAreOpen'
  BY <1>1, <1>2, <1>3 DEF AutoPostInv, SlotInv, SlotsAreOpen
<1>7. \A x \in Slots \ reopened' : Closed(x) => Closed(x)'
  BY <1>1 DEF Closed
<1> QED BY <1>0, <1>1, <1>3, <1>4, <1>5, <1>6, <1>7, QuietStep DEF AutoPostTypeOK

LEMMA SaveScheduleKeeps ==
    ASSUME AutoPostInv, SaveSchedule PROVE AutoPostInv'
<1> DEFINE row == task["tick"].row
           slot == task["tick"].slot
           saved == [row EXCEPT ![slot] = TRUE]
<1>0. AutoPostTypeOK /\ "tick" \in Tasks
  BY DEF AutoPostInv, Tasks
<1>1. /\ task["tick"].pc = "save" /\ Step("tick", Idle)
      /\ schedule' = saved /\ cache' = NoSchedule
      /\ UNCHANGED <<fresh, posted, logged, channel, clock, faults, reopened>>
  BY DEF SaveSchedule
<1>2. row \in Schedule /\ slot \in Slots
  BY <1>1 DEF AutoPostInv, SlotInv, SlotsAreOpen
<1>3. saved \in Schedule /\ saved[slot] /\ \A s \in Slots : row[s] => saved[s]
  BY <1>2 DEF Schedule
<1>4. \A s \in Slots \ reopened : schedule[s] => row[s]
  BY <1>1 DEF AutoPostInv, SlotInv, RowsKnow
<1> HIDE DEF saved
<1>5. Idle \in Task /\ Idle.pc = "idle"
  BY <1>0, OverIs
<1>6. task' \in [Tasks -> Task] /\ task'["tick"] = Idle /\ task'["now"] = task["now"]
  BY <1>0, <1>1, <1>5, StepTask DEF Tasks
<1>7. Undisturbed
  BY <1>0, <1>1, <1>5, Calm
<1>8. RowsKnow'
  BY <1>1, <1>5, <1>6 DEF RowsKnow
<1>9. SlotsAreOpen'
  BY <1>1, <1>5, <1>6 DEF AutoPostInv, SlotInv, SlotsAreOpen
<1>10. \A s \in Slots \ reopened' : Closed(s) => Closed(s)'
  BY <1>1, <1>3, <1>4 DEF Closed
<1> QED BY <1>0, <1>1, <1>3, <1>6, <1>7, <1>8, <1>9, <1>10, QuietStep DEF AutoPostTypeOK

LEMMA SkipKeeps ==
    ASSUME AutoPostInv, NEW t \in Tasks, Skip(t) PROVE AutoPostInv'
<1>0. AutoPostTypeOK
  BY DEF AutoPostInv
<1>1. /\ task[t].pc = "pick" /\ Step(t, Over(t))
      /\ UNCHANGED <<fresh, posted, logged, channel, schedule, cache, clock, faults, reopened>>
  BY DEF Skip
<1>2. /\ Over(t) \in Task /\ Over(t).pc \notin {"send", "record"}
      /\ t = "tick" => /\ Over(t).pc = "save" /\ Over(t).row = task[t].row
                       /\ Over(t).slot = task[t].slot
      /\ t # "tick" => Over(t).pc = "idle" /\ Over(t).slot = NoSlot
  BY <1>0, OverIs
<1>3. task' \in [Tasks -> Task] /\ task'[t] = Over(t) /\ \A x \in Tasks : x # t => task'[x] = task[x]
  BY <1>0, <1>1, <1>2, StepTask
<1>4. Undisturbed
  BY <1>0, <1>1, <1>2, Calm
<1>5. RowsKnow'
  BY <1>1, <1>2, <1>3 DEF AutoPostInv, SlotInv, RowsKnow, Tasks
<1>6. SlotsAreOpen'
  BY <1>1, <1>2, <1>3 DEF AutoPostInv, SlotInv, SlotsAreOpen, Tasks
<1>7. \A x \in Slots \ reopened' : Closed(x) => Closed(x)'
  BY <1>1, <1>3 DEF Closed, Tasks
<1> QED BY <1>0, <1>1, <1>3, <1>4, <1>5, <1>6, <1>7, QuietStep DEF AutoPostTypeOK

-----------------------------------------------------------------------------
(***************************************************************************)
(* Picking and posting.                                                    *)
(***************************************************************************)
\* What a task picks by itself is new, and no duplicate where it is the store's.
LEMMA PicksDiffer ==
    ASSUME NEW t \in Tasks, NEW v \in Picks(t)
    PROVE  /\ By(t) \in {"store", "cache", "asked"}
           /\ By(t) # "asked" => ~IsPosted(v)
           /\ By(t) = "store" => ~GroupPosted(v)
<1>1. By(t) \in {"store", "cache", "asked"}
  BY DEF By
<1>2. ASSUME By(t) = "store" PROVE ~IsPosted(v) /\ ~GroupPosted(v)
  <2>1. v \in StorePicks
    BY <1>2 DEF Picks
  <2>2. v \in Eligible
    BY <2>1 DEF StorePicks, OtherSource
  <2> QED BY <2>2 DEF Eligible
<1>3. ASSUME By(t) = "cache" PROVE ~IsPosted(v)
  <2>1. v \in CachePicks
    BY <1>3 DEF Picks
  <2> QED BY <2>1 DEF CachePicks
<1> QED BY <1>1, <1>2, <1>3

LEMMA PickKeeps ==
    ASSUME AutoPostInv, NEW t \in Tasks, NEW v \in Vacancies, Pick(t, v) PROVE AutoPostInv'
<1> DEFINE by == By(t)
           alone == Alone(t)
           next == [task[t] EXCEPT !.pc = "send", !.uid = v, !.by = by, !.alone = alone]
<1>0. AutoPostTypeOK /\ task[t] \in Task
  BY DEF AutoPostInv, AutoPostTypeOK
<1>1. /\ task[t].pc = "pick" /\ Step(t, next) /\ v \in Picks(t)
      /\ UNCHANGED <<fresh, posted, logged, channel, schedule, cache, clock, faults, reopened>>
  BY DEF Pick
<1>2. /\ by \in {"store", "cache", "asked"}
      /\ by # "asked" => ~IsPosted(v)
      /\ by = "store" => ~GroupPosted(v)
  BY <1>1, PicksDiffer
<1>3. alone \in BOOLEAN /\ (alone <=> \A x \in Tasks \ {t} : ~Out(x))
  BY DEF Alone, Out
<1> HIDE DEF by, alone
<1>4. /\ next \in Task /\ next.pc = "send" /\ next.uid = v /\ next.by = by
      /\ next.alone = alone /\ next.row = task[t].row /\ next.slot = task[t].slot
  BY <1>0, <1>2, <1>3 DEF Task
<1> HIDE DEF next
<1>5. task' \in [Tasks -> Task] /\ task'[t] = next /\ \A x \in Tasks : x # t => task'[x] = task[x]
  BY <1>0, <1>1, <1>4, StepTask
<1>6. AutoPostTypeOK'
  BY <1>0, <1>1, <1>5 DEF AutoPostTypeOK
<1>7. PostersHavePicks'
  BY <1>2, <1>4, <1>5 DEF AutoPostInv, PostersHavePicks, Out
<1>8. LogTellsTheChannel'
  <2>1. ASSUME NEW w PROVE Unrecorded(w)' = Unrecorded(w)
    <3>1. PICK others \in {0, 1} : /\ Unrecorded(w) = Bit(Recording(t, w)) + others
                                   /\ Unrecorded(w)' = Bit(Recording(t, w)') + others
      BY <1>5, UnrecordedMoves
    <3>2. ~Recording(t, w) /\ ~Recording(t, w)'
      BY <1>1, <1>4, <1>5 DEF Recording
    <3> QED BY <3>1, <3>2 DEF Bit
  <2>2. \A w : SentOf(w)' = SentOf(w) /\ IsPosted(w)' = IsPosted(w)
    BY <1>1 DEF SentOf, Sent, IsPosted
  <2> QED BY <1>1, <2>1, <2>2 DEF AutoPostInv, LogTellsTheChannel
<1>9. MessagesAreRecorded'
  <2> SUFFICES ASSUME faults = 0, NEW i \in DOMAIN channel
               PROVE  \/ IsPosted(channel[i].uid)
                      \/ \E x \in Tasks : task'[x].pc = "record" /\ task'[x].uid = channel[i].uid
    BY <1>1 DEF MessagesAreRecorded, IsPosted
  <2>1. \A x \in Tasks : task[x].pc = "record" => task'[x] = task[x]
    BY <1>1, <1>5
  <2> QED BY <2>1 DEF AutoPostInv, PicksInv, MessagesAreRecorded
<1>10. OneIsAlone'
  <2> SUFFICES ASSUME NEW x \in Tasks, NEW y \in Tasks, x # y, Out(x)', Out(y)',
                      task'[x].alone, task'[y].alone
               PROVE  FALSE
    BY DEF OneIsAlone
  <2>1. CASE x # t /\ y # t
    BY <1>5, <2>1 DEF AutoPostInv, PicksInv, OneIsAlone, Out
  <2>2. CASE x = t
    <3>1. Out(y) /\ alone
      BY <1>4, <1>5, <2>2 DEF Out
    <3> QED BY <1>3, <2>2, <3>1
  <2>3. CASE y = t
    <3>1. Out(x) /\ alone
      BY <1>4, <1>5, <2>3 DEF Out
    <3> QED BY <1>3, <2>3, <3>1
  <2> QED BY <2>1, <2>2, <2>3
<1>11. PicksAreNew'
  <2> SUFFICES ASSUME faults = 0, NEW x \in Tasks, task'[x].pc = "send", task'[x].alone,
                      NEW i \in DOMAIN channel, channel[i].alone
               PROVE  /\ task'[x].by # "asked" => channel[i].uid # task'[x].uid
                      /\ task'[x].by = "store" => Group[channel[i].uid] # Group[task'[x].uid]
    BY <1>1 DEF PicksAreNew
  <2>1. CASE x # t
    BY <1>5, <2>1 DEF AutoPostInv, PicksInv, PicksAreNew
  <2>2. CASE x = t
    <3>1. \A y \in Tasks : task[y].pc # "record"
      BY <1>1, <1>3, <1>4, <1>5, <2>2 DEF Out
    <3>2. IsPosted(channel[i].uid)
      BY <3>1 DEF AutoPostInv, PicksInv, MessagesAreRecorded
    <3>3. by # "asked" => channel[i].uid # v
      BY <1>2, <3>2
    <3>4. by = "store" => Group[channel[i].uid] # Group[v]
      BY <1>2, <3>2 DEF GroupPosted, IsPosted
    <3> QED BY <1>4, <1>5, <2>2, <3>3, <3>4
  <2> QED BY <2>1, <2>2
<1>12. VacanciesPostOnce'
  BY <1>1 DEF AutoPostInv, PicksInv, VacanciesPostOnce
<1>13. RowsKnow'
  BY <1>1, <1>4, <1>5 DEF AutoPostInv, SlotInv, RowsKnow, Tasks
<1>14. SlotsAreOpen'
  BY <1>1, <1>4, <1>5 DEF AutoPostInv, SlotInv, SlotsAreOpen, Tasks
<1>15. SlotsAreCounted'
  <2>1. \A s \in Slots \ reopened' : Closed(s) => Closed(s)'
    BY <1>1, <1>5 DEF Closed, Tasks
  <2> QED BY <1>1, <2>1, SlotsStayCounted
<1> QED BY <1>6, <1>7, <1>8, <1>9, <1>10, <1>11, <1>12, <1>13, <1>14, <1>15
        DEF AutoPostInv, PicksInv, SlotInv

\* The message a poster sends.
LEMMA MessageIs ==
    ASSUME AutoPostInv, NEW t \in Tasks, task[t].pc = "send"
    PROVE  LET m == [uid |-> task[t].uid, by |-> task[t].by, slot |-> task[t].slot,
                     alone |-> task[t].alone]
           IN  /\ m \in Message /\ Posted(t) = Append(channel, m)
               /\ m.uid = task[t].uid /\ m.by = task[t].by /\ m.slot = task[t].slot
               /\ m.alone = task[t].alone
<1>1. task[t] \in Task
  BY DEF AutoPostInv, AutoPostTypeOK
<1>2. /\ task[t].uid \in Vacancies /\ task[t].by \in {"store", "cache", "asked"}
      /\ task[t].slot \in Slots \cup {NoSlot} /\ task[t].alone \in BOOLEAN
  BY <1>1, TaskFields DEF AutoPostInv, PostersHavePicks, Out
<1> QED BY <1>2 DEF Message, Posted

\* A message for the slot it is posted for, and for no other.
LEMMA OneSlotCounts ==
    ASSUME AutoPostInv, NEW t \in Tasks, task[t].pc = "send", channel' = Posted(t),
           NEW s \in Slots
    PROVE  /\ SlotCount(s)' = SlotCount(s) + (IF t = "tick" /\ task[t].slot = s THEN 1 ELSE 0)
           /\ t = "tick" /\ task[t].slot = s /\ s \notin reopened => ~Closed(s)
<1> DEFINE m == [uid |-> task[t].uid, by |-> task[t].by, slot |-> task[t].slot,
                 alone |-> task[t].alone]
<1>1. m \in Message /\ channel' = Append(channel, m) /\ m.slot = task[t].slot
  BY MessageIs
<1> HIDE DEF m
<1>2. SlotCount(s)' = SlotCount(s) + (IF m.slot = s THEN 1 ELSE 0)
  BY <1>1, SentGrows DEF AutoPostInv
<1>3. t # "tick" => m.slot # s
  BY <1>1, AutoPostAssumption DEF AutoPostInv, SlotInv, SlotsAreOpen, Tasks
<1>4. t = "tick" /\ task[t].slot = s /\ s \notin reopened => ~Closed(s)
  BY DEF AutoPostInv, SlotInv, SlotsAreOpen, RowsKnow, Closed
<1> QED BY <1>1, <1>2, <1>3, <1>4

LEMMA SendKeeps ==
    ASSUME AutoPostInv, NEW t \in Tasks, Send(t) PROVE AutoPostInv'
<1> DEFINE next == [task[t] EXCEPT !.pc = "record"]
           m == [uid |-> task[t].uid, by |-> task[t].by, slot |-> task[t].slot,
                 alone |-> task[t].alone]
           n == Len(channel) + 1
<1>0. AutoPostTypeOK /\ task[t] \in Task
  BY DEF AutoPostInv, AutoPostTypeOK
<1>1. /\ task[t].pc = "send" /\ Step(t, next) /\ channel' = Posted(t)
      /\ UNCHANGED <<fresh, posted, logged, schedule, cache, clock, faults, reopened>>
  BY DEF Send
<1>2. /\ next \in Task /\ next.pc = "record" /\ next.uid = task[t].uid /\ next.by = task[t].by
      /\ next.alone = task[t].alone /\ next.row = task[t].row /\ next.slot = task[t].slot
  BY <1>0 DEF Task
<1> HIDE DEF next
<1>3. task' \in [Tasks -> Task] /\ task'[t] = next /\ \A x \in Tasks : x # t => task'[x] = task[x]
  BY <1>0, <1>1, <1>2, StepTask
<1>4. /\ m \in Message /\ channel' = Append(channel, m) /\ m.uid = task[t].uid
      /\ m.by = task[t].by /\ m.alone = task[t].alone
  BY <1>1, MessageIs
<1> HIDE DEF m
<1>5. /\ channel' \in Seq(Message) /\ DOMAIN channel' = DOMAIN channel \cup {n}
      /\ \A i \in DOMAIN channel : channel'[i] = channel[i] /\ i < n
      /\ channel'[n] = m /\ n \notin DOMAIN channel /\ DOMAIN channel \subseteq Nat /\ n \in Nat
      /\ \A v : SentOf(v)' = SentOf(v) + (IF m.uid = v THEN 1 ELSE 0)
  BY <1>0, <1>4, SentGrows
<1> HIDE DEF n
<1>6. AutoPostTypeOK'
  BY <1>0, <1>1, <1>3, <1>5 DEF AutoPostTypeOK
<1>7. PostersHavePicks'
  BY <1>1, <1>2, <1>3 DEF AutoPostInv, PostersHavePicks, Out
<1>8. LogTellsTheChannel'
  <2> SUFFICES ASSUME NEW v \in Vacancies
               PROVE  /\ logged[v] + Unrecorded(v)' <= SentOf(v)'
                      /\ SentOf(v)' <= logged[v] + Unrecorded(v)' + faults
                      /\ logged[v] > 0 => IsPosted(v)
                      /\ IsPosted(v) => logged[v] > 0 \/ faults > 0
    BY <1>1 DEF LogTellsTheChannel, IsPosted
  <2>1. /\ logged[v] + Unrecorded(v) <= SentOf(v)
        /\ SentOf(v) <= logged[v] + Unrecorded(v) + faults
        /\ logged[v] > 0 => IsPosted(v)
        /\ IsPosted(v) => logged[v] > 0 \/ faults > 0
    BY DEF AutoPostInv, LogTellsTheChannel
  <2>2. PICK others \in {0, 1} : /\ Unrecorded(v) = Bit(Recording(t, v)) + others
                                 /\ Unrecorded(v)' = Bit(Recording(t, v)') + others
    BY <1>3, UnrecordedMoves
  <2>3. ~Recording(t, v) /\ (Recording(t, v)' <=> m.uid = v)
    BY <1>1, <1>2, <1>3, <1>4 DEF Recording
  <2>4. Bit(Recording(t, v)) = 0 /\ Bit(Recording(t, v)') = (IF m.uid = v THEN 1 ELSE 0)
    BY <2>3 DEF Bit
  <2>5. SentOf(v)' = SentOf(v) + (IF m.uid = v THEN 1 ELSE 0)
    BY <1>5
  <2>6. SentOf(v) \in Nat /\ logged[v] \in Nat /\ faults \in Nat
    BY <1>0, CountsAreNumbers, AutoPostAssumption DEF AutoPostTypeOK
  <2>7. others \in Int
    OBVIOUS
  <2>8. CASE m.uid = v
    <3>1. /\ Unrecorded(v) = others /\ Unrecorded(v)' = 1 + others
          /\ SentOf(v)' = SentOf(v) + 1
      BY <2>2, <2>4, <2>5, <2>7, <2>8
    <3> QED BY <2>1, <2>6, <2>7, <3>1
  <2>9. CASE m.uid # v
    <3>1. /\ Unrecorded(v) = others /\ Unrecorded(v)' = others
          /\ SentOf(v)' = SentOf(v)
      BY <2>2, <2>4, <2>5, <2>6, <2>7, <2>9
    <3> QED BY <2>1, <3>1
  <2> QED BY <2>8, <2>9
<1>9. MessagesAreRecorded'
  <2> SUFFICES ASSUME faults = 0, NEW i \in DOMAIN channel'
               PROVE  \/ IsPosted(channel'[i].uid)
                      \/ \E x \in Tasks : task'[x].pc = "record" /\ task'[x].uid = channel'[i].uid
    BY <1>1 DEF MessagesAreRecorded, IsPosted
  <2>1. CASE i = n
    BY <1>2, <1>3, <1>4, <1>5, <2>1
  <2>2. CASE i \in DOMAIN channel
    <3>1. \A x \in Tasks : task[x].pc = "record" => task'[x] = task[x]
      BY <1>1, <1>3
    <3> QED BY <1>5, <2>2, <3>1 DEF AutoPostInv, PicksInv, MessagesAreRecorded
  <2> QED BY <1>5, <2>1, <2>2
<1>10. \A x \in Tasks : /\ Out(x)' => Out(x)
                        /\ Out(x) => task'[x].alone = task[x].alone
                        /\ task'[x].pc = "send" => x # t /\ task'[x] = task[x]
  BY <1>1, <1>2, <1>3 DEF Out
<1>11. OneIsAlone'
  BY <1>10 DEF AutoPostInv, PicksInv, OneIsAlone
<1>12. PicksAreNew'
  <2> SUFFICES ASSUME faults = 0, NEW x \in Tasks, task'[x].pc = "send", task'[x].alone,
                      NEW i \in DOMAIN channel', channel'[i].alone
               PROVE  /\ task'[x].by # "asked" => channel'[i].uid # task'[x].uid
                      /\ task'[x].by = "store" => Group[channel'[i].uid] # Group[task'[x].uid]
    BY <1>1 DEF PicksAreNew
  <2>1. x # t /\ task'[x] = task[x]
    BY <1>10
  <2>2. CASE i \in DOMAIN channel
    BY <1>5, <2>1, <2>2 DEF AutoPostInv, PicksInv, PicksAreNew
  <2>3. CASE i = n
    <3>1. task[t].alone /\ Out(t) /\ Out(x) /\ task[x].alone
      BY <1>1, <1>4, <1>5, <2>1, <2>3 DEF Out
    <3> QED BY <2>1, <3>1 DEF AutoPostInv, PicksInv, OneIsAlone
  <2> QED BY <1>5, <2>2, <2>3
<1>13. VacanciesPostOnce'
  <2> SUFFICES ASSUME NEW i \in DOMAIN channel', NEW j \in DOMAIN channel', i < j, faults = 0,
                      channel'[i].alone, channel'[j].alone
               PROVE  /\ channel'[j].by # "asked" => channel'[i].uid # channel'[j].uid
                      /\ channel'[j].by = "store" =>
                            Group[channel'[i].uid] # Group[channel'[j].uid]
    BY <1>1 DEF VacanciesPostOnce
  <2>1. i \in DOMAIN channel
    BY <1>5
  <2>2. CASE j \in DOMAIN channel
    BY <1>5, <2>1, <2>2 DEF AutoPostInv, PicksInv, VacanciesPostOnce
  <2>3. CASE j = n
    <3>1. channel'[j] = m /\ channel'[i] = channel[i]
      BY <1>5, <2>1, <2>3
    <3>2. task[t].alone
      BY <1>4, <3>1
    <3>3. /\ task[t].by # "asked" => channel[i].uid # task[t].uid
          /\ task[t].by = "store" => Group[channel[i].uid] # Group[task[t].uid]
      BY <1>1, <2>1, <3>1, <3>2 DEF AutoPostInv, PicksInv, PicksAreNew
    <3> QED BY <1>4, <3>1, <3>3
  <2> QED BY <1>5, <2>2, <2>3
<1>14. RowsKnow'
  BY <1>1, <1>2, <1>3 DEF AutoPostInv, SlotInv, RowsKnow, Tasks
<1>15. SlotsAreOpen'
  BY <1>1, <1>2, <1>3 DEF AutoPostInv, SlotInv, SlotsAreOpen, Tasks
<1>16. SlotsAreCounted'
  <2> SUFFICES ASSUME NEW s \in Slots \ reopened
               PROVE  SlotCount(s)' <= faults + (IF Closed(s)' THEN 1 ELSE 0)
    BY <1>1 DEF SlotsAreCounted
  <2>1. /\ SlotCount(s)' = SlotCount(s) + (IF t = "tick" /\ task[t].slot = s THEN 1 ELSE 0)
        /\ t = "tick" /\ task[t].slot = s => ~Closed(s)
    BY <1>1, OneSlotCounts
  <2>2. SlotCount(s) <= faults + (IF Closed(s) THEN 1 ELSE 0)
    BY DEF AutoPostInv, SlotInv, SlotsAreCounted
  <2>3. SlotCount(s) \in Nat /\ faults \in Nat
    BY <1>0, CountsAreNumbers, AutoPostAssumption DEF AutoPostTypeOK
  <2>4. CASE t = "tick" /\ task[t].slot = s
    <3>1. Closed(s)'
      BY <1>2, <1>3, <2>4 DEF Closed
    <3> QED BY <2>1, <2>2, <2>3, <2>4, <3>1
  <2>5. CASE ~(t = "tick" /\ task[t].slot = s)
    <3>1. Closed(s) => Closed(s)'
      BY <1>1, <1>3 DEF Closed, Tasks
    <3> QED BY <2>1, <2>2, <2>3, <2>5, <3>1
  <2> QED BY <2>4, <2>5
<1> QED BY <1>6, <1>7, <1>8, <1>9, <1>11, <1>12, <1>13, <1>14, <1>15, <1>16
        DEF AutoPostInv, PicksInv, SlotInv

-----------------------------------------------------------------------------
(***************************************************************************)
(* The end of an attempt: recorded, failed or cancelled.                   *)
(***************************************************************************)
\* Where the attempt ends, the scheduler closes its slot.
LEMMA SlotsGoOn ==
    ASSUME AutoPostInv, NEW t \in Tasks, task[t].pc \in {"send", "record"}, Step(t, Over(t)),
           UNCHANGED <<schedule, cache, reopened>>
    PROVE  /\ task' \in [Tasks -> Task] /\ ~Out(t)'
           /\ \A x \in Tasks : x # t => task'[x] = task[x]
           /\ RowsKnow' /\ SlotsAreOpen'
           /\ \A s \in Slots : /\ Closed(s) => Closed(s)'
                               /\ t = "tick" /\ task[t].slot = s => Closed(s)'
<1>0. AutoPostTypeOK
  BY DEF AutoPostInv
<1>1. /\ Over(t) \in Task /\ Over(t).pc \notin {"send", "record"}
      /\ t = "tick" => /\ Over(t).pc = "save" /\ Over(t).row = task[t].row
                       /\ Over(t).slot = task[t].slot
      /\ t # "tick" => Over(t).pc = "idle" /\ Over(t).slot = NoSlot
  BY <1>0, OverIs
<1>2. task' \in [Tasks -> Task] /\ task'[t] = Over(t) /\ \A x \in Tasks : x # t => task'[x] = task[x]
  BY <1>0, <1>1, StepTask
<1>3. RowsKnow'
  BY <1>1, <1>2 DEF AutoPostInv, SlotInv, RowsKnow, Tasks
<1>4. SlotsAreOpen'
  BY <1>1, <1>2 DEF AutoPostInv, SlotInv, SlotsAreOpen, Tasks
<1>5. \A s \in Slots : /\ Closed(s) => Closed(s)'
                       /\ t = "tick" /\ task[t].slot = s => Closed(s)'
  BY <1>1, <1>2 DEF Closed, Tasks
<1>6. ~Out(t)'
  BY <1>1, <1>2 DEF Out
<1> QED BY <1>2, <1>3, <1>4, <1>5, <1>6

LEMMA OthersStay ==
    ASSUME AutoPostInv, NEW t \in Tasks, ~Out(t)',
           \A x \in Tasks : x # t => task'[x] = task[x]
    PROVE  PostersHavePicks' /\ OneIsAlone'
<1>1. \A x \in Tasks : Out(x)' => Out(x) /\ task'[x] = task[x]
  BY DEF Out
<1>2. PostersHavePicks'
  BY <1>1 DEF AutoPostInv, PostersHavePicks
<1>3. OneIsAlone'
  BY <1>1 DEF AutoPostInv, PicksInv, OneIsAlone
<1> QED BY <1>2, <1>3

\* After a fault nothing is said of the picks.
LEMMA FaultsExcuse ==
    ASSUME AutoPostInv, Fault, OneIsAlone'
    PROVE  PicksInv' /\ faults' = faults + 1 /\ faults' \in 0..MaxFaults /\ faults \in Nat
<1>1. faults \in 0..MaxFaults /\ MaxFaults \in Nat
  BY AutoPostAssumption DEF AutoPostInv, AutoPostTypeOK
<1>2. faults' = faults + 1 /\ faults' \in 0..MaxFaults /\ faults \in Nat /\ faults' # 0
  BY <1>1 DEF Fault
<1>3. MessagesAreRecorded' /\ PicksAreNew' /\ VacanciesPostOnce'
  BY <1>2 DEF MessagesAreRecorded, PicksAreNew, VacanciesPostOnce
<1> QED BY <1>2, <1>3 DEF PicksInv

LEMMA RecordKeeps ==
    ASSUME AutoPostInv, NEW t \in Tasks, Record(t) PROVE AutoPostInv'
<1> DEFINE uid == task[t].uid
           new == PostedNow(uid)
<1>0. AutoPostTypeOK
  BY DEF AutoPostInv
<1>1. /\ task[t].pc = "record" /\ Step(t, Over(t))
      /\ logged' = [logged EXCEPT ![uid] = @ + 1] /\ posted' = new
      /\ UNCHANGED <<fresh, channel, schedule, cache, clock, faults, reopened>>
  BY DEF Record, RecordPost
<1>2. uid \in Vacancies
  BY <1>1 DEF AutoPostInv, PostersHavePicks, Out
<1>3. /\ task' \in [Tasks -> Task] /\ ~Out(t)'
      /\ \A x \in Tasks : x # t => task'[x] = task[x]
      /\ RowsKnow' /\ SlotsAreOpen'
      /\ \A s \in Slots : Closed(s) => Closed(s)'
  BY <1>1, SlotsGoOn
<1>4. new \in Seq(Vacancies) /\ IsInjective(new) /\ ToSet(new) = ToSet(posted) \cup {uid}
  BY <1>0, <1>2, PostedGrows DEF AutoPostTypeOK
<1> HIDE DEF new
<1>5. \A v : IsPosted(v)' <=> IsPosted(v) \/ v = uid
  BY <1>1, <1>4 DEF IsPosted
<1>6. /\ logged \in [Vacancies -> Nat] /\ logged' \in [Vacancies -> Nat]
      /\ \A v \in Vacancies : logged'[v] = logged[v] + (IF v = uid THEN 1 ELSE 0)
  BY <1>0, <1>1, <1>2 DEF AutoPostTypeOK
<1>7. AutoPostTypeOK'
  BY <1>0, <1>1, <1>3, <1>4, <1>6 DEF AutoPostTypeOK
<1>8. PostersHavePicks' /\ OneIsAlone'
  BY <1>3, OthersStay
<1>9. LogTellsTheChannel'
  <2> SUFFICES ASSUME NEW v \in Vacancies
               PROVE  /\ logged'[v] + Unrecorded(v)' <= SentOf(v)
                      /\ SentOf(v) <= logged'[v] + Unrecorded(v)' + faults
                      /\ logged'[v] > 0 => IsPosted(v)'
                      /\ IsPosted(v)' => logged'[v] > 0 \/ faults > 0
    BY <1>1 DEF LogTellsTheChannel, SentOf, Sent
  <2>1. /\ logged[v] + Unrecorded(v) <= SentOf(v)
        /\ SentOf(v) <= logged[v] + Unrecorded(v) + faults
        /\ logged[v] > 0 => IsPosted(v)
        /\ IsPosted(v) => logged[v] > 0 \/ faults > 0
    BY DEF AutoPostInv, LogTellsTheChannel
  <2>2. PICK others \in {0, 1} : /\ Unrecorded(v) = Bit(Recording(t, v)) + others
                                 /\ Unrecorded(v)' = Bit(Recording(t, v)') + others
    BY <1>3, UnrecordedMoves
  <2>3. (Recording(t, v) <=> v = uid) /\ ~Recording(t, v)'
    BY <1>1, <1>3 DEF Recording, Out
  <2>4. Bit(Recording(t, v)) = (IF v = uid THEN 1 ELSE 0) /\ Bit(Recording(t, v)') = 0
    BY <2>3 DEF Bit
  <2>5. logged'[v] = logged[v] + (IF v = uid THEN 1 ELSE 0)
    BY <1>6
  <2>6. SentOf(v) \in Nat /\ logged[v] \in Nat /\ faults \in Nat /\ others \in Int
    BY <1>0, <1>6, CountsAreNumbers, AutoPostAssumption DEF AutoPostTypeOK
  <2>7. IsPosted(v)' <=> IsPosted(v) \/ v = uid
    BY <1>5
  <2>8. CASE v = uid
    <3>1. /\ Unrecorded(v) = 1 + others /\ Unrecorded(v)' = others
          /\ logged'[v] = logged[v] + 1
      BY <2>2, <2>4, <2>5, <2>6, <2>8
    <3>2. IsPosted(v)'
      BY <2>7, <2>8
    <3> HIDE DEF uid
    <3> QED BY <2>1, <2>6, <3>1, <3>2
  <2>9. CASE v # uid
    <3>1. /\ Unrecorded(v) = others /\ Unrecorded(v)' = others
          /\ logged'[v] = logged[v]
      BY <2>2, <2>4, <2>5, <2>6, <2>9
    <3>2. IsPosted(v)' <=> IsPosted(v)
      BY <2>7, <2>9
    <3> QED BY <2>1, <3>1, <3>2
  <2> QED BY <2>8, <2>9
<1>10. MessagesAreRecorded'
  <2> SUFFICES ASSUME faults = 0, NEW i \in DOMAIN channel
               PROVE  \/ IsPosted(channel[i].uid)'
                      \/ \E x \in Tasks : task'[x].pc = "record" /\ task'[x].uid = channel[i].uid
    BY <1>1 DEF MessagesAreRecorded, IsPosted
  <2>1. CASE IsPosted(channel[i].uid)
    <3>1. channel[i].uid \in ToSet(posted')
      BY <1>1, <1>4, <2>1 DEF IsPosted
    <3> QED BY <1>1, <3>1 DEF IsPosted
  <2>2. ASSUME NEW x \in Tasks, task[x].pc = "record", task[x].uid = channel[i].uid
        PROVE  \/ IsPosted(channel[i].uid)'
               \/ \E y \in Tasks : task'[y].pc = "record" /\ task'[y].uid = channel[i].uid
    <3>1. CASE x = t
      <4>1. channel[i].uid \in ToSet(posted')
        BY <1>1, <1>4, <2>2, <3>1
      <4> QED BY <1>1, <4>1 DEF IsPosted
    <3>2. CASE x # t
      BY <1>3, <2>2, <3>2
    <3> QED BY <3>1, <3>2
  <2> QED BY <2>1, <2>2 DEF AutoPostInv, PicksInv, MessagesAreRecorded
<1>11. PicksAreNew'
  <2>1. \A x \in Tasks : task'[x].pc = "send" => task'[x] = task[x]
    BY <1>3 DEF Out
  <2> QED BY <1>1, <2>1 DEF AutoPostInv, PicksInv, PicksAreNew
<1>12. VacanciesPostOnce'
  BY <1>1 DEF AutoPostInv, PicksInv, VacanciesPostOnce
<1>13. SlotsAreCounted'
  BY <1>1, <1>3, SlotsStayCounted
<1> QED BY <1>3, <1>7, <1>8, <1>9, <1>10, <1>11, <1>12, <1>13 DEF AutoPostInv, PicksInv, SlotInv

\* What a fault leaves of the log's account.
LEMMA FaultyLog ==
    ASSUME AutoPostInv, NEW t \in Tasks, Fault, ~Out(t)',
           \A x \in Tasks : x # t => task'[x] = task[x],
           UNCHANGED logged,
           \A v \in Vacancies : IsPosted(v) => IsPosted(v)',
           \/ UNCHANGED channel
           \/ task[t].pc = "send" /\ channel' = Posted(t)
    PROVE  LogTellsTheChannel'
<1> SUFFICES ASSUME NEW v \in Vacancies
             PROVE  /\ logged[v] + Unrecorded(v)' <= SentOf(v)'
                    /\ SentOf(v)' <= logged[v] + Unrecorded(v)' + faults'
                    /\ logged[v] > 0 => IsPosted(v)'
                    /\ IsPosted(v)' => logged[v] > 0 \/ faults' > 0
  BY DEF LogTellsTheChannel
<1>0. AutoPostTypeOK
  BY DEF AutoPostInv
<1>1. /\ logged[v] + Unrecorded(v) <= SentOf(v)
      /\ SentOf(v) <= logged[v] + Unrecorded(v) + faults
      /\ logged[v] > 0 => IsPosted(v)
  BY DEF AutoPostInv, LogTellsTheChannel
<1>2. PICK others \in {0, 1} : /\ Unrecorded(v) = Bit(Recording(t, v)) + others
                               /\ Unrecorded(v)' = Bit(Recording(t, v)') + others
  BY UnrecordedMoves
<1>3. Bit(Recording(t, v)') = 0
  BY DEF Recording, Out, Bit
<1>4. SentOf(v) \in Nat /\ logged[v] \in Nat /\ faults \in Nat /\ others \in Int
  BY <1>0, CountsAreNumbers, AutoPostAssumption DEF AutoPostTypeOK
<1>5. faults' = faults + 1
  BY DEF Fault
<1>6. logged[v] > 0 => IsPosted(v)'
  BY <1>1
<1>7. CASE UNCHANGED channel
  <2>1. SentOf(v)' = SentOf(v)
    BY <1>7 DEF SentOf, Sent
  <2>2. Bit(Recording(t, v)) \in {0, 1}
    BY DEF Bit
  <2> QED BY <1>1, <1>2, <1>3, <1>4, <1>5, <1>6, <2>1, <2>2
<1>8. CASE task[t].pc = "send" /\ channel' = Posted(t)
  <2> DEFINE m == [uid |-> task[t].uid, by |-> task[t].by, slot |-> task[t].slot,
                   alone |-> task[t].alone]
  <2>1. m \in Message /\ channel' = Append(channel, m)
    BY <1>8, MessageIs
  <2> HIDE DEF m
  <2>2. SentOf(v)' = SentOf(v) + (IF m.uid = v THEN 1 ELSE 0)
    BY <1>0, <2>1, SentGrows
  <2>3. SentOf(v)' \in {SentOf(v), SentOf(v) + 1}
    BY <1>4, <2>2
  <2>4. Bit(Recording(t, v)) = 0
    BY <1>8 DEF Bit, Recording
  <2> QED BY <1>1, <1>2, <1>3, <1>4, <1>5, <1>6, <2>3, <2>4
<1> QED BY <1>7, <1>8

LEMMA SendFailsKeeps ==
    ASSUME AutoPostInv, NEW t \in Tasks, NEW arrived \in BOOLEAN, SendFails(t, arrived)
    PROVE  AutoPostInv'
<1>0. AutoPostTypeOK
  BY DEF AutoPostInv
<1>1. /\ task[t].pc = "send" /\ Step(t, Over(t)) /\ Fault
      /\ channel' = channel \/ channel' = Posted(t)
      /\ UNCHANGED <<fresh, posted, logged, schedule, cache, clock, reopened>>
  BY DEF SendFails
<1>2. /\ task' \in [Tasks -> Task] /\ ~Out(t)'
      /\ \A x \in Tasks : x # t => task'[x] = task[x]
      /\ RowsKnow' /\ SlotsAreOpen'
      /\ \A s \in Slots : /\ Closed(s) => Closed(s)'
                          /\ t = "tick" /\ task[t].slot = s => Closed(s)'
  BY <1>1, SlotsGoOn
<1>3. PostersHavePicks' /\ OneIsAlone'
  BY <1>2, OthersStay
<1>4. PicksInv' /\ faults' = faults + 1 /\ faults' \in 0..MaxFaults /\ faults \in Nat
  BY <1>1, <1>3, FaultsExcuse
<1>5. LogTellsTheChannel'
  <2>1. \A v \in Vacancies : IsPosted(v) => IsPosted(v)'
    BY <1>1 DEF IsPosted
  <2> QED BY <1>1, <1>2, <2>1, FaultyLog
<1>6. channel' \in Seq(Message)
  <2>1. CASE channel' = channel
    BY <1>0, <2>1 DEF AutoPostTypeOK
  <2>2. CASE channel' = Posted(t)
    <3> DEFINE m == [uid |-> task[t].uid, by |-> task[t].by, slot |-> task[t].slot,
                     alone |-> task[t].alone]
    <3>1. m \in Message /\ channel' = Append(channel, m)
      BY <1>1, <2>2, MessageIs
    <3> HIDE DEF m
    <3> QED BY <1>0, <3>1, SentGrows
  <2> QED BY <1>1, <2>1, <2>2
<1>7. AutoPostTypeOK'
  BY <1>0, <1>1, <1>2, <1>4, <1>6 DEF AutoPostTypeOK
<1>8. SlotsAreCounted'
  <2> SUFFICES ASSUME NEW s \in Slots \ reopened
               PROVE  SlotCount(s)' <= faults' + (IF Closed(s)' THEN 1 ELSE 0)
    BY <1>1 DEF SlotsAreCounted
  <2>1. SlotCount(s)' \in {SlotCount(s), SlotCount(s) + 1}
    <3>1. CASE channel' = channel
      <4>1. SlotCount(s)' = SlotCount(s)
        BY <3>1 DEF SlotCount
      <4> QED BY <4>1
    <3>2. CASE channel' = Posted(t)
      <4>1. SlotCount(s)' = SlotCount(s) + (IF t = "tick" /\ task[t].slot = s THEN 1 ELSE 0)
        BY <1>1, <3>2, OneSlotCounts
      <4>2. SlotCount(s) \in Nat
        BY <1>0, CountsAreNumbers
      <4> QED BY <4>1, <4>2
    <3> QED BY <1>1, <3>1, <3>2
  <2>2. SlotCount(s) <= faults + (IF Closed(s) THEN 1 ELSE 0)
    BY DEF AutoPostInv, SlotInv, SlotsAreCounted
  <2>3. SlotCount(s) \in Nat
    BY <1>0, CountsAreNumbers
  <2>4. Closed(s) => Closed(s)'
    BY <1>2
  <2> QED BY <1>4, <2>1, <2>2, <2>3, <2>4
<1> QED BY <1>2, <1>3, <1>4, <1>5, <1>7, <1>8 DEF AutoPostInv, SlotInv

LEMMA RecordFailsKeeps ==
    ASSUME AutoPostInv, NEW t \in Tasks, NEW recorded \in BOOLEAN, RecordFails(t, recorded)
    PROVE  AutoPostInv'
<1> DEFINE uid == task[t].uid
<1>0. AutoPostTypeOK
  BY DEF AutoPostInv
<1>1. /\ task[t].pc = "record" /\ Step(t, Over(t)) /\ Fault
      /\ posted' = posted \/ posted' = PostedNow(uid)
      /\ UNCHANGED <<fresh, logged, channel, schedule, cache, clock, reopened>>
  BY DEF RecordFails
<1>2. /\ task' \in [Tasks -> Task] /\ ~Out(t)'
      /\ \A x \in Tasks : x # t => task'[x] = task[x]
      /\ RowsKnow' /\ SlotsAreOpen'
      /\ \A s \in Slots : Closed(s) => Closed(s)'
  BY <1>1, SlotsGoOn
<1>3. PostersHavePicks' /\ OneIsAlone'
  BY <1>2, OthersStay
<1>4. PicksInv' /\ faults' = faults + 1 /\ faults' \in 0..MaxFaults /\ faults \in Nat
  BY <1>1, <1>3, FaultsExcuse
<1>5. posted' \in Seq(Vacancies) /\ IsInjective(posted') /\ ToSet(posted) \subseteq ToSet(posted')
  <2>1. CASE posted' = posted
    BY <1>0, <2>1 DEF AutoPostTypeOK
  <2>2. CASE posted' = PostedNow(uid)
    <3>1. uid \in Vacancies
      BY <1>1 DEF AutoPostInv, PostersHavePicks, Out
    <3>2. /\ PostedNow(uid) \in Seq(Vacancies) /\ IsInjective(PostedNow(uid))
          /\ ToSet(PostedNow(uid)) = ToSet(posted) \cup {uid}
      BY <1>0, <3>1, PostedGrows DEF AutoPostTypeOK
    <3> QED BY <2>2, <3>2
  <2> QED BY <1>1, <2>1, <2>2
<1>6. LogTellsTheChannel'
  <2>1. \A v \in Vacancies : IsPosted(v) => IsPosted(v)'
    BY <1>5 DEF IsPosted
  <2>2. UNCHANGED logged /\ UNCHANGED channel /\ Fault
    BY <1>1
  <2> QED BY <1>2, <2>1, <2>2, FaultyLog
<1>7. AutoPostTypeOK'
  BY <1>0, <1>1, <1>2, <1>4, <1>5 DEF AutoPostTypeOK
<1>8. SlotsAreCounted'
  <2> SUFFICES ASSUME NEW s \in Slots \ reopened
               PROVE  SlotCount(s)' <= faults' + (IF Closed(s)' THEN 1 ELSE 0)
    BY <1>1 DEF SlotsAreCounted
  <2>1. SlotCount(s)' = SlotCount(s)
    BY <1>1 DEF SlotCount
  <2>2. SlotCount(s) <= faults + (IF Closed(s) THEN 1 ELSE 0)
    BY DEF AutoPostInv, SlotInv, SlotsAreCounted
  <2>3. SlotCount(s) \in Nat
    BY <1>0, CountsAreNumbers
  <2>4. Closed(s) => Closed(s)'
    BY <1>2
  <2> QED BY <1>4, <2>1, <2>2, <2>3, <2>4
<1> QED BY <1>2, <1>3, <1>4, <1>6, <1>7, <1>8 DEF AutoPostInv, SlotInv

LEMMA AbortKeeps ==
    ASSUME AutoPostInv, NEW t \in Tasks, Abort(t) PROVE AutoPostInv'
<1>0. AutoPostTypeOK
  BY DEF AutoPostInv
<1>1. /\ Step(t, Idle) /\ Fault
      /\ UNCHANGED <<fresh, posted, logged, channel, schedule, cache, clock, reopened>>
  BY DEF Abort
<1>2. Idle \in Task /\ Idle.pc = "idle" /\ Idle.slot = NoSlot
  BY <1>0, OverIs
<1>3. /\ task' \in [Tasks -> Task] /\ task'[t] = Idle
      /\ \A x \in Tasks : x # t => task'[x] = task[x]
  BY <1>0, <1>1, <1>2, StepTask
<1>4. ~Out(t)'
  BY <1>2, <1>3 DEF Out
<1>5. PostersHavePicks' /\ OneIsAlone'
  BY <1>3, <1>4, OthersStay
<1>6. PicksInv' /\ faults' = faults + 1 /\ faults' \in 0..MaxFaults /\ faults \in Nat
  BY <1>1, <1>5, FaultsExcuse
<1>7. LogTellsTheChannel'
  <2>1. \A v \in Vacancies : IsPosted(v) => IsPosted(v)'
    BY <1>1 DEF IsPosted
  <2>2. UNCHANGED logged /\ UNCHANGED channel /\ Fault
    BY <1>1
  <2> QED BY <1>3, <1>4, <2>1, <2>2, FaultyLog
<1>8. AutoPostTypeOK'
  BY <1>0, <1>1, <1>3, <1>6 DEF AutoPostTypeOK
<1>9. RowsKnow'
  BY <1>1, <1>2, <1>3 DEF AutoPostInv, SlotInv, RowsKnow, Tasks
<1>10. SlotsAreOpen'
  BY <1>1, <1>2, <1>3 DEF AutoPostInv, SlotInv, SlotsAreOpen, Tasks
<1>11. SlotsAreCounted'
  <2> SUFFICES ASSUME NEW s \in Slots \ reopened
               PROVE  SlotCount(s)' <= faults' + (IF Closed(s)' THEN 1 ELSE 0)
    BY <1>1 DEF SlotsAreCounted
  <2>1. SlotCount(s)' = SlotCount(s)
    BY <1>1 DEF SlotCount
  <2>2. SlotCount(s) <= faults + (IF Closed(s) THEN 1 ELSE 0)
    BY DEF AutoPostInv, SlotInv, SlotsAreCounted
  <2>3. SlotCount(s) \in Nat
    BY <1>0, CountsAreNumbers
  <2> QED BY <1>6, <2>1, <2>2, <2>3
<1> QED BY <1>5, <1>6, <1>7, <1>8, <1>9, <1>10, <1>11 DEF AutoPostInv, SlotInv

-----------------------------------------------------------------------------
LEMMA PostStarts ==
    Init => AutoPostInv
<1> SUFFICES ASSUME Init PROVE AutoPostInv
  OBVIOUS
<1> USE AutoPostAssumption DEF Init
<1>1. Idle \in Task /\ Idle.pc = "idle" /\ Idle.slot = NoSlot
  BY DEF Idle, Task
<1>2. AutoPostTypeOK
  <2>1. posted \in Seq(Vacancies) /\ IsInjective(posted) /\ channel \in Seq(Message)
    BY DEF IsInjective
  <2>2. logged \in [Vacancies -> Nat] /\ schedule \in Schedule
        /\ clock \in [Slots -> {"future", "due", "stale"}]
    BY DEF Schedule
  <2> QED BY <1>1, <2>1, <2>2 DEF AutoPostTypeOK
<1>3. DOMAIN channel = {} /\ ~\E v : IsPosted(v)
  BY DEF IsPosted, ToSet
<1>4. Cardinality({}) = 0
  BY FS_EmptySet
<1>5. \A t \in Tasks : task[t] = Idle
  OBVIOUS
<1>6. PostersHavePicks /\ MessagesAreRecorded /\ OneIsAlone /\ PicksAreNew /\ VacanciesPostOnce
  BY <1>1, <1>3, <1>5 DEF PostersHavePicks, MessagesAreRecorded, OneIsAlone, PicksAreNew,
                          VacanciesPostOnce, Out
<1>7. LogTellsTheChannel
  <2> SUFFICES ASSUME NEW v \in Vacancies
               PROVE  /\ logged[v] + Unrecorded(v) <= SentOf(v)
                      /\ SentOf(v) <= logged[v] + Unrecorded(v) + faults
                      /\ logged[v] > 0 => IsPosted(v)
                      /\ IsPosted(v) => logged[v] > 0 \/ faults > 0
    BY DEF LogTellsTheChannel
  <2>1. {i \in DOMAIN channel : channel[i].uid = v} = {}
    BY <1>3
  <2>2. SentOf(v) = 0
    BY <1>4, <2>1 DEF SentOf, Sent
  <2>3. Unrecorded(v) = 0
    <3>1. {t \in Tasks : task[t].pc = "record" /\ task[t].uid = v} = {}
      BY <1>1, <1>5
    <3> QED BY <1>4, <3>1 DEF Unrecorded
  <2>4. logged[v] = 0 /\ faults = 0
    OBVIOUS
  <2> QED BY <1>3, <2>2, <2>3, <2>4
<1>8. RowsKnow
  BY <1>1, <1>5 DEF RowsKnow, Tasks
<1>9. SlotsAreOpen
  BY <1>1, <1>5 DEF SlotsAreOpen, Tasks
<1>10. SlotsAreCounted
  <2> SUFFICES ASSUME NEW s \in Slots
               PROVE  SlotCount(s) <= faults + (IF Closed(s) THEN 1 ELSE 0)
    BY DEF SlotsAreCounted
  <2>1. {i \in DOMAIN channel : channel[i].slot = s} = {}
    BY <1>3
  <2>2. SlotCount(s) = 0 /\ faults = 0
    BY <1>4, <2>1 DEF SlotCount
  <2> QED BY <2>2
<1> QED BY <1>2, <1>6, <1>7, <1>8, <1>9, <1>10 DEF AutoPostInv, PicksInv, SlotInv

LEMMA PostSteps ==
    AutoPostInv /\ [Next]_vars => AutoPostInv'
<1> SUFFICES ASSUME AutoPostInv, [Next]_vars PROVE AutoPostInv'
  OBVIOUS
<1>0. "tick" \in Tasks /\ "now" \in Tasks /\ NoVacancy \in Vacancies \cup {NoVacancy}
  BY DEF Tasks
<1>1. ASSUME NEW t \in Tasks, Post(t) PROVE AutoPostInv'
  BY <1>1, PickKeeps, SkipKeeps, SendKeeps, RecordKeeps DEF Post
<1>2. CASE SchedulerStep
  BY <1>0, <1>1, <1>2, UseCacheKeeps, ReadSettingsKeeps, StoreCacheKeeps, CloseStaleKeeps,
     NothingDueKeeps, SaveScheduleKeeps, ServeSlotKeeps DEF SchedulerStep
<1>3. CASE JobStep
  BY <1>0, <1>1, <1>3, ReadSettingsKeeps, StoreCacheKeeps DEF JobStep
<1>4. CASE \/ CacheExpires \/ \E v \in Vacancies : Close(v)
           \/ \E s \in Slots : SlotFallsDue(s) \/ SlotGrowsStale(s)
  BY <1>4, WorldKeeps
<1>5. ASSUME NEW t \in Tasks,
             \/ Abort(t)
             \/ \E recorded \in BOOLEAN : RecordFails(t, recorded)
             \/ \E arrived \in BOOLEAN : SendFails(t, arrived)
      PROVE  AutoPostInv'
  BY <1>5, AbortKeeps, RecordFailsKeeps, SendFailsKeeps
<1>6. CASE UNCHANGED vars
  <2>0. UNCHANGED <<fresh, posted, logged, channel, schedule, cache, clock, task, faults, reopened>>
    BY <1>6 DEF vars
  <2>1. Undisturbed
    BY <2>0 DEF Undisturbed
  <2>2. RowsKnow' /\ SlotsAreOpen'
    BY <2>0 DEF AutoPostInv, SlotInv, RowsKnow, SlotsAreOpen
  <2>3. \A s \in Slots \ reopened' : Closed(s) => Closed(s)'
    BY <2>0 DEF Closed
  <2> QED BY <2>0, <2>1, <2>2, <2>3, QuietStep DEF AutoPostInv, AutoPostTypeOK
<1> QED BY <1>2, <1>3, <1>4, <1>5, <1>6 DEF Next

\* The channel, its log and the day's slots, for any vacancies, slots and faults.
THEOREM PostsAreSound == Spec => []AutoPostInv
<1>1. Init => AutoPostInv
  BY PostStarts
<1>2. AutoPostInv /\ [Next]_vars => AutoPostInv'
  BY PostSteps
<1> QED BY <1>1, <1>2, PTL DEF Spec

\* The admin's history is the channel's up to the attempts in flight and the
\* faults, what was posted once is not picked again, and a slot posts once.
THEOREM PostsLogged == Spec => []PostsAreLoggedOnce
<1>1. AutoPostInv => PostsAreLoggedOnce
  <2> SUFFICES ASSUME AutoPostInv PROVE PostsAreLoggedOnce
    OBVIOUS
  <2>1. LogTellsTheChannel /\ VacanciesPostOnce
    BY DEF AutoPostInv, PicksInv
  <2>2. ASSUME NEW s \in Slots \ reopened PROVE Sent(LAMBDA m : m.slot = s) <= 1 + faults
    <3>1. Sent(LAMBDA m : m.slot = s) = SlotCount(s)
      BY DEF Sent, SlotCount
    <3>2. SlotCount(s) <= faults + (IF Closed(s) THEN 1 ELSE 0)
      BY DEF AutoPostInv, SlotInv, SlotsAreCounted
    <3>3. SlotCount(s) \in Nat /\ faults \in Nat
      BY CountsAreNumbers, AutoPostAssumption DEF AutoPostInv, AutoPostTypeOK
    <3> QED BY <3>1, <3>2, <3>3
  <2>3. SlotsPostOnce
    BY <2>2 DEF SlotsPostOnce
  <2> QED BY <2>1, <2>3 DEF PostsAreLoggedOnce
<1> QED BY <1>1, PostsAreSound, PTL
=============================================================================
