------------------------------- MODULE Roster -------------------------------
(***************************************************************************)
(* Who may act in the admin panel: the table `admins`                      *)
(* (webapp/routers/admin_admins.py), the role of an actor and the          *)
(* bootstrap of owners from ADMIN_IDS (webapp/core/auth.py), and what a    *)
(* moderator may do to another account (ban and sign-out,                  *)
(* webapp/routers/admin_users.py).                                         *)
(*                                                                         *)
(* A request reads one statement at a time and other requests commit in    *)
(* between; its writes are one transaction. Confirmation tokens, rate      *)
(* limits and the audit rows are left out, and a refused request just ends.*)
(***************************************************************************)
EXTENDS Logins

CONSTANTS AdminIds,     \* ADMIN_IDS of the server's environment
          Requests,     \* admin requests, each served once
          Calls,        \* what a request may ask for, without its target
          Starts,       \* what admins and banned may hold at first
          NoCall

ASSUME RosterAssumption ==
    IsFiniteSet(Users) /\ AdminIds \subseteq Users /\ NoCall \notin Calls

VARIABLES admins,       \* the table admins
          banned,       \* users.banned
          reqs,         \* reqs[r]: the request r
          signedOut     \* history: when a user was last banned or signed out

rosterVars == <<now, logins, linksBefore, admins, banned, reqs, signedOut>>

Roles == {"viewer", "moderator", "admin", "owner"}
Rank(role) == CASE role = "owner" -> 3 [] role = "admin" -> 2
                [] role = "moderator" -> 1 [] role = "viewer" -> 0
                [] OTHER -> -1

\* A row of `admins`; a user without one has NoRow.
AdminRow == [role: Roles, disabled: BOOLEAN]
NoRow == [role |-> "none", disabled |-> FALSE]

\* A field a PATCH does not carry is Keep.
Keep == "keep"
Call == [op: {"add", "update", "remove", "ban", "unban", "revoke"},
         role: Roles \cup {Keep}, disabled: {"yes", "no", Keep}]

ASSUME CallsAssumption ==
    /\ Calls \subseteq Call
    /\ \A call \in Calls : call.op = "add" => call.role # Keep
    /\ Starts \subseteq [admins: [Users -> AdminRow \cup {NoRow}], banned: [Users -> BOOLEAN]]

Request == [pc: {"idle", "role", "bootstrap", "insert", "banned", "target", "owners",
                 "last", "write", "done"},
            actor: Users \cup {NoUser}, call: Calls \cup {NoCall},
            target: Users \cup {NoUser}, role: Roles \cup {"none"},
            row: AdminRow \cup {NoRow}, overtaken: BOOLEAN]

NoRequest == [pc |-> "idle", actor |-> NoUser, call |-> NoCall,
              target |-> NoUser, role |-> "none", row |-> NoRow, overtaken |-> FALSE]

RosterTypeOK ==
    /\ LoginsTypeOK
    /\ admins \in [Users -> AdminRow \cup {NoRow}]
    /\ banned \in [Users -> BOOLEAN]
    /\ reqs \in [Requests -> Request]
    /\ signedOut \in [Users -> -1..MaxTime]

Actor(r) == reqs[r].actor

EnabledOwners(table) == {u \in Users : table[u].role = "owner" /\ ~table[u].disabled}

-----------------------------------------------------------------------------
(* One statement of a request. What others commit while a request is      *)
(* under way overtakes it: what it has read may no longer be so.           *)

Served == [NoRequest EXCEPT !.pc = "done"]

Advance(r, pc) ==
    reqs' = [reqs EXCEPT ![r] = IF pc = "done" THEN Served ELSE [reqs[r] EXCEPT !.pc = pc]]

\* The request r commits a write and goes on as req.
Commit(r, req) ==
    reqs' = [q \in Requests |->
                IF q = r THEN req
                ELSE IF reqs[q].pc \in {"idle", "done"} THEN reqs[q]
                ELSE [reqs[q] EXCEPT !.overtaken = TRUE]]

\* The bearer's session is looked up.
Authenticate(r, s, call, target) ==
    /\ reqs[r].pc = "idle"
    /\ Usable(s)
    /\ reqs' = [reqs EXCEPT ![r] = [NoRequest EXCEPT !.pc = "role", !.actor = logins[s].user,
                                                     !.call = call, !.target = target]]
    /\ UNCHANGED <<now, logins, linksBefore, admins, banned, signedOut>>

\* resolve_admin_role: the actor's row. A disabled one beats ADMIN_IDS.
ReadRole(r) ==
    LET row == admins[Actor(r)] IN
    /\ reqs[r].pc = "role"
    /\ reqs' = [reqs EXCEPT ![r] =
                   IF row.disabled \/ (row = NoRow /\ Actor(r) \notin AdminIds) THEN Served
                   ELSE [reqs[r] EXCEPT !.role = row.role,
                                  !.pc = IF row = NoRow THEN "bootstrap" ELSE "banned"]]
    /\ UNCHANGED <<now, logins, linksBefore, admins, banned, signedOut>>

\* Without a row, an id of ADMIN_IDS is an owner while there is none ...
ReadOwners(r) ==
    /\ reqs[r].pc = "bootstrap"
    /\ Advance(r, IF EnabledOwners(admins) = {} THEN "insert" ELSE "done")
    /\ UNCHANGED <<now, logins, linksBefore, admins, banned, signedOut>>

\* ... and INSERT OR IGNORE puts it into the table.
Bootstrap(r) ==
    LET u == Actor(r) IN
    /\ reqs[r].pc = "insert"
    /\ admins' = [admins EXCEPT ![u] = IF @ = NoRow THEN [role |-> "owner", disabled |-> FALSE]
                                                    ELSE @]
    /\ Commit(r, [reqs[r] EXCEPT !.pc = "banned", !.role = "owner"])
    /\ UNCHANGED <<now, logins, linksBefore, banned, signedOut>>

NeededRank(op) == CASE op \in {"ban", "unban"} -> Rank("moderator")
                    [] op = "revoke" -> Rank("admin")
                    [] OTHER -> Rank("owner")

\* Mutant: the ban of an admin is only looked at by the entry gate.
RankOnly(r) ==
    /\ reqs[r].pc = "banned"
    /\ Advance(r, IF Rank(reqs[r].role) >= NeededRank(reqs[r].call.op)
                  THEN "target" ELSE "done")
    /\ UNCHANGED <<now, logins, linksBefore, admins, banned, signedOut>>

\* require_admin refuses a banned actor, require_role one of too low a role.
RequireRole(r) ==
    /\ reqs[r].pc = "banned"
    /\ Advance(r, IF /\ ~banned[Actor(r)]
                     /\ Rank(reqs[r].role) >= NeededRank(reqs[r].call.op)
                  THEN "target" ELSE "done")
    /\ UNCHANGED <<now, logins, linksBefore, admins, banned, signedOut>>

-----------------------------------------------------------------------------
\* Mutant: the guard does not look at demotions.
Removes(call, row) ==
    /\ row.role = "owner" /\ ~row.disabled
    /\ call.op = "remove" \/ call.disabled = "yes"

\* Does the call take from an enabled owner what makes it one?
Dethrones(call, row) ==
    /\ row.role = "owner" /\ ~row.disabled
    /\ \/ call.op = "remove"
       \/ call.op = "update" /\ \/ call.disabled = "yes"
                                \/ /\ call.role # Keep
                                   /\ Rank(call.role) < Rank(row.role)

\* There is nobody to change, or nothing to add.
Misses(call, row) == IF call.op = "add" THEN row # NoRow /\ ~row.disabled ELSE row = NoRow

\* The owner's handlers read the target's row.
ReadTarget(r) ==
    LET row == admins[reqs[r].target]  call == reqs[r].call IN
    /\ reqs[r].pc = "target"
    /\ call.op \in {"add", "update", "remove"}
    /\ reqs' = [reqs EXCEPT ![r] =
                   IF Misses(call, row) THEN Served
                   ELSE [reqs[r] EXCEPT !.row = row,
                                  !.pc = IF Dethrones(call, row) THEN "last" ELSE "write"]]
    /\ UNCHANGED <<now, logins, linksBefore, admins, banned, signedOut>>

\* Mutant: an owner is left only in the sense of the row being removed.
AnyOwnerLeft(r) == Cardinality(EnabledOwners(admins)) >= 1

OwnerLeft(r) == Cardinality(EnabledOwners(admins)) > 1

\* _guard_last_owner counts the enabled owners.
GuardLastOwner(r) ==
    /\ reqs[r].pc = "last"
    /\ Advance(r, IF OwnerLeft(r) THEN "write" ELSE "done")
    /\ UNCHANGED <<now, logins, linksBefore, admins, banned, signedOut>>

\* Mutant: an equal may be banned.
RanksAbove(target, actor) == target # "none" /\ Rank(target) > Rank(actor)

OutranksOrEquals(target, actor) == target # "none" /\ Rank(target) >= Rank(actor)

\* _guard_target of a ban or a sign-out: the role the target holds ...
GuardTarget(r) ==
    LET row == admins[reqs[r].target] IN
    /\ reqs[r].pc = "target"
    /\ reqs[r].call.op \in {"ban", "unban", "revoke"}
    /\ Advance(r, IF row = NoRow /\ reqs[r].target \in AdminIds THEN "owners"
                  ELSE IF ~row.disabled /\ OutranksOrEquals(row.role, reqs[r].role) THEN "done"
                  ELSE "write")
    /\ UNCHANGED <<now, logins, linksBefore, admins, banned, signedOut>>

\* ... where an id of ADMIN_IDS counts as an owner while there is none.
GuardEnvTarget(r) ==
    /\ reqs[r].pc = "owners"
    /\ Advance(r, IF EnabledOwners(admins) = {} THEN "done" ELSE "write")
    /\ UNCHANGED <<now, logins, linksBefore, admins, banned, signedOut>>

-----------------------------------------------------------------------------
\* add_admin: an INSERT, refused by the key if a row has come, or a revival.
AddAdmin(r) ==
    LET t == reqs[r].target IN
    /\ reqs[r].pc = "write" /\ reqs[r].call.op = "add"
    /\ IF reqs[r].row = NoRow /\ admins[t] # NoRow
       THEN Advance(r, "done") /\ UNCHANGED admins
       ELSE /\ admins' = [admins EXCEPT ![t] =
                             IF reqs[r].row # NoRow /\ @ = NoRow THEN @
                             ELSE [role |-> reqs[r].call.role, disabled |-> FALSE]]
            /\ Commit(r, Served)
    /\ UNCHANGED <<now, logins, linksBefore, banned, signedOut>>

\* update_admin writes the fields that differ from the row it has read, if any.
Patched(row, call, read) ==
    [role |-> IF call.role \in {Keep, read.role} THEN row.role ELSE call.role,
     disabled |-> IF call.disabled = Keep \/ (call.disabled = "yes") = read.disabled
                  THEN row.disabled ELSE call.disabled = "yes"]

UpdateAdmin(r) ==
    LET t == reqs[r].target  call == reqs[r].call  read == reqs[r].row IN
    /\ reqs[r].pc = "write" /\ call.op = "update"
    /\ IF Patched(read, call, read) = read
       THEN Advance(r, "done") /\ UNCHANGED admins
       ELSE /\ admins' = [admins EXCEPT ![t] = IF @ = NoRow THEN @ ELSE Patched(@, call, read)]
            /\ Commit(r, Served)
    /\ UNCHANGED <<now, logins, linksBefore, banned, signedOut>>

RemoveAdmin(r) ==
    /\ reqs[r].pc = "write" /\ reqs[r].call.op = "remove"
    /\ admins' = [admins EXCEPT ![reqs[r].target] = NoRow]
    /\ Commit(r, Served)
    /\ UNCHANGED <<now, logins, linksBefore, banned, signedOut>>

\* set_user_ban and revoke_user_sessions.
BanOrRevoke(r) ==
    LET t == reqs[r].target  op == reqs[r].call.op IN
    /\ reqs[r].pc = "write" /\ op \in {"ban", "unban", "revoke"}
    /\ banned' = IF op = "revoke" THEN banned ELSE [banned EXCEPT ![t] = (op = "ban")]
    /\ IF op = "unban" THEN UNCHANGED <<logins, linksBefore, signedOut>>
       ELSE RevokeSessions(t) /\ signedOut' = [signedOut EXCEPT ![t] = now]
    /\ Commit(r, Served)
    /\ UNCHANGED <<now, admins>>

Write(r) == AddAdmin(r) \/ UpdateAdmin(r) \/ RemoveAdmin(r) \/ BanOrRevoke(r)

AdminStep(r) ==
    \/ \E s \in Sessions, call \in Calls, target \in Users : Authenticate(r, s, call, target)
    \/ ReadRole(r) \/ ReadOwners(r) \/ Bootstrap(r) \/ RequireRole(r)
    \/ ReadTarget(r) \/ GuardLastOwner(r) \/ GuardTarget(r) \/ GuardEnvTarget(r)
    \/ Write(r)

RosterInit ==
    /\ now = 0
    /\ logins = [s \in Sessions |-> NoLogin]
    /\ linksBefore = [u \in Users |-> Never]
    /\ \E start \in Starts : admins = start.admins /\ banned = start.banned
    /\ signedOut = [u \in Users |-> Never]
    /\ reqs = [r \in Requests |-> NoRequest]

RosterNext ==
    \/ LoginStep /\ UNCHANGED <<admins, banned, reqs, signedOut>>
    \/ \E r \in Requests : AdminStep(r)

RosterSpec == RosterInit /\ [][RosterNext]_rosterVars

-----------------------------------------------------------------------------
\* A panel that has an owner keeps one: every request that demotes, disables
\* or removes the last enabled owner was overtaken by another commit between
\* its checks and its write. admin_admins.py says the last enabled owner is
\* protected (its lines 7-10); the guard and the write are two statements.
OwnersAreKept ==
    [][\/ EnabledOwners(admins) = {} \/ EnabledOwners(admins') # {}
       \/ \E r \in Requests : reqs[r].pc = "write" /\ reqs[r].overtaken /\ reqs'[r].pc = "done"
      ]_rosterVars

\* The role a user has by the table as it stands.
RoleOf(u) == IF admins[u].disabled THEN "none"
             ELSE IF admins[u] = NoRow /\ u \in AdminIds /\ EnabledOwners(admins) = {}
                  THEN "owner"
                  ELSE admins[u].role

\* What the actor of r may do by that role, unless banned: only an owner
\* changes the table, and a ban or a sign-out takes more than the target has.
Permitted(r) ==
    LET role == RoleOf(Actor(r))  op == reqs[r].call.op IN
    /\ ~banned[Actor(r)]
    /\ Rank(role) >= NeededRank(op)
    /\ op \in {"ban", "unban", "revoke"} => Rank(RoleOf(reqs[r].target)) < Rank(role)

\* Every write of the panel is permitted by the table and the bans in force
\* when it is made, unless another commit overtook the request: whoever was
\* removed, disabled, demoted or banned before a request began cannot act, an
\* id of ADMIN_IDS becomes an owner only while there is none, and nobody bans
\* or signs out an equal.
WritesArePermitted ==
    [][\A r \in Requests : ~reqs[r].overtaken =>
         /\ Write(r) => Permitted(r)
         /\ Bootstrap(r) => EnabledOwners(admins) = {} /\ admins[Actor(r)] = NoRow
      ]_rosterVars

\* What the panel does to its own table and to accounts, it may do: owners are
\* kept, and writes are permitted (admin_admins.py, core/auth.py).
RosterIsGuarded == OwnersAreKept /\ WritesArePermitted

\* A ban or a sign-out leaves no session behind and no link that opens one:
\* a live session came after it, or by a link issued after it, or its login
\* had passed the check already when the user was signed out.
SignedOutStaysOut ==
    \A s \in Sessions : logins[s].pc = "open" =>
       \/ logins[s].late
       \/ IF logins[s].link = NoLink THEN logins[s].made >= signedOut[logins[s].user]
                                     ELSE logins[s].link > signedOut[logins[s].user]
=============================================================================
