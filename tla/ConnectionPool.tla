--------------------------- MODULE ConnectionPool ---------------------------
(***************************************************************************)
(* The API's pool of SQLite connections (src/webapp/core/database.py): a   *)
(* semaphore counts the slots, an idle list keeps open connections, every  *)
(* request borrows one through get_db and hands it back exactly once, in a *)
(* task of its own that a cancelled request does not interrupt.            *)
(*                                                                         *)
(* A request's step is what its coroutine does between two awaits.  A      *)
(* request that ended may be followed by another one on the same id.       *)
(***************************************************************************)
EXTENDS Naturals, FiniteSets

CONSTANTS
  Requests,     \* the requests in progress at one time
  Conns,        \* identities of connections, open or not
  PoolSize,     \* DB_POOL_SIZE
  None          \* no connection

ASSUME PoolAssumption ==
  /\ PoolSize \in Nat \ {0}
  /\ IsFiniteSet(Requests) /\ IsFiniteSet(Conns)
  /\ None \notin Conns

VARIABLES
  slots,        \* the semaphore's value
  idle,         \* connections ready for reuse
  open,         \* connections open in SQLite
  opened,       \* the pool's own count of them
  closed,       \* "no", "closing" (close() awaits its idle ones), "yes"
  dirty,        \* connections with an open transaction
  req,          \* where each request is
  lease,        \* its lease: the connection, and whether it was handed back
  returning     \* the hand-back task of each connection

poolVars == <<slots, idle, open, opened, closed, dirty, req, lease, returning>>

NoLease == [conn |-> None, done |-> TRUE]

RequestStates == {"idle", "waiting", "granted", "opening", "using", "slow"}
ReturnStates == {"no", "rollback", "release", "closing"}

PoolTypeOK ==
  /\ slots \in 0..PoolSize
  /\ idle \subseteq Conns /\ open \subseteq Conns /\ dirty \subseteq open
  /\ opened \in 0..Cardinality(Conns)
  /\ closed \in {"no", "closing", "yes"}
  /\ req \in [Requests -> RequestStates]
  /\ lease \in [Requests -> [conn : Conns \cup {None}, done : BOOLEAN]]
  /\ returning \in [Conns -> ReturnStates]

PoolInit ==
  /\ slots = PoolSize
  /\ idle = {} /\ open = {} /\ dirty = {} /\ opened = 0
  /\ closed = "no"
  /\ req = [r \in Requests |-> "idle"]
  /\ lease = [r \in Requests |-> NoLease]
  /\ returning = [c \in Conns |-> "no"]

IsClosed == closed # "no"
Less(n) == IF n = 0 THEN 0 ELSE n - 1

-----------------------------------------------------------------------------
\* Borrowing: get_db and ConnectionPool.acquire.

\* A request comes in and waits for a slot; a closed pool refuses it.
Arrive(r) ==
  /\ req[r] = "idle" /\ ~IsClosed
  /\ req' = [req EXCEPT ![r] = "waiting"]
  /\ UNCHANGED <<slots, idle, open, opened, closed, dirty, lease, returning>>

TakeSlot(r) ==
  /\ req[r] = "waiting" /\ slots > 0
  /\ slots' = slots - 1
  /\ req' = [req EXCEPT ![r] = "granted"]
  /\ UNCHANGED <<idle, open, opened, closed, dirty, lease, returning>>

\* The wait timed out (503), or its request was cancelled.
GiveUp(r) ==
  /\ req[r] = "waiting"
  /\ req' = [req EXCEPT ![r] = "idle"]
  /\ UNCHANGED <<slots, idle, open, opened, closed, dirty, lease, returning>>

\* The slot is there, but the pool was closed or the request cancelled
\* meanwhile: the slot goes back.
DropSlot(r) ==
  /\ req[r] = "granted"
  /\ slots' = slots + 1
  /\ req' = [req EXCEPT ![r] = "idle"]
  /\ UNCHANGED <<idle, open, opened, closed, dirty, lease, returning>>

UseIdle(r) ==
  /\ req[r] = "granted" /\ ~IsClosed
  /\ \E c \in idle :
       /\ idle' = idle \ {c}
       /\ lease' = [lease EXCEPT ![r] = [conn |-> c, done |-> FALSE]]
  /\ req' = [req EXCEPT ![r] = "using"]
  /\ UNCHANGED <<slots, open, opened, closed, dirty, returning>>

StartOpening(r) ==
  /\ req[r] = "granted" /\ ~IsClosed /\ idle = {}
  /\ req' = [req EXCEPT ![r] = "opening"]
  /\ UNCHANGED <<slots, idle, open, opened, closed, dirty, lease, returning>>

Opened(r) ==
  /\ req[r] = "opening"
  /\ \E c \in Conns \ open :
       /\ open' = open \cup {c}
       /\ lease' = [lease EXCEPT ![r] = [conn |-> c, done |-> FALSE]]
  /\ opened' = opened + 1
  /\ req' = [req EXCEPT ![r] = "using"]
  /\ UNCHANGED <<slots, idle, closed, dirty, returning>>

\* Mutant: a failed open keeps the slot.
OpenFailsForGood(r) ==
  /\ req[r] = "opening"
  /\ req' = [req EXCEPT ![r] = "idle"]
  /\ UNCHANGED <<slots, idle, open, opened, closed, dirty, lease, returning>>

\* open_connection failed or was cancelled.
OpenFails(r) ==
  /\ req[r] = "opening"
  /\ slots' = slots + 1
  /\ req' = [req EXCEPT ![r] = "idle"]
  /\ UNCHANGED <<idle, open, opened, closed, dirty, lease, returning>>

-----------------------------------------------------------------------------
\* The handler and its lease.

Write(r) ==
  /\ req[r] = "using" /\ lease[r].conn \notin dirty
  /\ dirty' = dirty \cup {lease[r].conn}
  /\ UNCHANGED <<slots, idle, open, opened, closed, req, lease, returning>>

Commit(r) ==
  /\ req[r] = "using" /\ lease[r].conn \in dirty
  /\ dirty' = dirty \ {lease[r].conn}
  /\ UNCHANGED <<slots, idle, open, opened, closed, req, lease, returning>>

\* Mutant: finish() runs as often as it is called.
FinishedNever(r) == FALSE

Finished(r) == lease[r].done

\* _Lease.finish: idempotent, because it may be reached twice, by release_db
\* and by the end of get_db.  The flag is set before the first await.
FinishLease(r) ==
  IF Finished(r)
  THEN UNCHANGED <<lease, returning>>
  ELSE /\ lease' = [lease EXCEPT ![r].done = TRUE]
       /\ returning' = [returning EXCEPT ![lease[r].conn] = "rollback"]

\* release_db before slow work: the handler goes on without its connection.
ReleaseEarly(r) ==
  /\ req[r] = "using"
  /\ FinishLease(r)
  /\ req' = [req EXCEPT ![r] = "slow"]
  /\ UNCHANGED <<slots, idle, open, opened, closed, dirty>>

\* The request ends, on its own or cancelled at any await: get_db's clean-up
\* finishes the lease, the second time when release_db was called.
EndRequest(r) ==
  /\ req[r] \in {"using", "slow"}
  /\ FinishLease(r)
  /\ req' = [req EXCEPT ![r] = "idle"]
  /\ UNCHANGED <<slots, idle, open, opened, closed, dirty>>

-----------------------------------------------------------------------------
\* The hand-back task: _Lease._return_to_pool, release and discard.

\* Mutant: only a handler that raised is rolled back.
HandedBackAsIs(c) ==
  /\ returning[c] = "rollback"
  /\ returning' = [returning EXCEPT ![c] = "release"]
  /\ UNCHANGED <<slots, idle, open, opened, closed, dirty, req, lease>>

RolledBack(c) ==
  /\ returning[c] = "rollback"
  /\ dirty' = dirty \ {c}
  /\ returning' = [returning EXCEPT ![c] = "release"]
  /\ UNCHANGED <<slots, idle, open, opened, closed, req, lease>>

\* Mutant: release does not look whether the pool was closed.
ReleaseAnyway(c) ==
  /\ returning[c] = "release"
  /\ idle' = idle \cup {c}
  /\ slots' = slots + 1
  /\ returning' = [returning EXCEPT ![c] = "no"]
  /\ UNCHANGED <<open, opened, closed, dirty, req, lease>>

\* release on a pool that is still open.
Release(c) ==
  /\ returning[c] = "release" /\ ~IsClosed
  /\ idle' = idle \cup {c}
  /\ slots' = slots + 1
  /\ returning' = [returning EXCEPT ![c] = "no"]
  /\ UNCHANGED <<open, opened, closed, dirty, req, lease>>

\* The rollback failed (discard), or the pool is closed (release): the
\* connection is closed, which takes an await.
StartClosing(c) ==
  /\ \/ returning[c] = "rollback"
     \/ returning[c] = "release" /\ IsClosed
  /\ opened' = Less(opened)
  /\ returning' = [returning EXCEPT ![c] = "closing"]
  /\ UNCHANGED <<slots, idle, open, closed, dirty, req, lease>>

Closed(c) ==
  /\ returning[c] = "closing"
  /\ open' = open \ {c} /\ dirty' = dirty \ {c}
  /\ slots' = slots + 1
  /\ returning' = [returning EXCEPT ![c] = "no"]
  /\ UNCHANGED <<idle, opened, closed, req, lease>>

-----------------------------------------------------------------------------
\* close(): the flag first, then the idle connections one by one.

StartClose ==
  /\ closed = "no"
  /\ closed' = "closing"
  /\ UNCHANGED <<slots, idle, open, opened, dirty, req, lease, returning>>

\* The pool's list is taken over by close(); `idle` holds what is left of it.
CloseIdle ==
  /\ closed = "closing"
  /\ \E c \in idle : idle' = idle \ {c} /\ open' = open \ {c}
  /\ UNCHANGED <<slots, opened, closed, dirty, req, lease, returning>>

FinishClose ==
  /\ closed = "closing" /\ idle = {}
  /\ opened' = 0
  /\ closed' = "yes"
  /\ UNCHANGED <<slots, idle, open, dirty, req, lease, returning>>

-----------------------------------------------------------------------------
RequestStep(r) ==
  \/ Arrive(r) \/ TakeSlot(r) \/ GiveUp(r) \/ DropSlot(r)
  \/ UseIdle(r) \/ StartOpening(r) \/ Opened(r) \/ OpenFails(r)
  \/ Write(r) \/ Commit(r) \/ ReleaseEarly(r) \/ EndRequest(r)

ReturnStep(c) == RolledBack(c) \/ Release(c) \/ StartClosing(c) \/ Closed(c)

-----------------------------------------------------------------------------
Holders(c) == {r \in Requests : lease[r].conn = c /\ ~lease[r].done}

\* A connection is used by one request, or idle, or on its way back, and
\* never two of these: aiosqlite connections are not safe to share, and a
\* second hand-back would put one into the list while somebody uses it. And a
\* transaction that a handler left open never reaches the next request.
ConnectionsAreExclusive ==
  \A c \in Conns :
    /\ \A r, s \in Holders(c) : r = s
    /\ Holders(c) # {} => c \notin idle /\ returning[c] = "no" /\ c \in open
    /\ c \in idle => returning[c] = "no" /\ c \in open
    /\ returning[c] # "no" => c \in open
    /\ c \in dirty => c \notin idle /\ returning[c] # "release"

Borrowers == {r \in Requests : req[r] \in {"granted", "opening"} \/ ~lease[r].done}
Returns == {c \in Conns : returning[c] # "no"}

\* Every slot is free, with a request or with a hand-back: none is ever lost
\* or given back twice, whichever way requests end, and while the pool is in
\* use its own count of connections is right and within its size.  After close()
\* the last connection goes with the last request.
SlotsAreConserved ==
  /\ slots + Cardinality(Borrowers) + Cardinality(Returns) = PoolSize
  /\ closed = "no" =>
       /\ opened = Cardinality({c \in open : returning[c] # "closing"})
       /\ Cardinality(open) <= PoolSize
  /\ closed = "yes" /\ Returns = {} /\ (\A r \in Requests : req[r] = "idle") => open = {}

\* Neither a connection nor a slot is shared, lost or given back twice.
PoolIsSound == ConnectionsAreExclusive /\ SlotsAreConserved

=============================================================================
