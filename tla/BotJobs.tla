------------------------------- MODULE BotJobs -------------------------------
(***************************************************************************)
(* The queue by which the API hands work to the bot: the table `bot_jobs`, *)
(* the pollers that claim and run its rows and the reaper of rows that     *)
(* dead processes left behind (src/functions/bot_jobs.py), and the admin's *)
(* "post now" that queues them (webapp/routers/admin_autopost.py).         *)
(*                                                                         *)
(* Every statement that commits is a step. Time is kept as ages, in units  *)
(* of which a handler may take JobTimeout and a write waits for at most    *)
(* LockWait (busy_timeout): the row's age counts from its `started_at`,    *)
(* the poller's from the start of the handler. Handlers are external: they *)
(* return, raise or run into their timeout.                                *)
(***************************************************************************)
EXTENDS Integers

CONSTANTS Jobs,         \* bot_jobs.id
          Kinds,        \* kinds with a handler; "post_now" is asked for by admins
          Pollers,      \* bot processes (or overlapping ticks)
          Callers,      \* concurrent requests of the admin panel
          JobTimeout,   \* JOB_TIMEOUT_SECONDS
          LockWait,     \* busy_timeout
          StaleAfter,   \* STALE_JOB_SECONDS
          MaxFaults,    \* bound: crashes, shutdowns and lost writes
          NoJob

PostNow == "post_now"

ASSUME BotJobsAssumption ==
    /\ Jobs \subseteq Nat /\ NoJob \notin Jobs
    /\ JobTimeout \in Nat \ {0}
    /\ LockWait \in Nat
    /\ StaleAfter \in Nat
    /\ JobTimeout + 3 * LockWait < StaleAfter
    /\ MaxFaults \in Nat

VARIABLES job,      \* job[j]: the row of bot_jobs
          poller,   \* poller[p]: where the loop of bot process p is
          caller,   \* caller[c]: whether request c has found nothing pending
          runs,     \* runs[j]: how often the handler of j was started
          returned, \* the jobs whose handler has returned a result
          faults    \* how many faults have happened

vars == <<job, poller, caller, runs, returned, faults>>

-----------------------------------------------------------------------------
Final == {"done", "failed"}

Ages == 0..(StaleAfter + 1)

Job == [status: {"none", "queued", "running"} \cup Final,
        kind: Kinds \cup {PostNow, "unknown"}, age: Ages]

NoRow == [status |-> "none", kind |-> "unknown", age |-> 0]

Poller == [pc: {"idle", "claim", "run", "write"}, job: Jobs \cup {NoJob},
           out: Final, age: 0..(JobTimeout + 2 * LockWait)]

AtIdle == [pc |-> "idle", job |-> NoJob, out |-> "failed", age |-> 0]

BotJobsTypeOK ==
    /\ job \in [Jobs -> Job]
    /\ poller \in [Pollers -> Poller]
    /\ caller \in [Callers -> BOOLEAN]
    /\ runs \in [Jobs -> Nat]
    /\ returned \subseteq Jobs
    /\ faults \in 0..MaxFaults

Init ==
    /\ job = [j \in Jobs |-> NoRow]
    /\ poller = [p \in Pollers |-> AtIdle]
    /\ caller = [c \in Callers |-> FALSE]
    /\ runs = [j \in Jobs |-> 0]
    /\ returned = {}
    /\ faults = 0

-----------------------------------------------------------------------------
(***************************************************************************)
(* The API.                                                                *)
(***************************************************************************)

\* Mutants: the margin for the result write is forgotten; the reaper never runs.
StaleEarly(j) == job[j].status = "running" /\ job[j].age > JobTimeout
NeverStale(j) == FALSE

\* A running row as old as this has no live owner.
Stale(j) == job[j].status = "running" /\ job[j].age > StaleAfter

\* find_pending_job: a dead claim is not a pending job.
Pending(j) == job[j].status \in {"queued", "running"} /\ ~Stale(j)

\* POST .../post-now looks for a pending job of its kind (409 if there is one) ...
FindNothingPending(c) ==
    /\ ~caller[c]
    /\ \A j \in Jobs : Pending(j) => job[j].kind # PostNow
    /\ caller' = [caller EXCEPT ![c] = TRUE]
    /\ UNCHANGED <<job, poller, runs, returned, faults>>

SetRow(j, status, age) ==
    job' = [job EXCEPT ![j] = [@ EXCEPT !.status = status, !.age = age]]

Insert(j, kind) ==
    /\ job[j].status = "none"
    /\ \A i \in Jobs : i < j => job[i].status # "none"
    /\ job' = [job EXCEPT ![j] = [NoRow EXCEPT !.status = "queued", !.kind = kind]]

\* ... and inserts its own, in a transaction that begins with the INSERT.
EnqueuePostNow(c, j) ==
    /\ caller[c]
    /\ Insert(j, PostNow)
    /\ caller' = [caller EXCEPT ![c] = FALSE]
    /\ UNCHANGED <<poller, runs, returned, faults>>

\* Any other kind is inserted without a look at the queue; a kind nobody
\* registered may be among them.
EnqueueJob(j, kind) ==
    /\ Insert(j, kind)
    /\ UNCHANGED <<poller, caller, runs, returned, faults>>

-----------------------------------------------------------------------------
(***************************************************************************)
(* The bot.                                                                *)
(***************************************************************************)
Queued == {j \in Jobs : job[j].status = "queued"}

\* reap_stale_jobs: dead claims are failed, never queued again.
Reap(p) ==
    /\ poller[p].pc = "idle"
    /\ \E j \in Jobs : Stale(j)
    /\ job' = [j \in Jobs |-> IF Stale(j)
                              THEN [job[j] EXCEPT !.status = "failed", !.age = 0]
                              ELSE job[j]]
    /\ UNCHANGED <<poller, caller, runs, returned, faults>>

\* claim_next_job reads the oldest queued job ...
ReadQueued(p) ==
    /\ poller[p].pc = "idle"
    /\ \E j \in Queued :
          /\ \A i \in Queued : j <= i
          /\ poller' = [poller EXCEPT ![p] = [AtIdle EXCEPT !.pc = "claim", !.job = j]]
    /\ UNCHANGED <<job, caller, runs, returned, faults>>

\* Mutant: the UPDATE has no `AND status = 'queued'`.
ClaimableAny(j) == TRUE

Claimable(j) == job[j].status = "queued"

\* ... and takes it where it is queued still. `started_at` was read before the
\* UPDATE waited for the write lock. A kind without a handler goes straight to
\* its failure.
Claim(p, waited) ==
    LET j == poller[p].job
        known == job[j].kind # "unknown"
    IN
    /\ poller[p].pc = "claim"
    /\ Claimable(j)
    /\ SetRow(j, "running", waited)
    /\ poller' = [poller EXCEPT ![p] = [AtIdle EXCEPT
                    !.pc = IF known THEN "run" ELSE "write", !.job = j]]
    /\ runs' = [runs EXCEPT ![j] = IF known THEN @ + 1 ELSE @]
    /\ UNCHANGED <<caller, returned, faults>>

\* Another poller was first: the tick ends.
LoseClaim(p) ==
    /\ poller[p].pc = "claim"
    /\ ~Claimable(poller[p].job)
    /\ poller' = [poller EXCEPT ![p] = AtIdle]
    /\ UNCHANGED <<job, caller, runs, returned, faults>>

\* The handler returns (done), or raises or times out (failed).
Finish(p, out) ==
    /\ poller[p].pc = "run"
    /\ poller' = [poller EXCEPT ![p] = [@ EXCEPT !.pc = "write", !.out = out]]
    /\ returned' = IF out = "done" THEN returned \cup {poller[p].job} ELSE returned
    /\ UNCHANGED <<job, caller, runs, faults>>

\* The result is written by id, with no look at the status.
WriteResult(p) ==
    /\ poller[p].pc = "write"
    /\ SetRow(poller[p].job, poller[p].out, 0)
    /\ poller' = [poller EXCEPT ![p] = AtIdle]
    /\ UNCHANGED <<caller, runs, returned, faults>>

-----------------------------------------------------------------------------
(***************************************************************************)
(* Faults.                                                                 *)
(***************************************************************************)
Fault == faults < MaxFaults /\ faults' = faults + 1

\* The write of `done` raises: the except branch writes `failed` instead.
DoneWriteFails(p) ==
    /\ poller[p].pc = "write" /\ poller[p].out = "done"
    /\ poller' = [poller EXCEPT ![p] = [@ EXCEPT !.out = "failed"]]
    /\ Fault
    /\ UNCHANGED <<job, caller, runs, returned>>

\* Shutdown in mid-handler, or in the write of its result: the job is failed
\* where it is running still.
Shutdown(p) ==
    /\ \/ poller[p].pc = "run"
       \/ poller[p].pc = "write" /\ poller[p].out = "done"
    /\ IF job[poller[p].job].status = "running"
       THEN SetRow(poller[p].job, "failed", 0) ELSE UNCHANGED job
    /\ poller' = [poller EXCEPT ![p] = AtIdle]
    /\ Fault
    /\ UNCHANGED <<caller, runs, returned>>

\* The process dies, or the write of `failed` raises too: the row is left.
Die(p) ==
    /\ poller[p].pc # "idle"
    /\ poller' = [poller EXCEPT ![p] = AtIdle]
    /\ Fault
    /\ UNCHANGED <<job, caller, runs, returned>>

-----------------------------------------------------------------------------
(***************************************************************************)
(* Time.                                                                   *)
(***************************************************************************)
\* The result is written at most twice, `done` and then `failed`.
Deadline(pc) == IF pc = "run" THEN JobTimeout ELSE JobTimeout + 2 * LockWait

Working(p) == poller[p].pc \in {"run", "write"}

\* wait_for ends every handler at its timeout, and busy_timeout every write.
Tick ==
    /\ \A p \in Pollers : Working(p) => poller[p].age < Deadline(poller[p].pc)
    /\ job' = [j \in Jobs |->
                 IF job[j].status = "running" /\ job[j].age <= StaleAfter
                 THEN [job[j] EXCEPT !.age = @ + 1] ELSE job[j]]
    /\ poller' = [p \in Pollers |->
                    IF Working(p) THEN [poller[p] EXCEPT !.age = @ + 1] ELSE poller[p]]
    /\ UNCHANGED <<caller, runs, returned, faults>>

-----------------------------------------------------------------------------
PollerStep(p) ==
    \/ ReadQueued(p) \/ LoseClaim(p) \/ WriteResult(p)
    \/ \E waited \in 0..LockWait : Claim(p, waited)
    \/ \E out \in Final : Finish(p, out)

Next ==
    \/ \E c \in Callers : FindNothingPending(c) \/ \E j \in Jobs : EnqueuePostNow(c, j)
    \/ \E j \in Jobs, kind \in Kinds : EnqueueJob(j, kind)
    \/ \E p \in Pollers : PollerStep(p) \/ Reap(p) \/ DoneWriteFails(p) \/ Shutdown(p) \/ Die(p)
    \/ Tick

Spec == Init /\ [][Next]_vars

\* The loop goes on whatever its jobs do ("it never propagates out of
\* bot_jobs_loop"), reaps every REAP_INTERVAL_SECONDS, and time passes.
Fairness ==
    /\ \A p \in Pollers : WF_vars(PollerStep(p)) /\ WF_vars(Reap(p))
    /\ WF_vars(Tick)

FairSpec == Spec /\ Fairness

-----------------------------------------------------------------------------
(***************************************************************************)
(* Properties.                                                             *)
(***************************************************************************)

\* "Stale jobs are failed, not re-queued: a half-run auto_post.post_now may
\* already have posted": whatever pollers race, die or time out, a handler is
\* started once.
JobsRunOnce == \A j \in Jobs : runs[j] <= 1

\* "No live poller can hold a job longer than JOB_TIMEOUT_SECONDS": the row of
\* a job that is being run says so, belongs to one poller, and is not stale,
\* so the reaper and the pending check never take a live job for a dead one.
LiveJobsAreHeld ==
    \A p \in Pollers : Working(p) =>
        /\ job[poller[p].job].status = "running" /\ ~Stale(poller[p].job)
        /\ \A q \in Pollers : Working(q) /\ poller[q].job = poller[p].job => q = p

\* A result the panel has polled never changes, and `done` means that the
\* handler returned.
ResultStands(j) ==
    /\ job[j].status \in Final => job'[j] = job[j]
    /\ job'[j].status = "done" => j \in returned

ResultsAreTrue == [][\A j \in Jobs : ResultStands(j)]_job

\* A job that was asked for ends, although processes die: otherwise post-now
\* "would answer 409 forever".
JobsEnd == \A j \in Jobs : job[j].status = "queued" ~> job[j].status \in Final
=============================================================================
