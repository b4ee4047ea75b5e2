----------------------------- MODULE Broadcasts -----------------------------
(***************************************************************************)
(* Mass messages: the tables `broadcasts` (jobs) and `broadcast_targets`   *)
(* (one row per recipient), the worker of the bot process that sends them  *)
(* (src/functions/broadcast_worker.py), and the admins of the bot and of   *)
(* the API who queue, pause, resume and cancel them.                       *)
(*                                                                         *)
(* A statement or write transaction of the worker is one step; between two *)
(* of them it holds no lock, and other workers and admins move. Time is    *)
(* abstracted to what the code asks of it: a retry is not due yet          *)
(* (`later`), and a claim is older than STALE_CLAIM_SECONDS (`stale`).     *)
(*                                                                         *)
(* Telegram is external: every send may end in any of Outcomes. Rate       *)
(* limit, media and texts are left out, and so is `users.blocked`, which   *)
(* here only enters the choice of an audience.                             *)
(***************************************************************************)
EXTENDS Integers, FiniteSets

CONSTANTS Jobs,         \* broadcasts.id
          Users,        \* users.user_id
          Workers,      \* bot processes (a deploy may overlap two)
          Callers,      \* concurrent POST .../queue requests of the API
          Audiences,    \* the recipients a segment may select, at any time
          Outcomes,     \* the outcomes of a send that Telegram may produce
          BatchSize,    \* BATCH_SIZE
          MaxAttempts,  \* MAX_ATTEMPTS
          MinFailures,  \* EARLY_ABORT_MIN_FAILURES
          Prompt,       \* a live batch ends before its claims are stale
          MaxFaults,    \* bound: crashes, shutdowns and lost result writes
          NoJob

AllOutcomes == {"sent", "unreachable", "chat_not_found", "content",
                "network", "flood", "flood_pause"}

ASSUME BroadcastsAssumption ==
    /\ Jobs \subseteq Nat /\ NoJob \notin Jobs
    /\ IsFiniteSet(Users)
    /\ Audiences \subseteq SUBSET Users \ {{}}
    /\ Outcomes \subseteq AllOutcomes
    /\ BatchSize \in Nat \ {0}
    /\ MaxAttempts \in Nat \ {0}
    /\ MinFailures \in Nat \ {0}
    /\ Prompt \in BOOLEAN
    /\ MaxFaults \in Nat

VARIABLES job,          \* job[b]: the row of broadcasts
          target,       \* target[b][u]: the row of broadcast_targets
          worker,       \* worker[w]: where worker w's loop is
          caller,       \* caller[c]: the draft an API request has read
          faults        \* how many faults have happened

vars == <<job, target, worker, caller, faults>>

-----------------------------------------------------------------------------
Active == {"queued", "running"}
Finished == {"done", "failed", "cancelled"}
Statuses == Active \cup Finished \cup {"none", "draft", "paused"}

JobRecord == [status: Statuses, total: Nat, sent: Nat, failed: Nat,
              blocked: Nat, contentFailed: Nat]

NewJob == [status |-> "none", total |-> 0, sent |-> 0, failed |-> 0,
           blocked |-> 0, contentFailed |-> 0]

Final == {"sent", "failed", "blocked"}

Target == [status: {"none", "pending", "sending"} \cup Final,
           attempts: 0..MaxAttempts, later: BOOLEAN, stale: BOOLEAN]

NoTarget == [status |-> "none", attempts |-> 0, later |-> FALSE, stale |-> FALSE]

\* A claimed recipient is still to be sent to, or has had an outcome; `tries`
\* are the attempts read with the claim.
Worker == [pc: {"poll", "load", "start", "claim", "check", "finish", "send", "write"},
           job: Jobs \cup {NoJob},
           batch: [Users -> {"none", "todo"} \cup AllOutcomes],
           tries: [Users -> 0..MaxAttempts]]

NoBatch == [u \in Users |-> "none"]
AtPoll == [pc |-> "poll", job |-> NoJob, batch |-> NoBatch, tries |-> [u \in Users |-> 0]]

BroadcastTypeOK ==
    /\ job \in [Jobs -> JobRecord]
    /\ target \in [Jobs -> [Users -> Target]]
    /\ worker \in [Workers -> Worker]
    /\ caller \in [Callers -> Jobs \cup {NoJob}]
    /\ faults \in 0..MaxFaults

Init ==
    /\ job = [b \in Jobs |-> NewJob]
    /\ target = [b \in Jobs |-> [u \in Users |-> NoTarget]]
    /\ worker = [w \in Workers |-> AtPoll]
    /\ caller = [c \in Callers |-> NoJob]
    /\ faults = 0

Rows(b, statuses) == {u \in Users : target[b][u].status \in statuses}

-----------------------------------------------------------------------------
(***************************************************************************)
(* Admins.                                                                 *)
(***************************************************************************)
SetStatus(b, status) == job' = [job EXCEPT ![b].status = status]

\* create_broadcast.
Drafted(row) == [row EXCEPT !.status = "draft"]

CreateDraft(b) ==
    /\ job[b].status = "none"
    /\ job' = [job EXCEPT ![b] = Drafted(@)]
    /\ UNCHANGED <<target, worker, caller, faults>>

\* materialize_targets: INSERT OR IGNORE of the audience.
Materialized(b, audience) ==
    [target EXCEPT ![b] = [u \in Users |->
        IF u \in audience /\ @[u].status = "none"
        THEN [NoTarget EXCEPT !.status = "pending"] ELSE @[u]]]

\* queue_broadcast: what the count of the job's rows is then.
Total(b, audience) == Cardinality(Rows(b, Final \cup {"pending", "sending"}) \cup audience)

\* The bot: the conditional UPDATE is the first write of the transaction.
QueueDraft(b, audience) ==
    /\ job[b].status = "draft"
    /\ target' = Materialized(b, audience)
    /\ job' = [job EXCEPT ![b].status = "queued", ![b].total = Total(b, audience)]
    /\ UNCHANGED <<worker, caller, faults>>

\* The API reads that the job is a draft ...
ReadDraft(c, b) ==
    /\ caller[c] = NoJob
    /\ job[b].status = "draft"
    /\ caller' = [caller EXCEPT ![c] = b]
    /\ UNCHANGED <<job, target, worker, faults>>

\* ... then materializes the targets, whatever the job has become, and queues
\* it where it is a draft still.
QueueRead(c, audience) ==
    LET b == caller[c] IN
    /\ b # NoJob
    /\ target' = Materialized(b, audience)
    /\ job' = IF job[b].status = "draft"
              THEN [job EXCEPT ![b].status = "queued", ![b].total = Total(b, audience)]
              ELSE job
    /\ caller' = [caller EXCEPT ![c] = NoJob]
    /\ UNCHANGED <<worker, faults>>

\* set_broadcast_state: the statuses an action starts from, and the one it sets.
Transitions == {<<Active, "paused">>, <<{"paused"}, "queued">>,
                <<Active \cup {"draft", "paused"}, "cancelled">>}

SetBroadcastState(b) ==
    \E t \in Transitions :
        /\ job[b].status \in t[1]
        /\ SetStatus(b, t[2])
        /\ UNCHANGED <<target, worker, caller, faults>>

\* Pause, resume and cancel of the API.
ChangeState(b) == SetBroadcastState(b)

\* The same from the bot's card, which leaves a draft to its author; a dropped
\* draft is cancelled.
TapJob(b) ==
    \/ job[b].status # "draft" /\ SetBroadcastState(b)
    \/ /\ job[b].status = "draft"
       /\ SetStatus(b, "cancelled")
       /\ UNCHANGED <<target, worker, caller, faults>>

-----------------------------------------------------------------------------
(***************************************************************************)
(* Time.                                                                   *)
(***************************************************************************)
RetryFallsDue(b, u) ==
    /\ target[b][u].later
    /\ target' = [target EXCEPT ![b][u].later = FALSE]
    /\ UNCHANGED <<job, worker, caller, faults>>

\* Worker w has claimed the row and not written its result.
Holds(w, b, u) == worker[w].job = b /\ worker[w].batch[u] # "none"

ClaimAges(b, u) ==
    /\ target[b][u].status = "sending" /\ ~target[b][u].stale
    /\ Prompt => \A w \in Workers : ~Holds(w, b, u)
    /\ target' = [target EXCEPT ![b][u].stale = TRUE]
    /\ UNCHANGED <<job, worker, caller, faults>>

-----------------------------------------------------------------------------
(***************************************************************************)
(* The worker.                                                             *)
(***************************************************************************)
Goto(w, pc) == worker' = [worker EXCEPT ![w].pc = pc]
Return(w) == worker' = [worker EXCEPT ![w] = AtPoll]

\* Mutant: "every sending row (what this used to do)".
EverySending(row) == row.status = "sending"

Stale(row) == row.status = "sending" /\ row.stale

\* reset_stale_claims, from the top of the loop.
ResetStale(w) ==
    /\ worker[w].pc = "poll"
    /\ \E b \in Jobs, u \in Users : Stale(target[b][u])
    /\ target' = [b \in Jobs |-> [u \in Users |->
          IF Stale(target[b][u])
          THEN [target[b][u] EXCEPT !.status = "pending", !.stale = FALSE]
          ELSE target[b][u]]]
    /\ UNCHANGED <<job, worker, caller, faults>>

\* Mutants: a retry is never taken again; a failed row is.
NeverTried(row) == row.status = "pending" /\ row.attempts = 0
PendingOrFailed(row) == row.status \in {"pending", "failed"} /\ ~row.later

Due(row) == row.status = "pending" /\ ~row.later

\* _next_broadcast_id: some row is due, or nothing at all is left.
Pickable(b) ==
    /\ job[b].status \in Active
    /\ \/ \E u \in Users : Due(target[b][u])
       \/ Rows(b, {"pending", "sending"}) = {}

\* The oldest such job.
Pick(w, b) ==
    /\ worker[w].pc = "poll"
    /\ Pickable(b)
    /\ \A x \in Jobs : Pickable(x) => b <= x
    /\ worker' = [worker EXCEPT ![w].pc = "load", ![w].job = b]
    /\ UNCHANGED <<job, target, caller, faults>>

\* run_broadcast at a batch boundary reads the status; a job that is no longer
\* active is left alone (a cancelled one stays cancelled).
Load(w) ==
    /\ worker[w].pc = "load"
    /\ LET status == job[worker[w].job].status IN
       IF status \notin Active THEN Return(w)
       ELSE Goto(w, IF status = "queued" THEN "start" ELSE "claim")
    /\ UNCHANGED <<job, target, caller, faults>>

\* UPDATE ... SET status = 'running' WHERE status = 'queued'.
Start(w) ==
    /\ worker[w].pc = "start"
    /\ job' = IF job[worker[w].job].status = "queued"
              THEN [job EXCEPT ![worker[w].job].status = "running"] ELSE job
    /\ Goto(w, "claim")
    /\ UNCHANGED <<target, caller, faults>>

\* _claim_with_attempts: up to BatchSize due rows, in one UPDATE ... RETURNING.
Claim(w, users) ==
    LET b == worker[w].job
        due == {u \in Users : Due(target[b][u])}
    IN
    /\ worker[w].pc = "claim"
    /\ users \subseteq due /\ users # {}
    /\ Cardinality(users) = IF Cardinality(due) < BatchSize THEN Cardinality(due)
                            ELSE BatchSize
    /\ target' = [target EXCEPT ![b] = [u \in Users |->
                    IF u \in users
                    THEN [@[u] EXCEPT !.status = "sending", !.stale = FALSE] ELSE @[u]]]
    /\ worker' = [worker EXCEPT
                    ![w].pc = "send",
                    ![w].batch = [u \in Users |-> IF u \in users THEN "todo" ELSE "none"],
                    ![w].tries = [u \in Users |->
                                    IF u \in users THEN target[b][u].attempts ELSE 0]]
    /\ UNCHANGED <<job, caller, faults>>

ClaimNothing(w) ==
    /\ worker[w].pc = "claim"
    /\ \A u \in Users : ~Due(target[worker[w].job][u])
    /\ Goto(w, "check")
    /\ UNCHANGED <<job, target, caller, faults>>

\* Mutant: rows another worker is sending are not counted.
NonePending(b) == Rows(b, {"pending"}) = {}

NoneLeft(b) == Rows(b, {"pending", "sending"}) = {}

\* _remaining; when rows are left the job is someone else's or a later poll's.
Check(w) ==
    /\ worker[w].pc = "check"
    /\ IF NoneLeft(worker[w].job) THEN Goto(w, "finish") ELSE Return(w)
    /\ UNCHANGED <<job, target, caller, faults>>

\* Mutant: the UPDATE is not conditional on an active job.
MayFinishAny(status) == TRUE

MayFinish(status) == status \in Active

\* _finish_done.
FinishDone(w) ==
    LET b == worker[w].job IN
    /\ worker[w].pc = "finish"
    /\ job' = IF MayFinish(job[b].status) THEN [job EXCEPT ![b].status = "done"] ELSE job
    /\ Return(w)
    /\ UNCHANGED <<target, caller, faults>>

-----------------------------------------------------------------------------
Todo(w) == {u \in Users : worker[w].batch[u] = "todo"}

\* One send. A flood that asks for a pause ends the batch; so does its last
\* recipient. The sends go in user_id order, which no property depends on.
Deliver(w, u, outcome) ==
    /\ worker[w].pc = "send"
    /\ u \in Todo(w)
    /\ worker' = [worker EXCEPT
                    ![w].batch[u] = outcome,
                    ![w].pc = IF outcome = "flood_pause" \/ Todo(w) = {u}
                              THEN "write" ELSE "send"]
    /\ UNCHANGED <<job, target, caller, faults>>

\* plan_outcome: what a send does to its row.
Plan(outcome, tries) ==
    CASE outcome = "sent" -> "sent"
      [] outcome \in {"network", "flood", "flood_pause"} /\ tries + 1 < MaxAttempts -> "pending"
      [] outcome = "unreachable" -> "blocked"
      [] OTHER -> "failed"

Results(w) == {u \in Users : worker[w].batch[u] \notin {"none", "todo"}}

Planned(w, u) == Plan(worker[w].batch[u], worker[w].tries[u])

\* The row after the batch: a result overwrites it, a recipient not sent to is
\* released where the row is still being sent.
RowAfter(w, u, row) ==
    IF u \in Results(w)
    THEN [status |-> Planned(w, u), attempts |-> worker[w].tries[u] + 1,
          later |-> Planned(w, u) = "pending", stale |-> FALSE]
    ELSE IF u \in Todo(w) /\ row.status = "sending"
    THEN [row EXCEPT !.status = "pending", !.stale = FALSE]
    ELSE row

\* Mutant: a retry is counted as a failure too.
TallyRetries(w, status) ==
    Cardinality({u \in Results(w) : \/ Planned(w, u) = status
                                    \/ status = "failed" /\ Planned(w, u) = "pending"})

Tally(w, status) == Cardinality({u \in Results(w) : Planned(w, u) = status})

ContentFailures(w) ==
    Cardinality({u \in Results(w) : Planned(w, u) = "failed"
                                      /\ worker[w].batch[u] = "content"})

Counted(w, j) ==
    [j EXCEPT !.sent = @ + Tally(w, "sent"), !.failed = @ + Tally(w, "failed"),
              !.blocked = @ + Tally(w, "blocked"),
              !.contentFailed = @ + ContentFailures(w)]

\* The early abort: at least MinFailures content failures, and 95 % of what
\* Telegram has judged.
Rejected(j) ==
    /\ j.status \in Active \cup {"paused"}
    /\ j.contentFailed >= MinFailures
    /\ 100 * j.contentFailed >= 95 * (j.sent + j.contentFailed)

\* _write_results: rows, counters and early abort in one transaction.
WriteResults(w) ==
    LET b == worker[w].job
        counted == Counted(w, job[b])
    IN
    /\ worker[w].pc = "write"
    /\ target' = [target EXCEPT ![b] = [u \in Users |-> RowAfter(w, u, @[u])]]
    /\ job' = [job EXCEPT ![b] =
                 IF ContentFailures(w) > 0 /\ Rejected(counted)
                 THEN [counted EXCEPT !.status = "failed"] ELSE counted]
    /\ worker' = [worker EXCEPT ![w] = [AtPoll EXCEPT !.pc = "load", !.job = b]]
    /\ UNCHANGED <<caller, faults>>

-----------------------------------------------------------------------------
Fault == faults < MaxFaults /\ faults' = faults + 1

\* A deploy cancels the worker in mid-batch: the results it has are written,
\* the send in flight and the rest go back.
Shutdown(w) ==
    /\ worker[w].pc = "send"
    /\ Goto(w, "write")
    /\ Fault
    /\ UNCHANGED <<job, target, caller>>

\* The process dies, or the result write fails for good: the worker starts
\* again from the poll and knows nothing of its batch.
Die(w) ==
    /\ worker[w].pc # "poll"
    /\ Return(w)
    /\ Fault
    /\ UNCHANGED <<job, target, caller>>

-----------------------------------------------------------------------------
WorkerStep(w) ==
    \/ \E b \in Jobs : Pick(w, b)
    \/ Load(w) \/ Start(w) \/ ClaimNothing(w) \/ Check(w) \/ FinishDone(w)
    \/ \E users \in SUBSET Users : Claim(w, users)
    \/ \E u \in Users, outcome \in Outcomes : Deliver(w, u, outcome)
    \/ WriteResults(w)

AdminStep ==
    \/ \E b \in Jobs :
          \/ CreateDraft(b)
          \/ \E audience \in Audiences : QueueDraft(b, audience)
          \/ \E c \in Callers : ReadDraft(c, b)
          \/ ChangeState(b)
          \/ TapJob(b)
    \/ \E c \in Callers, audience \in Audiences : QueueRead(c, audience)

TimeStep == \E b \in Jobs, u \in Users : RetryFallsDue(b, u) \/ ClaimAges(b, u)

Next ==
    \/ AdminStep
    \/ TimeStep
    \/ \E w \in Workers : WorkerStep(w) \/ ResetStale(w) \/ Shutdown(w) \/ Die(w)

Spec == Init /\ [][Next]_vars

\* The loop of a live worker goes on, it looks for stale claims every
\* STALE_RESET_INTERVAL_SECONDS, and time passes. Nothing is asked of admins
\* or of Telegram.
Fairness ==
    /\ \A w \in Workers : WF_vars(WorkerStep(w)) /\ WF_vars(ResetStale(w))
    /\ \A b \in Jobs, u \in Users : WF_vars(RetryFallsDue(b, u)) /\ WF_vars(ClaimAges(b, u))

FairSpec == Spec /\ Fairness

-----------------------------------------------------------------------------
(***************************************************************************)
(* Properties.                                                             *)
(***************************************************************************)

\* "A claimed row is owned by exactly one worker": a recipient in a worker's
\* batch is being sent to by nobody else, and its row says so until the worker
\* has written its result.
ClaimsHaveOneOwner ==
    \A w \in Workers, b \in Jobs, u \in Users : Holds(w, b, u) =>
        /\ target[b][u].status = "sending"
        /\ \A x \in Workers : Holds(x, b, u) => x = w

\* The job has the rows its queueing counted: no second queue request, which
\* found it no longer a draft, has added recipients the segment selects by now.
Whole(b) == Cardinality(Rows(b, Final \cup {"pending", "sending"})) = job[b].total

\* The counters of the progress card are the numbers of rows with these
\* results: no batch is counted twice, lost or counted for a row that is
\* retried. They never run past the total, and "a job never finishes while a
\* retry is outstanding", nor while another worker still sends for it, unless
\* recipients were added behind its back.
CountersTellTheRows ==
    \A b \in Jobs :
        LET j == job[b] IN
        /\ j.sent = Cardinality(Rows(b, {"sent"}))
        /\ j.failed = Cardinality(Rows(b, {"failed"}))
        /\ j.blocked = Cardinality(Rows(b, {"blocked"}))
        /\ j.contentFailed <= j.failed
        /\ Whole(b) => /\ j.sent + j.failed + j.blocked <= j.total
                       /\ j.status = "done" => Rows(b, {"pending", "sending"}) = {}

\* Rows, batches and counters tell the same story, as said above.
ClaimsAndCountersAgree == ClaimsHaveOneOwner /\ CountersTellTheRows

\* A recipient with a result is never sent to again: the worker that holds it
\* found it pending, and no result is replaced.
\* And whatever an admin's status change races with in the worker: a finished
\* job stays as it finished (a cancel is not overwritten by `done`, nor a
\* `done` by a pause), and only the admins take a job out of a pause.
ResultsAreFinal ==
    [][\A b \in Jobs :
          /\ \A u \in Users :
                target[b][u].status \in Final => target'[b][u] = target[b][u]
          /\ job[b].status \in Finished => job'[b].status = job[b].status
          /\ job[b].status = "paused" => job'[b].status \notin {"running", "done"}
      ]_<<target, job>>

\* A queued job ends, or an admin pauses it, if admins do not pause and resume
\* older jobs for ever: retries run out, claims of dead workers are handed back
\* and no other job keeps the worker to itself.
ResumesEnd ==
    <>[][\A b \in Jobs : job[b].status = "paused" => job'[b].status # "queued"]_job

QueuedJobsEnd ==
    ResumesEnd => \A b \in Jobs : job[b].status = "queued" ~> job[b].status \notin Active
=============================================================================
