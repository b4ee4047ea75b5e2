-------------------------- MODULE BroadcastsProofs ---------------------------
(***************************************************************************)
(* Theorems about mass messages: the inductive invariant of the jobs, the  *)
(* recipients' rows and the workers' batches, for every number of jobs,    *)
(* recipients, workers and queue requests.                                 *)
(*                                                                         *)
(* All of that is under the module's hypothesis Prompt: a live batch ends  *)
(* before its claims are STALE_CLAIM_SECONDS old. Without it another       *)
(* worker is handed the rows a slow one still holds, as the code intends   *)
(* for dead ones.                                                          *)
(*                                                                         *)
(* In the second half, about the resumes: what the pages of the studio     *)
(* hold and save (ResumeStudio), under no hypothesis.                      *)
(***************************************************************************)
EXTENDS Broadcasts, ResumeStudio, FiniteSetTheorems, TLAPS

-----------------------------------------------------------------------------
(***************************************************************************)
(* The inductive invariant.                                                *)
(***************************************************************************)
Row == [status: {"none", "pending", "sending"} \cup Final, attempts: Nat,
        later: BOOLEAN, stale: BOOLEAN]

WorkerRow == [pc: {"poll", "load", "start", "claim", "check", "finish", "send", "write"},
              job: Jobs \cup {NoJob},
              batch: [Users -> {"none", "todo"} \cup AllOutcomes],
              tries: [Users -> Nat]]

\* The rows of a batch are held only between a claim and its results.
Shape ==
  /\ job \in [Jobs -> JobRecord]
  /\ target \in [Jobs -> [Users -> Row]]
  /\ worker \in [Workers -> WorkerRow]
  /\ caller \in [Callers -> Jobs \cup {NoJob}]
  /\ \A w \in Workers :
        /\ worker[w].pc # "poll" => worker[w].job \in Jobs
        /\ worker[w].pc \notin {"send", "write"} => worker[w].batch = NoBatch

\* A held row is being sent, its claim is fresh, and it has one holder.
Owners ==
  \A w \in Workers, b \in Jobs, u \in Users : Holds(w, b, u) =>
      /\ target[b][u].status = "sending" /\ target[b][u].stale = FALSE
      /\ \A x \in Workers : Holds(x, b, u) => x = w

\* Only a row that waits for its retry is not due yet.
Later ==
  \A b \in Jobs, u \in Users : target[b][u].later = TRUE => target[b][u].status = "pending"

Counters ==
  \A b \in Jobs :
      /\ job[b].sent = Cardinality(Rows(b, {"sent"}))
      /\ job[b].failed = Cardinality(Rows(b, {"failed"}))
      /\ job[b].blocked = Cardinality(Rows(b, {"blocked"}))
      /\ job[b].contentFailed <= job[b].failed

All(b) == Rows(b, Final \cup {"pending", "sending"})

Ending(b) ==
  job[b].status = "done" \/ \E w \in Workers : worker[w].pc = "finish" /\ worker[w].job = b

\* A job counts no more rows than it has. Where it counts them all, one that
\* is done, or that a worker is about to finish, has nothing left.
Ends ==
  \A b \in Jobs :
      /\ job[b].total <= Cardinality(All(b))
      /\ Whole(b) /\ Ending(b) => NoneLeft(b)

\* A worker is at work on jobs that have been queued.
Started ==
  \A w \in Workers :
      worker[w].pc # "poll" => job[worker[w].job].status \notin {"none", "draft"}

Inv == Shape /\ Owners /\ Later /\ Counters /\ Ends /\ Started

-----------------------------------------------------------------------------
(***************************************************************************)
(* Sets of recipients.                                                     *)
(***************************************************************************)
LEMMA RecipientsAreFinite ==
    ASSUME NEW S, S \subseteq Users
    PROVE  IsFiniteSet(S) /\ Cardinality(S) \in Nat
  BY BroadcastsAssumption, FS_Subset, FS_CardinalityType

LEMMA FewerRecipients ==
    ASSUME NEW S, NEW T, S \subseteq T, T \subseteq Users
    PROVE  /\ Cardinality(S) <= Cardinality(T)
           /\ Cardinality(S) = Cardinality(T) => S = T
  BY RecipientsAreFinite, FS_Subset

LEMMA DisjointRecipients ==
    ASSUME NEW S, NEW T, S \subseteq Users, T \subseteq Users, S \cap T = {}
    PROVE  Cardinality(S \cup T) = Cardinality(S) + Cardinality(T)
<1>1. IsFiniteSet(S) /\ IsFiniteSet(T) /\ Cardinality(S) \in Nat /\ Cardinality(T) \in Nat
  BY RecipientsAreFinite
<1>2. Cardinality(S \cup T) = Cardinality(S) + Cardinality(T) - Cardinality(S \cap T)
  BY <1>1, FS_Union
<1>3. Cardinality(S \cap T) = 0
  BY FS_EmptySet
<1> QED BY <1>1, <1>2, <1>3

-----------------------------------------------------------------------------
(***************************************************************************)
(* A step that neither adds rows nor writes results.                       *)
(***************************************************************************)
Live == {"pending", "sending"}

\* No row leaves the live ones or joins them.
RowsKeepClass ==
  \A b \in Jobs, u \in Users :
      \/ target'[b][u].status = target[b][u].status
      \/ target'[b][u].status \in Live /\ target[b][u].status \in Live

CountsKept ==
  \A b \in Jobs :
      /\ job'[b].total = job[b].total
      /\ job'[b].sent = job[b].sent
      /\ job'[b].failed = job[b].failed
      /\ job'[b].blocked = job[b].blocked
      /\ job'[b].contentFailed = job[b].contentFailed

\* A job comes to its end where a worker has just found nothing left.
EndsAreFound ==
  \A b \in Jobs : Ending(b)' => Ending(b) \/ NoneLeft(b)

LEMMA SameRows ==
    ASSUME RowsKeepClass, NEW b \in Jobs
    PROVE  /\ Rows(b, {"sent"})' = Rows(b, {"sent"})
           /\ Rows(b, {"failed"})' = Rows(b, {"failed"})
           /\ Rows(b, {"blocked"})' = Rows(b, {"blocked"})
           /\ All(b)' = All(b)
           /\ Rows(b, {"pending", "sending"})' = Rows(b, {"pending", "sending"})
  BY DEF RowsKeepClass, Live, Rows, All, Final

LEMMA QuietStep ==
    ASSUME Inv, Shape', Owners', Later', Started', RowsKeepClass, CountsKept, EndsAreFound
    PROVE  Inv'
<1>1. Counters'
  <2> SUFFICES ASSUME NEW b \in Jobs
               PROVE /\ job'[b].sent = Cardinality(Rows(b, {"sent"})')
                     /\ job'[b].failed = Cardinality(Rows(b, {"failed"})')
                     /\ job'[b].blocked = Cardinality(Rows(b, {"blocked"})')
                     /\ job'[b].contentFailed <= job'[b].failed
    BY DEF Counters
  <2> QED BY SameRows DEF Inv, Counters, CountsKept
<1>2. Ends'
  <2> SUFFICES ASSUME NEW b \in Jobs
               PROVE /\ job'[b].total <= Cardinality(All(b)')
                     /\ Whole(b)' /\ Ending(b)' => NoneLeft(b)'
    BY DEF Ends
  <2>1. All(b)' = All(b) /\ Rows(b, {"pending", "sending"})' = Rows(b, {"pending", "sending"})
    BY SameRows
  <2>2. job'[b].total = job[b].total
    BY DEF CountsKept
  <2>3. (Whole(b)' => Whole(b)) /\ (NoneLeft(b) => NoneLeft(b)')
    BY <2>1, <2>2 DEF Whole, All, NoneLeft
  <2>4. (Ending(b)' => Ending(b) \/ NoneLeft(b)) /\ job[b].total <= Cardinality(All(b))
        /\ (Whole(b) /\ Ending(b) => NoneLeft(b))
    BY DEF Inv, Ends, EndsAreFound
  <2> QED BY <2>1, <2>2, <2>3, <2>4
<1> QED BY <1>1, <1>2 DEF Inv

\* Held before means held after no more: every step but a claim.
HoldsShrink ==
  \A w \in Workers, b \in Jobs, u \in Users : Holds(w, b, u)' => Holds(w, b, u)

LEMMA SameTargets ==
    ASSUME Inv, target' = target, HoldsShrink
    PROVE  Owners' /\ Later' /\ RowsKeepClass
<1>1. Owners'
  BY DEF Inv, Owners, HoldsShrink
<1>2. Later'
  BY DEF Inv, Later
<1>3. RowsKeepClass
  BY DEF RowsKeepClass
<1> QED BY <1>1, <1>2, <1>3

-----------------------------------------------------------------------------
(***************************************************************************)
(* Steps that leave the rows alone.                                        *)
(***************************************************************************)
LEMMA SetStatusShape ==
    ASSUME Inv, NEW b \in Jobs, NEW status \in Statuses, SetStatus(b, status)
    PROVE  /\ job' \in [Jobs -> JobRecord]
           /\ \A x \in Jobs : job'[x].status = IF x = b THEN status ELSE job[x].status
           /\ CountsKept
  BY DEF Inv, Shape, SetStatus, JobRecord, CountsKept

\* Of an admin on a job's status.
LEMMA StatusStep ==
    ASSUME Inv, NEW b \in Jobs, NEW status \in Statuses \ {"none", "done"},
           SetStatus(b, status), status = "draft" => job[b].status = "none",
           caller' \in [Callers -> Jobs \cup {NoJob}],
           UNCHANGED <<target, worker>>
    PROVE  Inv'
<1>1. /\ \A x \in Jobs : job'[x].status = IF x = b THEN status ELSE job[x].status
      /\ CountsKept /\ Shape'
  BY SetStatusShape DEF Inv, Shape
<1>2. HoldsShrink
  BY DEF HoldsShrink, Holds
<1>3. Owners' /\ Later' /\ RowsKeepClass
  BY <1>2, SameTargets
<1>4. Started'
  BY <1>1 DEF Inv, Shape, Started
<1>5. EndsAreFound
  BY <1>1 DEF EndsAreFound, Ending
<1> QED BY <1>1, <1>3, <1>4, <1>5, QuietStep

LEMMA CreateDraftStep ==
    ASSUME Inv, NEW b \in Jobs, CreateDraft(b)
    PROVE  Inv'
<1>1. "draft" \in Statuses \ {"none", "done"}
  BY DEF Statuses
<1>2. caller' \in [Callers -> Jobs \cup {NoJob}]
  BY DEF CreateDraft, Inv, Shape
<1>3. SetStatus(b, "draft")
  BY DEF CreateDraft, Drafted, SetStatus
<1> QED BY <1>1, <1>2, <1>3, StatusStep DEF CreateDraft

\* A tap on the bot's card is one of the shared transitions.
LEMMA TapIsTransition ==
    ASSUME NEW b \in Jobs, TapJob(b)
    PROVE  SetBroadcastState(b)
<1> DEFINE t == <<Active \cup {"draft", "paused"}, "cancelled">>
<1>1. t \in Transitions /\ "draft" \in t[1] /\ t[2] = "cancelled"
  BY DEF Transitions
<1> HIDE DEF t
<1> QED BY <1>1 DEF TapJob, SetBroadcastState

LEMMA SetBroadcastStateStep ==
    ASSUME Inv, NEW b \in Jobs, SetBroadcastState(b)
    PROVE  Inv'
<1>1. PICK t \in Transitions : SetStatus(b, t[2]) /\ UNCHANGED <<target, worker, caller>>
  BY DEF SetBroadcastState
<1>2. t[2] \in {"paused", "queued", "cancelled"}
  BY DEF Transitions
<1>3. t[2] \in Statuses \ {"none", "done"} /\ t[2] # "draft"
  BY <1>2 DEF Statuses, Active, Finished
<1>4. caller' \in [Callers -> Jobs \cup {NoJob}]
  BY <1>1 DEF Inv, Shape
<1> QED BY <1>1, <1>3, <1>4, StatusStep

LEMMA ReadDraftStep ==
    ASSUME Inv, NEW c \in Callers, NEW b \in Jobs, ReadDraft(c, b)
    PROVE  Inv'
<1>1. Shape'
  BY DEF Inv, Shape, ReadDraft
<1>2. HoldsShrink
  BY DEF HoldsShrink, Holds, ReadDraft
<1>3. Owners' /\ Later' /\ RowsKeepClass
  BY <1>2, SameTargets DEF ReadDraft
<1>4. CountsKept /\ Started' /\ EndsAreFound
  BY DEF ReadDraft, CountsKept, Started, EndsAreFound, Ending, Inv
<1> QED BY <1>1, <1>3, <1>4, QuietStep

\* Of a worker that goes on to another step: it keeps its job or starts on an
\* active one, and its batch, but for the outcomes it has learned.
GoesOn(w) ==
  /\ worker' = [worker EXCEPT ![w] = worker'[w]]
  /\ worker'[w] \in WorkerRow
  /\ worker'[w].pc # "poll" =>
        /\ worker'[w].job \in Jobs
        /\ \/ worker[w].pc # "poll" /\ worker'[w].job = worker[w].job
           \/ job[worker'[w].job].status \in Active
  /\ worker'[w].pc \notin {"send", "write"} => worker'[w].batch = NoBatch
  /\ \/ worker'[w].batch = NoBatch
     \/ /\ worker'[w].job = worker[w].job
        /\ \A u \in Users : worker'[w].batch[u] # "none" => worker[w].batch[u] # "none"
  /\ worker'[w].pc = "finish" => NoneLeft(worker'[w].job)

LEMMA WorkerKeeps ==
    ASSUME Inv, NEW w \in Workers, GoesOn(w), UNCHANGED <<target, caller>>,
           job' \in [Jobs -> JobRecord],
           \A b \in Jobs : job[b].status \notin {"none", "draft"} =>
                             job'[b].status \notin {"none", "draft"}
    PROVE  Shape' /\ Owners' /\ Later' /\ RowsKeepClass /\ Started'
<1>1. \A x \in Workers : x # w => worker'[x] = worker[x]
  BY DEF GoesOn, Inv, Shape
<1>2. Shape'
  <2>1. worker' \in [Workers -> WorkerRow]
    BY DEF GoesOn, Inv, Shape
  <2>2. \A x \in Workers :
           /\ worker'[x].pc # "poll" => worker'[x].job \in Jobs
           /\ worker'[x].pc \notin {"send", "write"} => worker'[x].batch = NoBatch
    BY <1>1 DEF GoesOn, Inv, Shape
  <2> QED BY <2>1, <2>2 DEF Inv, Shape
<1>3. HoldsShrink
  <2>1. \A u \in Users : NoBatch[u] = "none"
    BY DEF NoBatch
  <2> QED BY <1>1, <2>1 DEF HoldsShrink, Holds, GoesOn
<1>4. Started'
  BY <1>1 DEF GoesOn, Inv, Shape, Started, Active
<1> QED BY <1>2, <1>3, <1>4, SameTargets

LEMMA WorkerMoves ==
    ASSUME Inv, NEW w \in Workers, GoesOn(w), UNCHANGED <<target, caller, job>>
    PROVE  Inv'
<1>1. Shape' /\ Owners' /\ Later' /\ RowsKeepClass /\ Started'
  BY WorkerKeeps DEF Inv, Shape
<1>2. CountsKept
  BY DEF CountsKept
<1>3. EndsAreFound
  BY DEF EndsAreFound, Ending, GoesOn, Inv, Shape
<1> QED BY <1>1, <1>2, <1>3, QuietStep

LEMMA AtPollShape ==
    /\ AtPoll \in WorkerRow /\ AtPoll.pc = "poll" /\ AtPoll.batch = NoBatch
    /\ AtPoll.job = NoJob
  BY DEF AtPoll, WorkerRow, NoBatch

LEMMA PickStep ==
    ASSUME Inv, NEW w \in Workers, NEW b \in Jobs, Pick(w, b)
    PROVE  Inv'
<1>1. GoesOn(w)
  BY ZenonT(60) DEF Pick, Pickable, GoesOn, Inv, Shape, WorkerRow
<1> QED BY <1>1, WorkerMoves DEF Pick

LEMMA ReturnGoesOn ==
    ASSUME Inv, NEW w \in Workers, Return(w)
    PROVE  GoesOn(w)
<1>1. worker'[w] = AtPoll /\ worker' = [worker EXCEPT ![w] = worker'[w]]
  BY DEF Return, Inv, Shape
<1> QED BY <1>1, AtPollShape DEF GoesOn

LEMMA GotoGoesOn ==
    ASSUME Inv, NEW w \in Workers,
           NEW pc \in {"start", "claim", "check", "finish", "send", "write"}, Goto(w, pc),
           worker[w].pc # "poll",
           pc \in {"send", "write"} \/ worker[w].pc \notin {"send", "write"},
           pc = "finish" => NoneLeft(worker[w].job)
    PROVE  GoesOn(w)
<1>1. /\ worker' = [worker EXCEPT ![w] = worker'[w]]
      /\ worker'[w] = [worker[w] EXCEPT !.pc = pc]
      /\ worker[w] \in WorkerRow
  BY DEF Goto, Inv, Shape
<1>2. /\ worker'[w] \in WorkerRow /\ worker'[w].pc = pc /\ worker'[w].job = worker[w].job
      /\ worker'[w].batch = worker[w].batch
  BY <1>1 DEF WorkerRow
<1> QED BY <1>1, <1>2 DEF GoesOn, Inv, Shape

LEMMA LoadStep ==
    ASSUME Inv, NEW w \in Workers, Load(w)
    PROVE  Inv'
<1>1. CASE Return(w)
  BY <1>1, ReturnGoesOn, WorkerMoves DEF Load
<1>2. CASE Goto(w, "start")
  <2>1. GoesOn(w)
    BY <1>2, GotoGoesOn DEF Load
  <2> QED BY <2>1, WorkerMoves DEF Load
<1>3. CASE Goto(w, "claim")
  <2>1. GoesOn(w)
    BY <1>3, GotoGoesOn DEF Load
  <2> QED BY <2>1, WorkerMoves DEF Load
<1> QED BY <1>1, <1>2, <1>3 DEF Load

LEMMA ClaimNothingStep ==
    ASSUME Inv, NEW w \in Workers, ClaimNothing(w)
    PROVE  Inv'
<1>1. GoesOn(w)
  BY GotoGoesOn DEF ClaimNothing
<1> QED BY <1>1, WorkerMoves DEF ClaimNothing

LEMMA CheckStep ==
    ASSUME Inv, NEW w \in Workers, Check(w)
    PROVE  Inv'
<1>1. CASE NoneLeft(worker[w].job)
  <2>1. GoesOn(w)
    BY <1>1, GotoGoesOn DEF Check
  <2> QED BY <2>1, WorkerMoves DEF Check
<1>2. CASE ~NoneLeft(worker[w].job)
  <2>1. GoesOn(w)
    BY <1>2, ReturnGoesOn DEF Check
  <2> QED BY <2>1, WorkerMoves DEF Check
<1> QED BY <1>1, <1>2

LEMMA DeliverStep ==
    ASSUME Inv, NEW w \in Workers, NEW u \in Users, NEW outcome \in Outcomes,
           Deliver(w, u, outcome)
    PROVE  Inv'
<1>1. worker[w] \in WorkerRow /\ worker[w].batch[u] = "todo" /\ worker[w].pc = "send"
  BY DEF Deliver, Todo, Inv, Shape
<1>2. PICK pc \in {"write", "send"} :
         worker' = [worker EXCEPT ![w].batch[u] = outcome, ![w].pc = pc]
  BY DEF Deliver
<1>3. /\ worker' = [worker EXCEPT ![w] = worker'[w]]
      /\ worker'[w] = [worker[w] EXCEPT !.batch[u] = outcome, !.pc = pc]
  BY <1>1, <1>2 DEF Inv, Shape, WorkerRow
<1>4. outcome \in AllOutcomes
  BY BroadcastsAssumption
<1>5. /\ worker'[w] \in WorkerRow /\ worker'[w].pc = pc
      /\ worker'[w].job = worker[w].job
      /\ worker'[w].batch = [worker[w].batch EXCEPT ![u] = outcome]
  <2>1. [worker[w].batch EXCEPT ![u] = outcome] \in [Users -> {"none", "todo"} \cup AllOutcomes]
    BY <1>1, <1>4 DEF WorkerRow
  <2>2. worker'[w] = [worker[w] EXCEPT !.batch = [worker[w].batch EXCEPT ![u] = outcome],
                                       !.pc = pc]
    BY <1>3
  <2> QED BY <1>1, <2>1, <2>2 DEF WorkerRow
<1>6. \A x \in Users : worker'[w].batch[x] # "none" => worker[w].batch[x] # "none"
  BY <1>1, <1>5 DEF WorkerRow
<1>7. GoesOn(w)
  BY <1>1, <1>3, <1>5, <1>6 DEF GoesOn, Inv, Shape
<1> QED BY <1>7, WorkerMoves DEF Deliver

LEMMA ShutdownStep ==
    ASSUME Inv, NEW w \in Workers, Shutdown(w)
    PROVE  Inv'
<1>1. GoesOn(w)
  BY GotoGoesOn DEF Shutdown
<1> QED BY <1>1, WorkerMoves DEF Shutdown

LEMMA DieStep ==
    ASSUME Inv, NEW w \in Workers, Die(w)
    PROVE  Inv'
  BY ReturnGoesOn, WorkerMoves DEF Die

LEMMA StartStep ==
    ASSUME Inv, NEW w \in Workers, Start(w)
    PROVE  Inv'
<1> DEFINE b == worker[w].job
<1>1. b \in Jobs
  BY DEF Start, Inv, Shape
<1>2. GoesOn(w)
  BY GotoGoesOn DEF Start
<1>3. /\ job' \in [Jobs -> JobRecord]
      /\ CountsKept
      /\ \A x \in Jobs : \/ job'[x].status = job[x].status
                         \/ /\ job[x].status = "queued"
                            /\ job'[x].status = "running"
  <2>1. CASE job[b].status = "queued"
    <3>1. SetStatus(b, "running") /\ "running" \in Statuses
      BY <2>1 DEF Start, SetStatus, Statuses, Active
    <3> HIDE DEF b
    <3> QED BY <1>1, <2>1, <3>1, SetStatusShape
  <2>2. CASE job[b].status # "queued"
    <3>1. job' = job
      BY <2>2 DEF Start
    <3> QED BY <3>1 DEF Inv, Shape, CountsKept
  <2> QED BY <2>1, <2>2
<1>4. Shape' /\ Owners' /\ Later' /\ RowsKeepClass /\ Started'
  BY <1>2, <1>3, WorkerKeeps DEF Start
<1>5. EndsAreFound
  BY <1>2, <1>3 DEF EndsAreFound, Ending, GoesOn, Inv, Shape
<1> QED BY <1>3, <1>4, <1>5, QuietStep

LEMMA FinishDoneStep ==
    ASSUME Inv, NEW w \in Workers, FinishDone(w)
    PROVE  Inv'
<1> DEFINE b == worker[w].job
<1>1. b \in Jobs /\ Ending(b)
  BY DEF FinishDone, Inv, Shape, Ending
<1>2. GoesOn(w)
  BY ReturnGoesOn DEF FinishDone
<1>3. /\ job' \in [Jobs -> JobRecord]
      /\ CountsKept
      /\ \A x \in Jobs : x # b => job'[x].status = job[x].status
  <2>1. CASE MayFinish(job[b].status)
    <3>1. SetStatus(b, "done") /\ "done" \in Statuses
      BY <2>1 DEF FinishDone, SetStatus, Statuses, Finished
    <3> HIDE DEF b
    <3> QED BY <1>1, <3>1, SetStatusShape
  <2>2. CASE ~MayFinish(job[b].status)
    <3>1. job' = job
      BY <2>2 DEF FinishDone
    <3> QED BY <3>1 DEF Inv, Shape, CountsKept
  <2> QED BY <2>1, <2>2
<1>4. Shape' /\ Owners' /\ Later' /\ RowsKeepClass /\ Started'
  BY <1>2, <1>3, WorkerKeeps DEF FinishDone
<1>5. EndsAreFound
  BY <1>1, <1>2, <1>3 DEF EndsAreFound, Ending, GoesOn, Inv, Shape
<1> QED BY <1>3, <1>4, <1>5, QuietStep

-----------------------------------------------------------------------------
(***************************************************************************)
(* Steps that move live rows.                                              *)
(***************************************************************************)
LEMMA RowStep ==
    ASSUME Inv, target' \in [Jobs -> [Users -> Row]], Owners', Later', RowsKeepClass,
           UNCHANGED <<job, worker, caller>>
    PROVE  Inv'
<1>1. Shape'
  BY DEF Inv, Shape
<1>2. CountsKept /\ Started' /\ EndsAreFound
  BY DEF CountsKept, Started, EndsAreFound, Ending, Inv
<1> QED BY <1>1, <1>2, QuietStep

LEMMA RowChange ==
    ASSUME Inv, NEW b \in Jobs, NEW u \in Users, NEW row \in Row,
           target' = [target EXCEPT ![b][u] = row]
    PROVE  /\ target' \in [Jobs -> [Users -> Row]]
           /\ \A x \in Jobs, y \in Users :
                 target'[x][y] = IF x = b /\ y = u THEN row ELSE target[x][y]
  BY DEF Inv, Shape

LEMMA RetryFallsDueStep ==
    ASSUME Inv, NEW b \in Jobs, NEW u \in Users, RetryFallsDue(b, u)
    PROVE  Inv'
<1>1. /\ target' \in [Jobs -> [Users -> Row]]
      /\ \A x \in Jobs, y \in Users :
            /\ target'[x][y].status = target[x][y].status
            /\ target'[x][y].stale = target[x][y].stale
            /\ target'[x][y].later = TRUE => target[x][y].later = TRUE
  <2> DEFINE row == [target[b][u] EXCEPT !.later = FALSE]
  <2>1. target[b][u] \in Row
    BY DEF Inv, Shape
  <2>2. /\ row \in Row /\ row.status = target[b][u].status
        /\ row.stale = target[b][u].stale /\ row.later = FALSE
    BY <2>1 DEF Row
  <2>3. target' = [target EXCEPT ![b][u] = row]
    BY DEF RetryFallsDue
  <2> HIDE DEF row
  <2> QED BY <2>2, <2>3, RowChange
<1>2. Owners'
  BY <1>1 DEF RetryFallsDue, Inv, Owners, Holds
<1>3. Later' /\ RowsKeepClass
  BY <1>1 DEF Inv, Later, RowsKeepClass
<1> QED BY <1>1, <1>2, <1>3, RowStep DEF RetryFallsDue

LEMMA ClaimAgesStep ==
    ASSUME Prompt = TRUE, Inv, NEW b \in Jobs, NEW u \in Users, ClaimAges(b, u)
    PROVE  Inv'
<1>1. /\ target' \in [Jobs -> [Users -> Row]]
      /\ \A x \in Jobs, y \in Users :
            /\ target'[x][y].status = target[x][y].status
            /\ target'[x][y].later = target[x][y].later
            /\ ~(x = b /\ y = u) => target'[x][y].stale = target[x][y].stale
  <2> DEFINE row == [target[b][u] EXCEPT !.stale = TRUE]
  <2>1. target[b][u] \in Row
    BY DEF Inv, Shape
  <2>2. /\ row \in Row /\ row.status = target[b][u].status
        /\ row.later = target[b][u].later
    BY <2>1 DEF Row
  <2>3. target' = [target EXCEPT ![b][u] = row]
    BY DEF ClaimAges
  <2> HIDE DEF row
  <2> QED BY <2>2, <2>3, RowChange
<1>2. Owners'
  BY <1>1 DEF ClaimAges, Inv, Owners, Holds
<1>3. Later'
  BY <1>1, SMTT(40) DEF Inv, Later
<1>4. RowsKeepClass
  BY <1>1 DEF RowsKeepClass
<1> QED BY <1>1, <1>2, <1>3, <1>4, RowStep DEF ClaimAges

LEMMA ResetStaleStep ==
    ASSUME Inv, NEW w \in Workers, ResetStale(w)
    PROVE  Inv'
<1>1. /\ target' \in [Jobs -> [Users -> Row]]
      /\ \A x \in Jobs, y \in Users :
            \/ target'[x][y] = target[x][y]
            \/ /\ target[x][y].status = "sending" /\ target[x][y].stale = TRUE
               /\ target'[x][y].status = "pending"
               /\ target'[x][y].later = target[x][y].later
  <2> DEFINE Back(x, y) == [target[x][y] EXCEPT !.status = "pending", !.stale = FALSE]
  <2>1. ASSUME NEW x \in Jobs, NEW y \in Users
        PROVE  /\ target[x][y] \in Row /\ Back(x, y) \in Row
               /\ Back(x, y).status = "pending" /\ Back(x, y).later = target[x][y].later
               /\ Stale(target[x][y]) <=> /\ target[x][y].status = "sending"
                                         /\ target[x][y].stale = TRUE
    <3>1. target[x][y] \in Row
      BY DEF Inv, Shape
    <3> QED BY <3>1 DEF Row, Stale
  <2>2. target' = [x \in Jobs |-> [y \in Users |->
                     IF Stale(target[x][y]) THEN Back(x, y) ELSE target[x][y]]]
    BY DEF ResetStale
  <2> HIDE DEF Back
  <2> QED BY <2>1, <2>2
<1>2. Owners'
  <2> SUFFICES ASSUME NEW x \in Workers, NEW b \in Jobs, NEW u \in Users, Holds(x, b, u)'
               PROVE  /\ target'[b][u].status = "sending" /\ target'[b][u].stale = FALSE
                      /\ \A y \in Workers : Holds(y, b, u)' => y = x
    BY DEF Owners
  <2>1. \A y \in Workers : Holds(y, b, u)' <=> Holds(y, b, u)
    BY DEF ResetStale, Holds
  <2>2. /\ target[b][u].status = "sending" /\ target[b][u].stale = FALSE
        /\ \A y \in Workers : Holds(y, b, u) => y = x
    BY <2>1 DEF Inv, Owners
  <2> QED BY <1>1, <2>1, <2>2
<1>3. Later' /\ RowsKeepClass
  BY <1>1 DEF Inv, Later, RowsKeepClass, Live
<1> QED BY <1>1, <1>2, <1>3, RowStep DEF ResetStale

LEMMA ClaimStep ==
    ASSUME Inv, NEW w \in Workers, NEW users \in SUBSET Users, Claim(w, users)
    PROVE  Inv'
<1> DEFINE b == worker[w].job
           Claimed(u) == [target[b][u] EXCEPT !.status = "sending", !.stale = FALSE]
           batch == [u \in Users |-> IF u \in users THEN "todo" ELSE "none"]
           tries == [u \in Users |-> IF u \in users THEN target[b][u].attempts ELSE 0]
<1>1. /\ b \in Jobs /\ worker[w] \in WorkerRow /\ worker[w].pc = "claim"
      /\ \A u \in Users : target[b][u] \in Row
  BY DEF Claim, Inv, Shape
<1>2. \A u \in users : target[b][u].status = "pending" /\ target[b][u].later = FALSE
  <2>1. \A u \in users : u \in Users /\ Due(target[b][u])
    BY DEF Claim
  <2> QED BY <1>1, <2>1 DEF Due, Row
<1>3. \A u \in Users : /\ Claimed(u) \in Row
                       /\ Claimed(u).status = "sending" /\ Claimed(u).stale = FALSE
                       /\ Claimed(u).later = target[b][u].later
  BY <1>1 DEF Row
<1>4. /\ target' \in [Jobs -> [Users -> Row]]
      /\ \A u \in users : target'[b][u] = Claimed(u)
      /\ \A x \in Jobs, u \in Users :
            ~(x = b /\ u \in users) => target'[x][u] = target[x][u]
  <2>1. target' = [target EXCEPT ![b] = [u \in Users |->
                     IF u \in users THEN Claimed(u) ELSE target[b][u]]]
    BY DEF Claim
  <2>2. target \in [Jobs -> [Users -> Row]]
    BY DEF Inv, Shape
  <2> HIDE DEF b, Claimed
  <2> QED BY <1>1, <1>3, <2>1, <2>2
<1>5. /\ worker' \in [Workers -> WorkerRow]
      /\ worker'[w].pc = "send" /\ worker'[w].job = b /\ worker'[w].batch = batch
      /\ \A x \in Workers : x # w => worker'[x] = worker[x]
  <2>1. /\ batch \in [Users -> {"none", "todo"} \cup AllOutcomes]
        /\ tries \in [Users -> Nat]
    <3>1. \A u \in Users : target[b][u].attempts \in Nat
      BY <1>1 DEF Row
    <3> QED BY <3>1
  <2>2. worker' = [worker EXCEPT ![w] = [worker[w] EXCEPT !.pc = "send", !.batch = batch,
                                                          !.tries = tries]]
    BY DEF Claim, Inv, Shape
  <2>3. worker \in [Workers -> WorkerRow]
    BY DEF Inv, Shape
  <2> HIDE DEF batch, tries
  <2>4. [worker[w] EXCEPT !.pc = "send", !.batch = batch, !.tries = tries] \in WorkerRow
    BY <1>1, <2>1 DEF WorkerRow
  <2>5. /\ worker'[w] = [worker[w] EXCEPT !.pc = "send", !.batch = batch, !.tries = tries]
        /\ \A x \in Workers : x # w => worker'[x] = worker[x]
    BY <2>2, <2>3
  <2> HIDE DEF b
  <2> QED BY <1>1, <2>2, <2>3, <2>4, <2>5 DEF WorkerRow, b
<1>6. job' = job /\ caller' = caller
  BY DEF Claim
<1> HIDE DEF Claimed
<1>7. Shape'
  <2>1. \A x \in Workers :
           /\ worker'[x].pc # "poll" => worker'[x].job \in Jobs
           /\ worker'[x].pc \notin {"send", "write"} => worker'[x].batch = NoBatch
    BY <1>1, <1>5 DEF Inv, Shape
  <2> QED BY <1>4, <1>5, <1>6, <2>1 DEF Inv, Shape
<1>8. Later'
  BY <1>2, <1>3, <1>4 DEF Inv, Later
<1>9. RowsKeepClass
  BY <1>2, <1>3, <1>4 DEF RowsKeepClass, Live
<1>10. Owners'
  <2> SUFFICES ASSUME NEW x \in Workers, NEW y \in Jobs, NEW u \in Users, Holds(x, y, u)'
               PROVE  /\ target'[y][u].status = "sending" /\ target'[y][u].stale = FALSE
                      /\ \A v \in Workers : Holds(v, y, u)' => v = x
    BY DEF Owners
  <2>1. \A v \in Workers : Holds(v, y, u)' /\ v # w => Holds(v, y, u)
    BY <1>5 DEF Holds
  <2>2. Holds(w, y, u)' => y = b /\ u \in users
    BY <1>5 DEF Holds
  <2>3. \A v \in Workers : Holds(v, y, u) =>
           /\ target[y][u].status = "sending" /\ target[y][u].stale = FALSE
           /\ \A z \in Workers : Holds(z, y, u) => z = v
    BY DEF Inv, Owners
  <2> HIDE DEF b
  <2>4. CASE x = w
    BY <1>2, <1>3, <1>4, <2>1, <2>2, <2>3, <2>4
  <2>5. CASE x # w
    BY <1>2, <1>3, <1>4, <2>1, <2>2, <2>3, <2>5
  <2> QED BY <2>4, <2>5
<1>11. Started'
  BY <1>1, <1>5, <1>6 DEF Inv, Started
<1>12. CountsKept /\ EndsAreFound
  BY <1>5, <1>6 DEF CountsKept, EndsAreFound, Ending
<1> QED BY <1>7, <1>8, <1>9, <1>10, <1>11, <1>12, QuietStep

-----------------------------------------------------------------------------
(***************************************************************************)
(* Steps that add recipients.                                              *)
(***************************************************************************)
\* The job's rows, and pending ones for those of the audience that had none.
Added(b, audience) ==
  /\ target' \in [Jobs -> [Users -> Row]]
  /\ \A x \in Jobs, u \in Users :
        \/ target'[x][u] = target[x][u]
        \/ /\ x = b /\ u \in audience /\ target[x][u].status = "none"
           /\ target'[x][u].status = "pending" /\ target'[x][u].later = FALSE
  /\ \A u \in audience : target'[b][u].status # "none"

LEMMA AddedRows ==
    ASSUME Inv, NEW b \in Jobs, NEW audience \in Audiences,
           target' = Materialized(b, audience)
    PROVE  audience \subseteq Users /\ Added(b, audience)
<1>1. audience \subseteq Users
  BY BroadcastsAssumption
<1> DEFINE fresh == [NoTarget EXCEPT !.status = "pending"]
<1>2. fresh \in Row /\ fresh.status = "pending" /\ fresh.later = FALSE
  BY DEF NoTarget, Row
<1>3. target' = [target EXCEPT ![b] = [u \in Users |->
                   IF u \in audience /\ target[b][u].status = "none"
                   THEN fresh ELSE target[b][u]]]
  BY DEF Materialized
<1>4. target \in [Jobs -> [Users -> Row]]
  BY DEF Inv, Shape
<1> HIDE DEF fresh
<1>5. /\ target' \in [Jobs -> [Users -> Row]]
      /\ \A x \in Jobs, u \in Users : target'[x][u] =
            IF x = b /\ u \in audience /\ target[b][u].status = "none"
            THEN fresh ELSE target[x][u]
  BY <1>2, <1>3, <1>4
<1> QED BY <1>1, <1>2, <1>5 DEF Added

\* Rows with a result are not touched, and no row is lost.
LEMMA MoreRows ==
    ASSUME Inv, NEW b \in Jobs, NEW audience \in Audiences,
           target' = Materialized(b, audience), NEW x \in Jobs
    PROVE  /\ Rows(x, {"sent"})' = Rows(x, {"sent"})
           /\ Rows(x, {"failed"})' = Rows(x, {"failed"})
           /\ Rows(x, {"blocked"})' = Rows(x, {"blocked"})
           /\ All(x) \subseteq All(x)' /\ All(x)' \subseteq Users
           /\ All(b)' = All(b) \cup audience
           /\ x # b => All(x)' = All(x)
           /\ All(x)' = All(x) =>
                Rows(x, {"pending", "sending"})' = Rows(x, {"pending", "sending"})
<1>1. audience \subseteq Users /\ Added(b, audience)
  BY AddedRows
<1> USE <1>1 DEF Added
<1>2. \A y \in Jobs, u \in Users :
         /\ u \in All(y) <=> target[y][u].status # "none"
         /\ u \in All(y)' <=> target'[y][u].status # "none"
  <2>1. target \in [Jobs -> [Users -> Row]]
    BY DEF Inv, Shape
  <2> QED BY <2>1 DEF All, Rows, Final, Row
<1>3. /\ Rows(x, {"sent"})' = Rows(x, {"sent"})
      /\ Rows(x, {"failed"})' = Rows(x, {"failed"})
      /\ Rows(x, {"blocked"})' = Rows(x, {"blocked"})
  BY <1>1 DEF Rows
<1>4. /\ All(x) \subseteq Users /\ All(x)' \subseteq Users
      /\ All(b) \subseteq Users /\ All(b)' \subseteq Users
  BY DEF All, Rows
<1>5. All(x) \subseteq All(x)' /\ (x # b => All(x)' = All(x))
  <2>1. \A u \in Users : u \in All(x) => u \in All(x)'
    BY <1>2
  <2>2. ASSUME x # b PROVE All(x)' = All(x)
    <3>1. \A u \in Users : target'[x][u] = target[x][u]
      BY <2>2
    <3> QED BY <3>1 DEF All, Rows
  <2> QED BY <1>4, <2>1, <2>2
<1>6. All(b)' = All(b) \cup audience
  <2>1. \A u \in Users : u \in All(b)' <=> u \in All(b) \cup audience
    BY <1>2
  <2> QED BY <1>4, <2>1
<1>7. ASSUME All(x)' = All(x)
      PROVE  Rows(x, {"pending", "sending"})' = Rows(x, {"pending", "sending"})
  <2>1. \A u \in Users : target'[x][u] = target[x][u]
    BY <1>1, <1>2, <1>7
  <2> QED BY <2>1 DEF Rows
<1> QED BY <1>3, <1>4, <1>5, <1>6, <1>7

\* A second queue request adds recipients to a job that counts the first ones:
\* the job is then no longer whole, and where it is whole nothing was added.
LEMMA QueueStep ==
    ASSUME Inv, NEW b \in Jobs, NEW audience \in Audiences,
           target' = Materialized(b, audience), worker' = worker,
           caller' \in [Callers -> Jobs \cup {NoJob}],
           \/ /\ job[b].status = "draft"
              /\ job' = [job EXCEPT ![b].status = "queued",
                                    ![b].total = Cardinality(All(b) \cup audience)]
           \/ job' = job
    PROVE  Inv'
<1>1. audience \subseteq Users /\ Added(b, audience)
  BY AddedRows
<1>2. \A x \in Jobs :
         /\ Cardinality(All(x)') \in Nat /\ Cardinality(All(x)) \in Nat
         /\ Cardinality(All(x)) <= Cardinality(All(x)')
         /\ Cardinality(All(x)) = Cardinality(All(x)') => All(x)' = All(x)
  BY MoreRows, FewerRecipients, RecipientsAreFinite
<1>3. \A x \in Jobs :
         /\ job'[x].sent = job[x].sent /\ job'[x].failed = job[x].failed
         /\ job'[x].blocked = job[x].blocked /\ job'[x].contentFailed = job[x].contentFailed
         /\ \/ job'[x] = job[x]
            \/ /\ x = b /\ job[x].status = "draft" /\ job'[x].status = "queued"
               /\ job'[x].total = Cardinality(All(x)')
         /\ job'[x] \in JobRecord
  <2>1. job \in [Jobs -> JobRecord] /\ job[b] \in JobRecord
    BY DEF Inv, Shape
  <2>2. CASE job' = job
    BY <2>1, <2>2
  <2>3. CASE /\ job[b].status = "draft"
             /\ job' = [job EXCEPT ![b].status = "queued",
                                   ![b].total = Cardinality(All(b) \cup audience)]
    <3> DEFINE total == Cardinality(All(b) \cup audience)
    <3>1. total \in Nat /\ total = Cardinality(All(b)')
      BY <1>2, MoreRows
    <3>2. job' = [job EXCEPT ![b] = [job[b] EXCEPT !.status = "queued", !.total = total]]
      BY <2>1, <2>3
    <3>3. "queued" \in Statuses
      BY DEF Statuses, Active
    <3> DEFINE j == [job[b] EXCEPT !.status = "queued", !.total = total]
    <3> HIDE DEF total
    <3>4. /\ j \in JobRecord /\ j.status = "queued" /\ j.total = total
          /\ j.sent = job[b].sent /\ j.failed = job[b].failed
          /\ j.blocked = job[b].blocked /\ j.contentFailed = job[b].contentFailed
      BY <2>1, <3>1, <3>3 DEF JobRecord
    <3> HIDE DEF j
    <3>5. \A x \in Jobs : job'[x] = IF x = b THEN j ELSE job[x]
      BY <2>1, <3>2 DEF j
    <3> QED BY <2>1, <2>3, <3>1, <3>4, <3>5
  <2> QED BY <2>2, <2>3
<1>4. Shape'
  <2>1. job' \in [Jobs -> JobRecord]
    <3>1. job' = [x \in Jobs |-> job'[x]]
      BY DEF Inv, Shape
    <3> QED BY <1>3, <3>1
  <2> QED BY <1>1, <2>1 DEF Inv, Shape, Added
<1>5. Owners'
  <2>1. \A x \in Workers, y \in Jobs, u \in Users : Holds(x, y, u)' <=> Holds(x, y, u)
    BY DEF Holds
  <2>2. \A y \in Jobs, u \in Users :
           target[y][u].status = "sending" => target'[y][u] = target[y][u]
    BY <1>1 DEF Added
  <2> QED BY <2>1, <2>2 DEF Inv, Owners
<1>6. Later'
  BY <1>1 DEF Inv, Later, Added
<1>7. Counters'
  <2> SUFFICES ASSUME NEW x \in Jobs
               PROVE /\ job'[x].sent = Cardinality(Rows(x, {"sent"})')
                     /\ job'[x].failed = Cardinality(Rows(x, {"failed"})')
                     /\ job'[x].blocked = Cardinality(Rows(x, {"blocked"})')
                     /\ job'[x].contentFailed <= job'[x].failed
    BY DEF Counters
  <2> QED BY <1>3, MoreRows DEF Inv, Counters
<1>8. Started'
  BY <1>3 DEF Inv, Started, Shape
<1>9. Ends'
  <2> SUFFICES ASSUME NEW x \in Jobs
               PROVE /\ job'[x].total <= Cardinality(All(x)')
                     /\ Whole(x)' /\ Ending(x)' => NoneLeft(x)'
    BY DEF Ends
  <2>1. job[x].total <= Cardinality(All(x)) /\ (Whole(x) /\ Ending(x) => NoneLeft(x))
        /\ job[x].total \in Nat
    BY DEF Inv, Ends, Shape, JobRecord
  <2>2. CASE job'[x] = job[x]
    <3>1. job'[x].total <= Cardinality(All(x)')
      BY <1>2, <2>1, <2>2
    <3>2. ASSUME Whole(x)', Ending(x)' PROVE NoneLeft(x)'
      <4>1. Cardinality(All(x)') = job[x].total
        BY <2>2, <3>2 DEF Whole, All
      <4>2. All(x)' = All(x) /\ Whole(x)
        BY <1>2, <2>1, <4>1 DEF Whole, All
      <4>3. Ending(x)
        BY <2>2, <3>2 DEF Ending
      <4> QED BY <2>1, <4>2, <4>3, MoreRows DEF NoneLeft
    <3> QED BY <3>1, <3>2
  <2>3. CASE /\ job[x].status = "draft" /\ job'[x].status = "queued"
             /\ job'[x].total = Cardinality(All(x)')
    <3>1. ~Ending(x)'
      BY <2>3 DEF Ending, Inv, Started
    <3> QED BY <1>2, <2>3, <3>1
  <2> QED BY <1>3, <2>2, <2>3
<1> QED BY <1>4, <1>5, <1>6, <1>7, <1>8, <1>9 DEF Inv

LEMMA QueueDraftStep ==
    ASSUME Inv, NEW b \in Jobs, NEW audience \in Audiences, QueueDraft(b, audience)
    PROVE  Inv'
<1>1. caller' \in [Callers -> Jobs \cup {NoJob}]
  BY DEF QueueDraft, Inv, Shape
<1> QED BY <1>1, QueueStep DEF QueueDraft, Total, All

LEMMA QueueReadStep ==
    ASSUME Inv, NEW c \in Callers, NEW audience \in Audiences, QueueRead(c, audience)
    PROVE  Inv'
<1> DEFINE b == caller[c]
<1>1. b \in Jobs /\ caller' \in [Callers -> Jobs \cup {NoJob}]
  BY DEF QueueRead, Inv, Shape
<1>2. /\ target' = Materialized(b, audience) /\ worker' = worker
      /\ \/ /\ job[b].status = "draft"
            /\ job' = [job EXCEPT ![b].status = "queued",
                                  ![b].total = Cardinality(All(b) \cup audience)]
         \/ job' = job
  BY DEF QueueRead, Total, All
<1> HIDE DEF b
<1> QED BY <1>1, <1>2, QueueStep

-----------------------------------------------------------------------------
(***************************************************************************)
(* The step that writes a batch's results.                                 *)
(***************************************************************************)
With(w, status) == {u \in Results(w) : Planned(w, u) = status}

\* What _write_results does to the rows: those of the batch get their results
\* or go back, the others stay.
Written(w) ==
  /\ worker[w].job \in Jobs
  /\ target' \in [Jobs -> [Users -> Row]]
  /\ \A b \in Jobs, u \in Users : ~Holds(w, b, u) => target'[b][u] = target[b][u]
  /\ \A b \in Jobs, u \in Users : Holds(w, b, u) =>
        /\ b = worker[w].job
        /\ u \in Results(w) =>
              /\ target'[b][u].status = Planned(w, u)
              /\ Planned(w, u) \in Final \cup {"pending"}
        /\ u \notin Results(w) => target'[b][u].status = "pending"
        /\ target'[b][u].later = TRUE => target'[b][u].status = "pending"
  /\ \A u \in Results(w) : Holds(w, worker[w].job, u)

LEMMA WrittenRows ==
    ASSUME Inv, NEW w \in Workers, WriteResults(w)
    PROVE  Written(w)
<1> DEFINE b == worker[w].job
           After(u) == [status |-> Planned(w, u), attempts |-> worker[w].tries[u] + 1,
                        later |-> Planned(w, u) = "pending", stale |-> FALSE]
           Back(u) == [target[b][u] EXCEPT !.status = "pending", !.stale = FALSE]
<1>1. /\ b \in Jobs /\ worker[w] \in WorkerRow
      /\ \A u \in Users : target[b][u] \in Row
  BY DEF WriteResults, Inv, Shape
<1>2. /\ Results(w) \subseteq Users /\ Todo(w) \subseteq Users
      /\ \A u \in Users : Holds(w, b, u) <=> u \in Results(w) \cup Todo(w)
      /\ Results(w) \cap Todo(w) = {}
  BY DEF Results, Todo, Holds
<1>3. \A u \in Users : Holds(w, b, u) => target[b][u].status = "sending"
  BY <1>1 DEF Inv, Owners
<1>4. \A u \in Users : Planned(w, u) \in Final \cup {"pending"}
  BY DEF Planned, Plan, Final
<1>5. ASSUME NEW u \in Users
      PROVE  /\ After(u) \in Row /\ After(u).status = Planned(w, u)
             /\ After(u).later = TRUE => After(u).status = "pending"
  <2>1. worker[w].tries[u] + 1 \in Nat
    BY <1>1 DEF WorkerRow
  <2>2. (Planned(w, u) = "pending") \in BOOLEAN
    OBVIOUS
  <2> QED BY <1>4, <2>1, <2>2 DEF Row
<1>6. ASSUME NEW u \in Users
      PROVE  Back(u) \in Row /\ Back(u).status = "pending"
  BY <1>1 DEF Row
<1>7. target' = [target EXCEPT ![b] = [u \in Users |->
                   IF u \in Results(w) THEN After(u)
                   ELSE IF u \in Todo(w) /\ target[b][u].status = "sending"
                   THEN Back(u) ELSE target[b][u]]]
  BY DEF WriteResults, RowAfter
<1>8. target \in [Jobs -> [Users -> Row]]
  BY DEF Inv, Shape
<1>9. \A x \in Jobs, u \in Users : Holds(w, x, u) => x = b
  BY DEF Holds
<1> HIDE DEF b, After, Back
<1>10. /\ \A x \in Jobs, u \in Users : target'[x][u] =
              IF x = b /\ u \in Results(w) THEN After(u)
              ELSE IF x = b /\ u \in Todo(w) THEN Back(u) ELSE target[x][u]
       /\ target' \in [Jobs -> [Users -> Row]]
  BY <1>1, <1>2, <1>3, <1>5, <1>6, <1>7, <1>8
<1>11. \A x \in Jobs, u \in Users : ~Holds(w, x, u) => target'[x][u] = target[x][u]
  BY <1>2, <1>10
<1>12. \A x \in Jobs, u \in Users : Holds(w, x, u) =>
          /\ x = b
          /\ u \in Results(w) =>
                /\ target'[x][u].status = Planned(w, u)
                /\ Planned(w, u) \in Final \cup {"pending"}
          /\ u \notin Results(w) => target'[x][u].status = "pending"
          /\ target'[x][u].later = TRUE => target'[x][u].status = "pending"
  <2> SUFFICES ASSUME NEW x \in Jobs, NEW u \in Users, Holds(w, x, u)
               PROVE  /\ x = b
                      /\ u \in Results(w) =>
                            /\ target'[x][u].status = Planned(w, u)
                            /\ Planned(w, u) \in Final \cup {"pending"}
                      /\ u \notin Results(w) => target'[x][u].status = "pending"
                      /\ target'[x][u].later = TRUE => target'[x][u].status = "pending"
    OBVIOUS
  <2>1. x = b /\ u \in Results(w) \cup Todo(w)
    BY <1>2, <1>9
  <2>2. CASE u \in Results(w)
    <3>1. target'[x][u] = After(u)
      BY <1>10, <2>1, <2>2
    <3> QED BY <1>4, <1>5, <2>1, <2>2, <3>1
  <2>3. CASE u \notin Results(w)
    <3>1. target'[x][u] = Back(u)
      BY <1>10, <2>1, <2>3
    <3> QED BY <1>6, <2>1, <2>3, <3>1
  <2> QED BY <2>2, <2>3
<1> QED BY <1>1, <1>2, <1>10, <1>11, <1>12 DEF b, Written

\* The rows with a result are those there were and those of the batch.
LEMMA CountedRows ==
    ASSUME Inv, NEW w \in Workers, WriteResults(w), NEW status \in Final,
           NEW b \in Jobs, b = worker[w].job
    PROVE  /\ With(w, status) \subseteq Users
           /\ Rows(b, {status})' = Rows(b, {status}) \cup With(w, status)
           /\ Rows(b, {status}) \cap With(w, status) = {}
<1>1. /\ \A u \in Users : ~Holds(w, b, u) => target'[b][u] = target[b][u]
      /\ \A u \in Users : Holds(w, b, u) =>
            /\ u \in Results(w) => target'[b][u].status = Planned(w, u)
            /\ u \notin Results(w) => target'[b][u].status = "pending"
      /\ \A u \in Results(w) : Holds(w, b, u)
  <2>1. Written(w)
    BY WrittenRows
  <2>2. \A u \in Users : ~Holds(w, b, u) => target'[b][u] = target[b][u]
    BY <2>1 DEF Written
  <2>3. ASSUME NEW u \in Users, Holds(w, b, u)
        PROVE  /\ u \in Results(w) => target'[b][u].status = Planned(w, u)
               /\ u \notin Results(w) => target'[b][u].status = "pending"
    BY <2>1, <2>3 DEF Written
  <2>4. \A u \in Results(w) : Holds(w, b, u)
    BY <2>1 DEF Written
  <2> QED BY <2>2, <2>3, <2>4
<1>2. \A u \in Users : Holds(w, b, u) => target[b][u].status = "sending"
  BY <1>1 DEF Inv, Owners
<1>3. With(w, status) \subseteq Users /\ With(w, status) \subseteq Results(w)
      /\ Results(w) \subseteq Users
      /\ \A u \in Results(w) : u \in With(w, status) <=> Planned(w, u) = status
  BY DEF With, Results
<1>4. status # "sending" /\ status # "pending"
  BY DEF Final
<1>5. Rows(b, {status}) = {u \in Users : target[b][u].status = status}
      /\ Rows(b, {status})' = {u \in Users : target'[b][u].status = status}
  BY DEF Rows
<1>6. Rows(b, {status}) \cap With(w, status) = {}
  BY <1>1, <1>2, <1>3, <1>4, <1>5
<1>7. \A u \in Users : target'[b][u].status = status
                         <=> target[b][u].status = status \/ u \in With(w, status)
  BY <1>1, <1>2, <1>3, <1>4
<1> QED BY <1>3, <1>5, <1>6, <1>7

\* Live rows stay live or have a result, and the others stay what they are.
LEMMA LiveRows ==
    ASSUME Inv, NEW w \in Workers, WriteResults(w), NEW b \in Jobs
    PROVE  /\ All(b)' = All(b)
           /\ Rows(b, {"pending", "sending"})' \subseteq Rows(b, {"pending", "sending"})
           /\ b # worker[w].job => \A u \in Users : target'[b][u] = target[b][u]
<1>1. /\ \A u \in Users : ~Holds(w, b, u) => target'[b][u] = target[b][u]
      /\ \A u \in Users : Holds(w, b, u) =>
            /\ b = worker[w].job
            /\ target'[b][u].status \in Final \cup {"pending"}
  <2>1. Written(w)
    BY WrittenRows
  <2>2. \A u \in Users : ~Holds(w, b, u) => target'[b][u] = target[b][u]
    BY <2>1 DEF Written
  <2>3. ASSUME NEW u \in Users, Holds(w, b, u)
        PROVE  b = worker[w].job /\ target'[b][u].status \in Final \cup {"pending"}
    BY <2>1, <2>3 DEF Written
  <2> QED BY <2>2, <2>3
<1>2. \A u \in Users : Holds(w, b, u) => target[b][u].status = "sending"
  BY DEF Inv, Owners
<1>3. \A u \in Users :
         /\ target'[b][u].status \in Final \cup {"pending", "sending"}
              <=> target[b][u].status \in Final \cup {"pending", "sending"}
         /\ target'[b][u].status \in {"pending", "sending"}
              => target[b][u].status \in {"pending", "sending"}
  BY <1>1, <1>2
<1>4. All(b)' = All(b)
      /\ Rows(b, {"pending", "sending"})' \subseteq Rows(b, {"pending", "sending"})
  BY <1>3 DEF All, Rows
<1> QED BY <1>1, <1>4

\* The counters grow by the rows that got their results, and the job may fail.
LEMMA CountedJob ==
    ASSUME Inv, NEW w \in Workers, WriteResults(w)
    PROVE  /\ job' \in [Jobs -> JobRecord]
           /\ \A x \in Jobs : x # worker[w].job => job'[x] = job[x]
           /\ LET j == job[worker[w].job]
                  k == job'[worker[w].job]
              IN /\ k.sent = j.sent + Cardinality(With(w, "sent"))
                 /\ k.failed = j.failed + Cardinality(With(w, "failed"))
                 /\ k.blocked = j.blocked + Cardinality(With(w, "blocked"))
                 /\ k.contentFailed <= k.failed
                 /\ k.total = j.total
                 /\ k.status \in {j.status, "failed"}
<1> DEFINE b == worker[w].job
           j == job[b]
           counted == Counted(w, j)
           content == {u \in Results(w) : /\ Planned(w, u) = "failed"
                                          /\ worker[w].batch[u] = "content"}
<1>1. b \in Jobs /\ job \in [Jobs -> JobRecord] /\ j \in JobRecord
      /\ j.contentFailed <= j.failed
  BY WrittenRows DEF Written, Inv, Shape, Counters
<1>2. /\ With(w, "sent") \subseteq Users /\ With(w, "failed") \subseteq Users
      /\ With(w, "blocked") \subseteq Users /\ content \subseteq With(w, "failed")
  BY DEF With, Results
<1>3. /\ Cardinality(With(w, "sent")) \in Nat /\ Cardinality(With(w, "failed")) \in Nat
      /\ Cardinality(With(w, "blocked")) \in Nat /\ Cardinality(content) \in Nat
      /\ Cardinality(content) <= Cardinality(With(w, "failed"))
  <2> HIDE DEF content
  <2> QED BY <1>2, RecipientsAreFinite, FewerRecipients
<1>4. counted = [j EXCEPT !.sent = @ + Cardinality(With(w, "sent")),
                          !.failed = @ + Cardinality(With(w, "failed")),
                          !.blocked = @ + Cardinality(With(w, "blocked")),
                          !.contentFailed = @ + Cardinality(content)]
  BY DEF Counted, Tally, ContentFailures, With
<1> HIDE DEF content
<1>5. /\ counted \in JobRecord /\ counted.status = j.status /\ counted.total = j.total
      /\ counted.sent = j.sent + Cardinality(With(w, "sent"))
      /\ counted.failed = j.failed + Cardinality(With(w, "failed"))
      /\ counted.blocked = j.blocked + Cardinality(With(w, "blocked"))
      /\ counted.contentFailed = j.contentFailed + Cardinality(content)
  <2> HIDE DEF j, counted
  <2>1. /\ j.sent + Cardinality(With(w, "sent")) \in Nat
        /\ j.failed + Cardinality(With(w, "failed")) \in Nat
        /\ j.blocked + Cardinality(With(w, "blocked")) \in Nat
        /\ j.contentFailed + Cardinality(content) \in Nat
    BY <1>1, <1>3 DEF JobRecord
  <2>2. counted = [status |-> j.status, total |-> j.total,
                   sent |-> j.sent + Cardinality(With(w, "sent")),
                   failed |-> j.failed + Cardinality(With(w, "failed")),
                   blocked |-> j.blocked + Cardinality(With(w, "blocked")),
                   contentFailed |-> j.contentFailed + Cardinality(content)]
    BY <1>1, <1>4 DEF JobRecord
  <2>3. j.status \in Statuses /\ j.total \in Nat
    BY <1>1 DEF JobRecord
  <2> QED BY <2>1, <2>2, <2>3 DEF JobRecord
<1>6. counted.contentFailed <= counted.failed
  <2> HIDE DEF counted
  <2>1. j.contentFailed \in Nat /\ j.failed \in Nat
    BY <1>1 DEF JobRecord
  <2> HIDE DEF j
  <2> QED BY <1>1, <1>3, <1>5, <2>1
<1>7. PICK k \in {counted, [counted EXCEPT !.status = "failed"]} :
         job' = [job EXCEPT ![b] = k]
  BY DEF WriteResults
<1>8. /\ k \in JobRecord /\ k.status \in {j.status, "failed"}
      /\ k.total = counted.total /\ k.sent = counted.sent /\ k.failed = counted.failed
      /\ k.blocked = counted.blocked /\ k.contentFailed = counted.contentFailed
  <2> HIDE DEF counted, j
  <2>1. "failed" \in Statuses
    BY DEF Statuses, Finished
  <2> QED BY <1>5, <2>1 DEF JobRecord
<1> HIDE DEF counted
<1>9. /\ job' \in [Jobs -> JobRecord] /\ job'[b] = k
      /\ \A x \in Jobs : x # b => job'[x] = job[x]
  BY <1>1, <1>7, <1>8
<1> QED BY <1>5, <1>6, <1>8, <1>9

LEMMA WriteResultsStep ==
    ASSUME Inv, NEW w \in Workers, WriteResults(w)
    PROVE  Inv'
<1> DEFINE b == worker[w].job
           k == [AtPoll EXCEPT !.pc = "load", !.job = b]
<1>1. /\ b \in Jobs /\ target' \in [Jobs -> [Users -> Row]]
      /\ \A x \in Jobs, u \in Users : ~Holds(w, x, u) => target'[x][u] = target[x][u]
      /\ \A x \in Jobs, u \in Users :
            Holds(w, x, u) /\ target'[x][u].later = TRUE => target'[x][u].status = "pending"
  BY WrittenRows DEF Written
<1>2. /\ job' \in [Jobs -> JobRecord]
      /\ \A x \in Jobs : x # b => job'[x] = job[x]
      /\ job'[b].sent = job[b].sent + Cardinality(With(w, "sent"))
      /\ job'[b].failed = job[b].failed + Cardinality(With(w, "failed"))
      /\ job'[b].blocked = job[b].blocked + Cardinality(With(w, "blocked"))
      /\ job'[b].contentFailed <= job'[b].failed
      /\ job'[b].total = job[b].total
      /\ job'[b].status \in {job[b].status, "failed"}
  BY CountedJob
<1>3. /\ worker' = [worker EXCEPT ![w] = k] /\ caller' = caller
      /\ worker \in [Workers -> WorkerRow]
  BY DEF WriteResults, Inv, Shape
<1>4. k \in WorkerRow /\ k.pc = "load" /\ k.job = b /\ k.batch = NoBatch
  BY <1>1 DEF AtPoll, WorkerRow, NoBatch
<1> HIDE DEF b, k
<1>5. /\ worker' \in [Workers -> WorkerRow]
      /\ worker'[w] = k
      /\ \A x \in Workers : x # w => worker'[x] = worker[x]
  BY <1>3, <1>4
<1>6. Shape'
  <2>1. \A x \in Workers :
           /\ worker'[x].pc # "poll" => worker'[x].job \in Jobs
           /\ worker'[x].pc \notin {"send", "write"} => worker'[x].batch = NoBatch
    BY <1>1, <1>4, <1>5 DEF Inv, Shape
  <2> QED BY <1>1, <1>2, <1>3, <1>5, <2>1 DEF Inv, Shape
<1>7. \A x \in Workers, y \in Jobs, u \in Users :
         Holds(x, y, u)' => x # w /\ Holds(x, y, u)
  <2>1. \A u \in Users : NoBatch[u] = "none"
    BY DEF NoBatch
  <2> QED BY <1>4, <1>5, <2>1 DEF Holds
<1>8. Owners'
  <2> SUFFICES ASSUME NEW x \in Workers, NEW y \in Jobs, NEW u \in Users, Holds(x, y, u)'
               PROVE  /\ target'[y][u].status = "sending" /\ target'[y][u].stale = FALSE
                      /\ \A v \in Workers : Holds(v, y, u)' => v = x
    BY DEF Owners
  <2>1. x # w /\ Holds(x, y, u) /\ \A v \in Workers : Holds(v, y, u)' => Holds(v, y, u)
    BY <1>7
  <2>2. /\ target[y][u].status = "sending" /\ target[y][u].stale = FALSE
        /\ \A v \in Workers : Holds(v, y, u) => v = x
    BY <2>1 DEF Inv, Owners
  <2>3. ~Holds(w, y, u)
    BY <2>1, <2>2
  <2> QED BY <1>1, <2>1, <2>2, <2>3
<1>9. Later'
  BY <1>1 DEF Inv, Later
<1>10. Counters'
  <2> SUFFICES ASSUME NEW x \in Jobs
               PROVE /\ job'[x].sent = Cardinality(Rows(x, {"sent"})')
                     /\ job'[x].failed = Cardinality(Rows(x, {"failed"})')
                     /\ job'[x].blocked = Cardinality(Rows(x, {"blocked"})')
                     /\ job'[x].contentFailed <= job'[x].failed
    BY DEF Counters
  <2>1. CASE x = b
    <3>1. ASSUME NEW status \in Final
          PROVE  Cardinality(Rows(x, {status})') =
                   Cardinality(Rows(x, {status})) + Cardinality(With(w, status))
      <4>1. /\ With(w, status) \subseteq Users
            /\ Rows(x, {status})' = Rows(x, {status}) \cup With(w, status)
            /\ Rows(x, {status}) \cap With(w, status) = {}
        BY <2>1, CountedRows DEF b
      <4>2. Rows(x, {status}) \subseteq Users
        BY DEF Rows
      <4> QED BY <4>1, <4>2, DisjointRecipients
    <3>2. "sent" \in Final /\ "failed" \in Final /\ "blocked" \in Final
      BY DEF Final
    <3>3. /\ job[x].sent = Cardinality(Rows(x, {"sent"}))
          /\ job[x].failed = Cardinality(Rows(x, {"failed"}))
          /\ job[x].blocked = Cardinality(Rows(x, {"blocked"}))
      BY DEF Inv, Counters
    <3> QED BY <1>2, <2>1, <3>1, <3>2, <3>3
  <2>2. CASE x # b
    <3>1. \A u \in Users : target'[x][u] = target[x][u]
      BY <2>2, LiveRows DEF b
    <3>2. /\ Rows(x, {"sent"})' = Rows(x, {"sent"})
          /\ Rows(x, {"failed"})' = Rows(x, {"failed"})
          /\ Rows(x, {"blocked"})' = Rows(x, {"blocked"})
      BY <3>1 DEF Rows
    <3> QED BY <1>2, <2>2, <3>2 DEF Inv, Counters
  <2> QED BY <2>1, <2>2
<1>11. \A x \in Jobs : /\ job'[x].total = job[x].total
                      /\ job'[x].status \in {job[x].status, "failed"}
  BY <1>2
<1>12. Started'
  BY <1>1, <1>4, <1>5, <1>11 DEF Inv, Shape, Started, WriteResults, b
<1>13. \A x \in Jobs : Ending(x)' => Ending(x)
  BY <1>4, <1>5, <1>11 DEF Ending
<1>14. Ends'
  <2> SUFFICES ASSUME NEW x \in Jobs
               PROVE /\ job'[x].total <= Cardinality(All(x)')
                     /\ Whole(x)' /\ Ending(x)' => NoneLeft(x)'
    BY DEF Ends
  <2>1. All(x)' = All(x)
        /\ Rows(x, {"pending", "sending"})' \subseteq Rows(x, {"pending", "sending"})
    BY LiveRows
  <2>2. job[x].total <= Cardinality(All(x)) /\ (Whole(x) /\ Ending(x) => NoneLeft(x))
    BY DEF Inv, Ends
  <2>3. (Whole(x)' => Whole(x)) /\ (NoneLeft(x) => NoneLeft(x)')
    BY <1>11, <2>1 DEF Whole, All, NoneLeft
  <2> QED BY <1>11, <1>13, <2>1, <2>2, <2>3
<1> QED BY <1>6, <1>8, <1>9, <1>10, <1>12, <1>14 DEF Inv

-----------------------------------------------------------------------------
(***************************************************************************)
(* The invariant.                                                          *)
(***************************************************************************)
LEMMA InitInv == Init => Inv
<1> SUFFICES ASSUME Init PROVE Inv
  OBVIOUS
<1>1. NewJob \in JobRecord /\ NewJob.status = "none" /\ NewJob.total = 0 /\ NewJob.sent = 0
      /\ NewJob.failed = 0 /\ NewJob.blocked = 0 /\ NewJob.contentFailed = 0
  BY DEF NewJob, JobRecord, Statuses
<1>2. NoTarget \in Row /\ NoTarget.status = "none" /\ NoTarget.later = FALSE
  BY DEF NoTarget, Row
<1>3. /\ \A b \in Jobs : job[b] = NewJob
      /\ \A b \in Jobs, u \in Users : target[b][u] = NoTarget
      /\ \A w \in Workers : worker[w] = AtPoll
  BY DEF Init
<1>4. Shape
  BY <1>1, <1>2, AtPollShape DEF Init, Shape
<1>5. \A w \in Workers, b \in Jobs, u \in Users : ~Holds(w, b, u)
  BY <1>3, BroadcastsAssumption, AtPollShape DEF Holds
<1>6. \A b \in Jobs :
         /\ Rows(b, {"sent"}) = {} /\ Rows(b, {"failed"}) = {} /\ Rows(b, {"blocked"}) = {}
         /\ Rows(b, {"pending", "sending"}) = {} /\ All(b) = {}
  BY <1>2, <1>3 DEF Rows, All, Final
<1>7. Owners /\ Later
  BY <1>2, <1>3, <1>5 DEF Owners, Later
<1>8. Counters
  BY <1>1, <1>3, <1>6, FS_EmptySet DEF Counters
<1>9. Ends
  BY <1>1, <1>3, <1>6, FS_EmptySet DEF Ends, NoneLeft
<1>10. Started
  BY <1>3, AtPollShape DEF Started
<1> QED BY <1>4, <1>7, <1>8, <1>9, <1>10 DEF Inv

LEMMA StutterStep ==
    ASSUME Inv, UNCHANGED vars
    PROVE  Inv'
<1>1. HoldsShrink
  BY DEF HoldsShrink, Holds, vars
<1>2. Shape' /\ Started' /\ CountsKept /\ EndsAreFound
  BY DEF vars, Inv, Shape, Started, CountsKept, EndsAreFound, Ending
<1> QED BY <1>1, <1>2, SameTargets, QuietStep DEF vars

LEMMA NextInv ==
    ASSUME Prompt = TRUE, Inv, [Next]_vars
    PROVE  Inv'
<1>1. ASSUME NEW b \in Jobs, CreateDraft(b) PROVE Inv'
  BY <1>1, CreateDraftStep
<1>2. ASSUME NEW b \in Jobs, NEW audience \in Audiences, QueueDraft(b, audience) PROVE Inv'
  BY <1>2, QueueDraftStep
<1>3. ASSUME NEW c \in Callers, NEW b \in Jobs, ReadDraft(c, b) PROVE Inv'
  BY <1>3, ReadDraftStep
<1>4. ASSUME NEW c \in Callers, NEW audience \in Audiences, QueueRead(c, audience) PROVE Inv'
  BY <1>4, QueueReadStep
<1>5. ASSUME NEW b \in Jobs, ChangeState(b) \/ TapJob(b) PROVE Inv'
  BY <1>5, TapIsTransition, SetBroadcastStateStep DEF ChangeState
<1>6. ASSUME NEW b \in Jobs, NEW u \in Users, RetryFallsDue(b, u) \/ ClaimAges(b, u)
      PROVE  Inv'
  BY <1>6, RetryFallsDueStep, ClaimAgesStep
<1>7. ASSUME NEW w \in Workers, WorkerStep(w) PROVE Inv'
  <2>1. ASSUME NEW b \in Jobs, Pick(w, b) PROVE Inv'
    BY <2>1, PickStep
  <2>2. ASSUME NEW users \in SUBSET Users, Claim(w, users) PROVE Inv'
    BY <2>2, ClaimStep
  <2>3. ASSUME NEW u \in Users, NEW outcome \in Outcomes, Deliver(w, u, outcome) PROVE Inv'
    BY <2>3, DeliverStep
  <2>4. CASE Load(w) \/ Start(w) \/ ClaimNothing(w) \/ Check(w) \/ FinishDone(w)
    BY <2>4, LoadStep, StartStep, ClaimNothingStep, CheckStep, FinishDoneStep
  <2>5. CASE WriteResults(w)
    BY <2>5, WriteResultsStep
  <2> QED BY <1>7, <2>1, <2>2, <2>3, <2>4, <2>5 DEF WorkerStep
<1>8. ASSUME NEW w \in Workers, ResetStale(w) \/ Shutdown(w) \/ Die(w) PROVE Inv'
  BY <1>8, ResetStaleStep, ShutdownStep, DieStep
<1>9. CASE UNCHANGED vars
  BY <1>9, StutterStep
<1> QED BY <1>1, <1>2, <1>3, <1>4, <1>5, <1>6, <1>7, <1>8, <1>9 DEF Next, AdminStep, TimeStep

\* The invariant holds of every run in which live batches end before their
\* claims are stale.
THEOREM InvHolds ==
    ASSUME Prompt = TRUE
    PROVE  Spec => []Inv
  BY InitInv, NextInv, PTL DEF Spec

-----------------------------------------------------------------------------
(***************************************************************************)
(* What it says of the jobs.                                               *)
(***************************************************************************)
\* The results of a whole job are at most as many as its recipients.
LEMMA ResultsFit ==
    ASSUME Inv, NEW b \in Jobs
    PROVE  job[b].sent + job[b].failed + job[b].blocked <= Cardinality(All(b))
<1> DEFINE S == Rows(b, {"sent"})
           F == Rows(b, {"failed"})
           B == Rows(b, {"blocked"})
<1>1. /\ S \subseteq Users /\ F \subseteq Users /\ B \subseteq Users /\ All(b) \subseteq Users
      /\ S \cap F = {} /\ (S \cup F) \cap B = {} /\ (S \cup F) \cup B \subseteq All(b)
  BY DEF Rows, All, Final
<1>2. job[b].sent = Cardinality(S) /\ job[b].failed = Cardinality(F)
      /\ job[b].blocked = Cardinality(B)
  BY DEF Inv, Counters
<1> HIDE DEF S, F, B
<1>3. Cardinality(S \cup F) = Cardinality(S) + Cardinality(F)
  BY <1>1, DisjointRecipients
<1>4. Cardinality((S \cup F) \cup B) = Cardinality(S \cup F) + Cardinality(B)
  BY <1>1, DisjointRecipients
<1>5. Cardinality((S \cup F) \cup B) <= Cardinality(All(b))
  BY <1>1, FewerRecipients
<1> QED BY <1>2, <1>3, <1>4, <1>5

LEMMA InvAgrees == Inv => ClaimsAndCountersAgree
<1> SUFFICES ASSUME Inv PROVE ClaimsAndCountersAgree
  OBVIOUS
<1>1. ClaimsHaveOneOwner
  BY DEF Inv, Owners, ClaimsHaveOneOwner
<1>2. CountersTellTheRows
  <2> SUFFICES ASSUME NEW b \in Jobs
               PROVE  /\ job[b].sent = Cardinality(Rows(b, {"sent"}))
                      /\ job[b].failed = Cardinality(Rows(b, {"failed"}))
                      /\ job[b].blocked = Cardinality(Rows(b, {"blocked"}))
                      /\ job[b].contentFailed <= job[b].failed
                      /\ Whole(b) =>
                           /\ job[b].sent + job[b].failed + job[b].blocked <= job[b].total
                           /\ job[b].status = "done" => Rows(b, {"pending", "sending"}) = {}
    BY DEF CountersTellTheRows
  <2>1. Whole(b) => job[b].total = Cardinality(All(b))
    BY DEF Whole, All
  <2>2. Whole(b) /\ Ending(b) => NoneLeft(b)
    BY DEF Inv, Ends
  <2> QED BY <2>1, <2>2, ResultsFit DEF Inv, Counters, Ending, NoneLeft
<1> QED BY <1>1, <1>2 DEF ClaimsAndCountersAgree

\* However workers, queue requests and admins overlap, crash and retry, no
\* recipient is being sent to by two workers, the counters of a job are the
\* numbers of its rows, and one that is done has nothing left, unless
\* recipients were added behind its back.
THEOREM ClaimsAgree ==
    ASSUME Prompt = TRUE
    PROVE  Spec => []ClaimsAndCountersAgree
  BY InvHolds, InvAgrees, PTL

\* What a step may do to rows with a result, and to a job's status.
ResultsStay(b) ==
  /\ \A u \in Users : target[b][u].status \in Final => target'[b][u] = target[b][u]
  /\ job[b].status \in Finished => job'[b].status = job[b].status
  /\ job[b].status = "paused" => job'[b].status \notin {"running", "done"}

LEMMA StatusStays ==
    ASSUME Inv, NEW x \in Jobs, NEW status, SetStatus(x, status),
           job[x].status \notin Finished,
           job[x].status = "paused" => status \notin {"running", "done"},
           target' = target, NEW b \in Jobs
    PROVE  ResultsStay(b)
<1>1. job \in [Jobs -> JobRecord]
  BY DEF Inv, Shape
<1>2. job'[b].status = IF b = x THEN status ELSE job[b].status
  BY <1>1 DEF SetStatus, JobRecord
<1> QED BY <1>2 DEF ResultsStay, Finished

LEMMA RowsStay ==
    ASSUME NEW b \in Jobs, job' = job,
           \A u \in Users : target[b][u].status \in Final => target'[b][u] = target[b][u]
    PROVE  ResultsStay(b)
  BY DEF ResultsStay, Finished

LEMMA AddingKeepsResults ==
    ASSUME Inv, NEW x \in Jobs, NEW audience \in Audiences,
           target' = Materialized(x, audience), NEW b \in Jobs, NEW total,
           \/ /\ job[x].status = "draft"
              /\ job' = [job EXCEPT ![x].status = "queued", ![x].total = total]
           \/ job' = job
    PROVE  ResultsStay(b)
<1>1. Added(x, audience)
  BY AddedRows
<1>2. \A u \in Users : target[b][u].status \in Final => target'[b][u] = target[b][u]
  BY <1>1 DEF Added, Final
<1>3. \/ job'[b].status = job[b].status
      \/ job[b].status = "draft" /\ job'[b].status = "queued"
  BY DEF Inv, Shape, JobRecord
<1> QED BY <1>2, <1>3 DEF ResultsStay, Finished

LEMMA WritingKeepsResults ==
    ASSUME Inv, NEW w \in Workers, WriteResults(w), NEW b \in Jobs
    PROVE  ResultsStay(b)
<1>1. \A u \in Users : target[b][u].status \in Final => target'[b][u] = target[b][u]
  <2>1. \A u \in Users : Holds(w, b, u) => target[b][u].status = "sending"
    BY DEF Inv, Owners
  <2>2. \A u \in Users : ~Holds(w, b, u) => target'[b][u] = target[b][u]
    BY WrittenRows DEF Written
  <2> QED BY <2>1, <2>2 DEF Final
<1>2. \/ job'[b].status = job[b].status
      \/ job'[b].status = "failed" /\ job[b].status \in Active \cup {"paused"}
  <2> DEFINE x == worker[w].job
             counted == Counted(w, job[x])
  <2>1. job \in [Jobs -> JobRecord] /\ x \in Jobs /\ job[x] \in JobRecord
    BY DEF WriteResults, Inv, Shape
  <2>2. counted.status = job[x].status /\ DOMAIN counted = DOMAIN job[x]
        /\ "status" \in DOMAIN job[x]
    BY <2>1 DEF Counted, JobRecord
  <2>3. \/ job' = [job EXCEPT ![x] = counted]
        \/ /\ Rejected(counted)
           /\ job' = [job EXCEPT ![x] = [counted EXCEPT !.status = "failed"]]
    BY DEF WriteResults
  <2>4. Rejected(counted) => counted.status \in Active \cup {"paused"}
    BY DEF Rejected
  <2> HIDE DEF x, counted
  <2> QED BY <2>1, <2>2, <2>3, <2>4
<1> QED BY <1>1, <1>2 DEF ResultsStay, Active, Finished

LEMMA ResultsStayStep ==
    ASSUME Inv, [Next]_vars, NEW b \in Jobs
    PROVE  ResultsStay(b)
<1>1. ASSUME NEW x \in Jobs, CreateDraft(x) PROVE ResultsStay(b)
  <2>1. job[x].status \notin Finished /\ job[x].status # "paused"
    BY <1>1 DEF CreateDraft, Finished
  <2>2. SetStatus(x, "draft")
    BY <1>1 DEF CreateDraft, Drafted, SetStatus
  <2> QED BY <1>1, <2>1, <2>2, StatusStays DEF CreateDraft
<1>2. ASSUME NEW x \in Jobs, NEW audience \in Audiences, QueueDraft(x, audience)
      PROVE  ResultsStay(b)
  BY <1>2, AddingKeepsResults DEF QueueDraft
<1>3. ASSUME NEW c \in Callers, NEW x \in Jobs, ReadDraft(c, x) PROVE ResultsStay(b)
  BY <1>3, RowsStay DEF ReadDraft
<1>4. ASSUME NEW c \in Callers, NEW audience \in Audiences, QueueRead(c, audience)
      PROVE  ResultsStay(b)
  <2>1. caller[c] \in Jobs
    BY <1>4 DEF QueueRead, Inv, Shape
  <2> QED BY <1>4, <2>1, AddingKeepsResults DEF QueueRead
<1>5. ASSUME NEW x \in Jobs, ChangeState(x) \/ TapJob(x) PROVE ResultsStay(b)
  <2>1. PICK t \in Transitions :
           job[x].status \in t[1] /\ SetStatus(x, t[2]) /\ target' = target
    BY <1>5, TapIsTransition DEF ChangeState, SetBroadcastState
  <2>2. /\ t[1] \subseteq Active \cup {"draft", "paused"}
        /\ t[2] \in {"paused", "queued", "cancelled"}
    BY DEF Transitions
  <2>3. job[x].status \notin Finished /\ t[2] \notin {"running", "done"}
    BY <2>1, <2>2 DEF Finished, Active
  <2> QED BY <2>1, <2>3, StatusStays
<1>6. ASSUME NEW x \in Jobs, NEW u \in Users, RetryFallsDue(x, u) PROVE ResultsStay(b)
  <2>1. target[x][u].status = "pending"
    BY <1>6 DEF RetryFallsDue, Inv, Later, Shape, Row
  <2>2. \A y \in Users : target[b][y].status \in Final => target'[b][y] = target[b][y]
    BY <1>6, <2>1 DEF RetryFallsDue, Inv, Shape, Final
  <2> QED BY <1>6, <2>2, RowsStay DEF RetryFallsDue
<1>7. ASSUME NEW x \in Jobs, NEW u \in Users, ClaimAges(x, u) PROVE ResultsStay(b)
  <2>1. \A y \in Users : target[b][y].status \in Final => target'[b][y] = target[b][y]
    BY <1>7 DEF ClaimAges, Inv, Shape, Final
  <2> QED BY <1>7, <2>1, RowsStay DEF ClaimAges
<1>8. ASSUME NEW w \in Workers, ResetStale(w) PROVE ResultsStay(b)
  <2>1. \A u \in Users : target[b][u].status \in Final => target'[b][u] = target[b][u]
    BY <1>8 DEF ResetStale, Stale, Inv, Shape, Final
  <2> QED BY <1>8, <2>1, RowsStay DEF ResetStale
<1>9. ASSUME NEW w \in Workers, NEW users \in SUBSET Users, Claim(w, users)
      PROVE  ResultsStay(b)
  <2> DEFINE x == worker[w].job
  <2>1. x \in Jobs /\ target \in [Jobs -> [Users -> Row]]
    BY <1>9 DEF Claim, Inv, Shape
  <2>2. \A u \in users : target[x][u].status = "pending"
    BY <1>9 DEF Claim, Due
  <2>3. \A u \in Users : b # x \/ u \notin users => target'[b][u] = target[b][u]
    BY <1>9, <2>1 DEF Claim
  <2>4. \A u \in Users : target[b][u].status \in Final => target'[b][u] = target[b][u]
    BY <2>2, <2>3 DEF Final
  <2> QED BY <1>9, <2>4, RowsStay DEF Claim
<1>10. ASSUME NEW w \in Workers, Start(w) PROVE ResultsStay(b)
  <2>1. CASE job' = job
    BY <1>10, <2>1, RowsStay DEF Start
  <2>2. CASE job' # job
    <3>1. worker[w].job \in Jobs /\ job[worker[w].job].status = "queued"
          /\ SetStatus(worker[w].job, "running")
      BY <1>10, <2>2 DEF Start, SetStatus, Inv, Shape
    <3> QED BY <1>10, <3>1, StatusStays DEF Start, Finished
  <2> QED BY <2>1, <2>2
<1>11. ASSUME NEW w \in Workers, FinishDone(w) PROVE ResultsStay(b)
  <2>1. CASE job' = job
    BY <1>11, <2>1, RowsStay DEF FinishDone
  <2>2. CASE job' # job
    <3>1. worker[w].job \in Jobs /\ job[worker[w].job].status \in Active
          /\ SetStatus(worker[w].job, "done")
      BY <1>11, <2>2 DEF FinishDone, MayFinish, SetStatus, Inv, Shape
    <3> QED BY <1>11, <3>1, StatusStays DEF FinishDone, Finished, Active
  <2> QED BY <2>1, <2>2
<1>12. ASSUME NEW w \in Workers, WriteResults(w) PROVE ResultsStay(b)
  BY <1>12, WritingKeepsResults
<1>13. CASE target' = target /\ job' = job
  BY <1>13, RowsStay
<1>14. ASSUME NEW w \in Workers, WorkerStep(w) PROVE ResultsStay(b)
  <2>1. ASSUME NEW x \in Jobs, Pick(w, x) PROVE ResultsStay(b)
    BY <1>13, <2>1 DEF Pick
  <2>2. ASSUME NEW u \in Users, NEW outcome \in Outcomes, Deliver(w, u, outcome)
        PROVE  ResultsStay(b)
    BY <1>13, <2>2 DEF Deliver
  <2>3. CASE Load(w) \/ ClaimNothing(w) \/ Check(w)
    BY <1>13, <2>3 DEF Load, ClaimNothing, Check
  <2> QED BY <1>9, <1>10, <1>11, <1>12, <1>14, <2>1, <2>2, <2>3 DEF WorkerStep
<1>15. ASSUME NEW w \in Workers, Shutdown(w) \/ Die(w) PROVE ResultsStay(b)
  BY <1>13, <1>15 DEF Shutdown, Die
<1>16. CASE UNCHANGED vars
  BY <1>13, <1>16 DEF vars
<1> QED BY <1>1, <1>2, <1>3, <1>4, <1>5, <1>6, <1>7, <1>8, <1>14, <1>15, <1>16
        DEF Next, AdminStep, TimeStep

\* A recipient with a result keeps it: nobody sends to it again. A finished
\* job stays as it finished, and no worker takes a job out of a pause.
THEOREM ResultsStand ==
    ASSUME Prompt = TRUE
    PROVE  Spec => ResultsAreFinal
<1>1. Inv /\ [Next]_vars => [\A b \in Jobs :
          /\ \A u \in Users :
                target[b][u].status \in Final => target'[b][u] = target[b][u]
          /\ job[b].status \in Finished => job'[b].status = job[b].status
          /\ job[b].status = "paused" => job'[b].status \notin {"running", "done"}
      ]_<<target, job>>
  BY ResultsStayStep DEF ResultsStay
<1> QED BY <1>1, InvHolds, PTL DEF Spec, ResultsAreFinal

-----------------------------------------------------------------------------
(***************************************************************************)
(* ResumeStudio.                                                           *)
(***************************************************************************)
CallPlaces == {"free", "sent", "written", "answered", "poll", "polled", "rendering",
               "sending", "delivered", "undelivered", "done", "failed"}
Call == [at: CallPlaces, by: Devices \cup {NoDevice}, kind: Kinds, doc: Edits, copy: Copy,
         again: {"none", "sent", "read"}, late: BOOLEAN,
         row: {"none", "pending", "completed", "failed"}, asked: Nat, got: Nat, unclear: BOOLEAN]

ResumeTypes ==
  /\ second \in Seconds /\ profile \in Copy
  /\ device \in [Devices -> Page] /\ call \in [Calls -> Call]
  /\ edits \in Edits /\ reopens \in 0..MaxReopens /\ repeats \in 0..MaxRepeats
  /\ held \subseteq Edits /\ hasty \subseteq Devices /\ echoed \in BOOLEAN

\* The save of the call has been committed.
Committed(r) == r.at \in {"written", "rendering", "sending", "delivered", "undelivered", "done", "failed"}

\* The call is a save, or a send with its save.
Saving(r) == r.at \notin {"free", "poll", "polled"}

\* The row of a document and where its request is tell what Telegram got.
DocumentTells(r) ==
  /\ r.row = "completed" \/ r.at = "done" => r.got > 0
  /\ r.at = "failed" \/ r.row = "failed" => r.got = 0 \/ r.unclear
  /\ r.got > 1 => r.unclear
  /\ r.at = "delivered" => r.got > 0
  /\ r.at \in {"sending", "undelivered"} => r.got = 0 \/ r.unclear
  /\ r.at \in {"free", "sent", "written", "poll", "polled", "rendering"} => r.got = 0
  /\ r.at \in {"rendering", "sending", "delivered", "undelivered"} => r.row = "pending"
  /\ r.at \in {"free", "sent", "written", "poll", "polled"} => r.row = "none"

\* A repeat that came after the commit finds its answer, if one is kept.
RepeatTells(r) ==
  /\ r.at \in {"free", "sent"} => ~r.late
  /\ r.again = "read" /\ r.kind # "autosave" => ~r.late
  /\ r.again # "none" => r.at \notin {"free", "poll", "polled"}

CallSound(r) == DocumentTells(r) /\ RepeatTells(r)

\* Whatever is on its way to a page is a resume that the server has held.
CopiesAreHeld ==
  /\ 0 \in held /\ profile.doc \in held
  /\ \A c \in Calls : call[c].copy.doc \in held /\ (Committed(call[c]) => call[c].doc \in held)
  /\ \A d \in Devices : device[d].seen.doc \in held

\* A page that was not hasty waits for one save, and syncFpRef is of that one.
OneSaveAtATime ==
  \A d \in Devices \ hasty : \A c \in Calls :
    call[c].by = d /\ Saving(call[c]) =>
      /\ device[d].busy = {call[c].kind} /\ device[d].out = call[c].doc
      /\ \A e \in Calls : call[e].by = d /\ Saving(call[e]) => e = c

ResumeInv ==
  /\ ResumeTypes
  /\ \A c \in Calls : CallSound(call[c])
  /\ CopiesAreHeld /\ OneSaveAtATime /\ CleanMeansSaved /\ ~echoed

\* A step that makes `next` of one call, and hands the page of that call on with
\* it if it has to be told.
LEMMA CallsStand ==
  ASSUME ResumeInv, NEW c \in Calls, NEW next \in Call, Calling(c, next), held \subseteq held',
         CallSound(next), next.copy.doc \in held', Committed(next) => next.doc \in held'
  PROVE  /\ call' \in [Calls -> Call]
         /\ call'[c] = next /\ (\A e \in Calls : e # c => call'[e] = call[e])
         /\ \A e \in Calls : CallSound(call'[e])
         /\ \A e \in Calls : call'[e].copy.doc \in held' /\ (Committed(call'[e]) => call'[e].doc \in held')
<1>1. call \in [Calls -> Call] /\ call' = [call EXCEPT ![c] = next]
  BY DEF ResumeInv, ResumeTypes, Calling
<1>2. /\ call' \in [Calls -> Call]
      /\ call'[c] = next /\ \A e \in Calls : e # c => call'[e] = call[e]
  BY <1>1
<1>3. \A e \in Calls : CallSound(call'[e])
  BY <1>2 DEF ResumeInv
<1>4. ASSUME NEW e \in Calls
      PROVE  call'[e].copy.doc \in held' /\ (Committed(call'[e]) => call'[e].doc \in held')
  <2>1. CASE e = c
    BY <1>2, <2>1
  <2>2. CASE e # c
    <3>1. call[e].copy.doc \in held /\ (Committed(call[e]) => call[e].doc \in held)
      BY DEF ResumeInv, CopiesAreHeld
    <3> QED BY <3>1, <2>2, <1>2
  <2> QED BY <2>1, <2>2
<1> QED BY <1>2, <1>3, <1>4

\* A step of one call that no page hears of.
LEMMA QuietCall ==
  ASSUME ResumeInv, NEW c \in Calls, NEW next \in Call, Calling(c, next),
         held \subseteq held', held' \subseteq Edits, profile' \in Copy, profile'.doc \in held',
         CallSound(next), next.copy.doc \in held', Committed(next) => next.doc \in held',
         \/ next.by = NoDevice
         \/ ~Saving(next)
         \/ next.by = call[c].by /\ next.kind = call[c].kind /\ next.doc = call[c].doc
              /\ (Saving(next) => Saving(call[c])),
         UNCHANGED <<second, device, edits, reopens, repeats, hasty, echoed>>
  PROVE  ResumeInv'
<1>1. /\ call' \in [Calls -> Call]
      /\ call'[c] = next /\ (\A e \in Calls : e # c => call'[e] = call[e])
      /\ \A e \in Calls : CallSound(call'[e])
      /\ \A e \in Calls : call'[e].copy.doc \in held' /\ (Committed(call'[e]) => call'[e].doc \in held')
  BY CallsStand
<1>2. ResumeTypes'
  BY <1>1 DEF ResumeInv, ResumeTypes
<1>3. CopiesAreHeld'
  BY <1>1 DEF ResumeInv, CopiesAreHeld
<1>4. OneSaveAtATime'
  <2>1. NoDevice \notin Devices
    BY ResumeAssumption
  <2>2. \A e \in Calls, d \in Devices : call'[e].by = d /\ Saving(call'[e]) =>
          /\ call[e].by = d /\ Saving(call[e])
          /\ call'[e].kind = call[e].kind /\ call'[e].doc = call[e].doc
    BY <1>1, <2>1
  <2> QED BY <2>2 DEF ResumeInv, OneSaveAtATime
<1>5. CleanMeansSaved'
  BY DEF ResumeInv, CleanMeansSaved
<1>6. ~echoed'
  BY DEF ResumeInv
<1> QED BY <1>1, <1>2, <1>3, <1>4, <1>5, <1>6 DEF ResumeInv

\* A step of one page that leaves its saves as they are.
LEMMA QuietPage ==
  ASSUME ResumeInv, NEW d \in Devices, NEW page \in Page, Shows(d, page),
         page.busy = device[d].busy, page.out = device[d].out,
         page.seen.doc \in held, page.dirty \/ page.doc \in held \/ d \in hasty,
         UNCHANGED <<second, profile, call, histories>>,
         edits' \in Edits, reopens' \in 0..MaxReopens, UNCHANGED repeats
  PROVE  ResumeInv'
<1>0. UNCHANGED <<held, hasty, echoed>>
  BY DEF histories
<1>1. /\ device' \in [Devices -> Page] /\ device'[d] = page
      /\ \A x \in Devices : x # d => device'[x] = device[x]
  BY DEF ResumeInv, ResumeTypes, Shows
<1>2. ResumeTypes'
  BY <1>0, <1>1 DEF ResumeInv, ResumeTypes
<1>3. CopiesAreHeld'
  BY <1>0, <1>1 DEF ResumeInv, CopiesAreHeld
<1>4. OneSaveAtATime'
  <2>1. \A x \in Devices : device'[x].busy = device[x].busy /\ device'[x].out = device[x].out
    BY <1>1
  <2> QED BY <1>0, <2>1 DEF ResumeInv, OneSaveAtATime
<1>5. CleanMeansSaved'
  BY <1>0, <1>1 DEF ResumeInv, CleanMeansSaved
<1> QED BY <1>0, <1>2, <1>3, <1>4, <1>5 DEF ResumeInv

\* A step that ends the save of one page, which hears of it.
LEMMA SaveEnds ==
  ASSUME ResumeInv, NEW c \in Calls, NEW next \in Call, Calling(c, next), CallSound(next),
         next.copy.doc \in held, Committed(next) => next.doc \in held, next.by = NoDevice,
         Saving(call[c]), call[c].by \in Devices,
         NEW page \in Page, Shows(call[c].by, [page EXCEPT !.busy = @ \ {call[c].kind}]),
         page.busy = device[call[c].by].busy, page.out = device[call[c].by].out,
         page.seen.doc \in held, call[c].by \in hasty \/ page.dirty \/ page.doc \in held,
         UNCHANGED <<second, profile, bounds, histories>>
  PROVE  ResumeInv'
<1> DEFINE d == call[c].by
           shown == [page EXCEPT !.busy = @ \ {call[c].kind}]
<1>0. UNCHANGED <<held, hasty, echoed, edits, reopens, repeats>>
  BY DEF histories, bounds
<1>1. /\ call' \in [Calls -> Call]
      /\ call'[c] = next /\ (\A e \in Calls : e # c => call'[e] = call[e])
      /\ \A e \in Calls : CallSound(call'[e])
      /\ \A e \in Calls : call'[e].copy.doc \in held' /\ (Committed(call'[e]) => call'[e].doc \in held')
  BY <1>0, CallsStand
<1>2. /\ shown \in Page /\ shown.busy = page.busy \ {call[c].kind} /\ shown.out = page.out
      /\ shown.seen = page.seen /\ shown.dirty = page.dirty /\ shown.doc = page.doc
  BY DEF Page
<1> HIDE DEF shown
<1>3. /\ device' \in [Devices -> Page] /\ device'[d] = shown
      /\ \A x \in Devices : x # d => device'[x] = device[x]
  BY <1>2 DEF ResumeInv, ResumeTypes, Shows, shown
<1>4. ResumeTypes'
  BY <1>0, <1>1, <1>3 DEF ResumeInv, ResumeTypes
<1>5. CopiesAreHeld'
  BY <1>0, <1>1, <1>2, <1>3 DEF ResumeInv, CopiesAreHeld
<1>6. OneSaveAtATime'
  <2> SUFFICES ASSUME NEW x \in Devices \ hasty, NEW e \in Calls, call'[e].by = x, Saving(call'[e])
               PROVE  /\ device'[x].busy = {call'[e].kind} /\ device'[x].out = call'[e].doc
                      /\ \A f \in Calls : call'[f].by = x /\ Saving(call'[f]) => f = e
    BY <1>0 DEF OneSaveAtATime
  <2>1. NoDevice \notin Devices
    BY ResumeAssumption
  <2>2. e # c /\ call'[e] = call[e]
    BY <1>1, <2>1
  <2>3. x # d
    BY <2>2 DEF ResumeInv, OneSaveAtATime
  <2>4. device'[x] = device[x]
    BY <1>3, <2>3
  <2>5. \A f \in Calls : call'[f].by = x => f # c /\ call'[f] = call[f]
    BY <1>1, <2>1
  <2> QED BY <2>2, <2>4, <2>5 DEF ResumeInv, OneSaveAtATime
<1>7. CleanMeansSaved'
  BY <1>0, <1>2, <1>3 DEF ResumeInv, CleanMeansSaved
<1> QED BY <1>0, <1>1, <1>4, <1>5, <1>6, <1>7 DEF ResumeInv

-----------------------------------------------------------------------------
\* What is left of a call is sound, and no page hears of it again.
LEMMA EndedIsSound ==
  ASSUME ResumeInv, NEW c \in Calls
  PROVE  /\ Ended(c) \in Call /\ CallSound(Ended(c)) /\ Ended(c).by = NoDevice
         /\ Ended(c).copy.doc \in held /\ ~Committed(Ended(c))
<1>1. call[c] \in Call /\ CallSound(call[c]) /\ call[c].copy.doc \in held /\ 0 \in held
  BY DEF ResumeInv, ResumeTypes, CopiesAreHeld
<1>2. 0 \in Edits /\ 0 \in Seconds
  BY ResumeAssumption DEF Edits, Seconds
<1>3. CASE call[c].again = "none"
  <2>1. Ended(c) = NoCall
    BY <1>3 DEF Ended
  <2>2. NoCall \in Call
    BY <1>2 DEF NoCall, Call, CallPlaces, Kinds, Copy, NoCopy
  <2>3. CallSound(NoCall) /\ NoCall.by = NoDevice /\ NoCall.copy.doc = 0 /\ ~Committed(NoCall)
    BY DEF NoCall, CallSound, DocumentTells, RepeatTells, NoCopy, Committed
  <2> QED BY <1>1, <2>1, <2>2, <2>3
<1>4. CASE call[c].again # "none"
  <2>1. Ended(c) = [call[c] EXCEPT !.at = "answered", !.by = NoDevice]
    BY <1>4 DEF Ended
  <2>2. /\ Ended(c) \in Call /\ Ended(c).by = NoDevice /\ Ended(c).at = "answered"
        /\ Ended(c).copy = call[c].copy /\ Ended(c).row = call[c].row /\ Ended(c).got = call[c].got
        /\ Ended(c).unclear = call[c].unclear /\ Ended(c).again = call[c].again
        /\ Ended(c).kind = call[c].kind /\ Ended(c).late = call[c].late
    BY <1>1, <2>1 DEF Call, CallPlaces
  <2>3. CallSound(Ended(c)) /\ ~Committed(Ended(c))
    BY <1>1, <2>2 DEF CallSound, DocumentTells, RepeatTells, Committed
  <2> QED BY <1>1, <2>2, <2>3
<1> QED BY <1>3, <1>4


-----------------------------------------------------------------------------
\* What a page makes of an answer.
LEMMA NoticedIsQuiet ==
  ASSUME NEW page \in Page, NEW copy \in Copy, copy.doc \in held, second \in Seconds,
         NEW hurried \in BOOLEAN, hurried \/ page.dirty \/ page.doc \in held
  PROVE  /\ Noticed(page, copy) \in Page /\ Noticed(page, copy).busy = page.busy
         /\ Noticed(page, copy).out = page.out /\ Noticed(page, copy).seen.doc \in held
         /\ hurried \/ Noticed(page, copy).dirty \/ Noticed(page, copy).doc \in held
<1> DEFINE now == [page EXCEPT !.seen = copy]
<1>1. /\ now \in Page /\ now.busy = page.busy /\ now.out = page.out /\ now.seen = copy
      /\ now.dirty = page.dirty /\ now.doc = page.doc
  BY DEF Page
<1> HIDE DEF now
<1>2. CASE page.fresh
  <2> DEFINE first == [now EXCEPT !.fresh = FALSE, !.known = copy.at, !.drafted = second,
                                  !.undecided = @ \/ (copy.doc # 0 /\ copy.at > page.drafted)]
  <2>1. Noticed(page, copy) = first
    BY <1>2 DEF Noticed, now
  <2>2. now.undecided \/ (copy.doc # 0 /\ copy.at > page.drafted) \in BOOLEAN
    BY <1>1 DEF Page
  <2>3. /\ first \in Page /\ first.busy = now.busy /\ first.out = now.out /\ first.seen = now.seen
        /\ first.dirty = now.dirty /\ first.doc = now.doc
    BY <1>1, <2>2 DEF Page, Copy
  <2> QED BY <1>1, <2>1, <2>3
<1>3. CASE ~page.fresh /\ copy.at <= page.known
  BY <1>1, <1>3 DEF Noticed, now
<1>4. CASE ~page.fresh /\ ~(copy.at <= page.known) /\ page.dirty
  <2> DEFINE torn == [now EXCEPT !.undecided = TRUE]
  <2>1. Noticed(page, copy) = torn
    BY <1>4 DEF Noticed, now
  <2>2. /\ torn \in Page /\ torn.busy = now.busy /\ torn.out = now.out /\ torn.seen = now.seen
        /\ torn.dirty = now.dirty /\ torn.doc = now.doc
    BY <1>1 DEF Page
  <2> QED BY <1>1, <2>1, <2>2
<1>5. CASE ~page.fresh /\ ~(copy.at <= page.known) /\ ~page.dirty
  <2>1. Noticed(page, copy) = Loaded(now, copy)
    BY <1>5 DEF Noticed, now
  <2>2. /\ Loaded(now, copy) \in Page /\ Loaded(now, copy).busy = now.busy
        /\ Loaded(now, copy).out = now.out /\ Loaded(now, copy).seen = now.seen
        /\ Loaded(now, copy).doc = copy.doc
    BY <1>1 DEF Page, Copy, Loaded
  <2> QED BY <1>1, <2>1, <2>2
<1> QED BY <1>2, <1>3, <1>4, <1>5

\* markSynced takes a page for saved only when it shows what syncFpRef tells.
LEMMA AcceptedIsQuiet ==
  ASSUME NEW page \in Page, NEW copy \in Copy, copy.doc \in held, second \in Seconds,
         NEW hurried \in BOOLEAN, hurried \/ page.dirty \/ page.doc \in held,
         hurried \/ page.out \in held
  PROVE  /\ Accepted(page, copy) \in Page /\ Accepted(page, copy).busy = page.busy
         /\ Accepted(page, copy).out = page.out /\ Accepted(page, copy).seen.doc \in held
         /\ hurried \/ Accepted(page, copy).dirty \/ Accepted(page, copy).doc \in held
<1> DEFINE synced == [page EXCEPT !.known = copy.at, !.dirty = StillDirty(page), !.undecided = FALSE]
<1>1. StillDirty(page) \in BOOLEAN /\ (StillDirty(page) <=> page.dirty /\ page.out # page.doc)
  BY DEF StillDirty, Page
<1>2. /\ synced \in Page /\ synced.busy = page.busy /\ synced.out = page.out /\ synced.known = copy.at
      /\ synced.dirty = StillDirty(page) /\ synced.doc = page.doc /\ synced.fresh = page.fresh
  BY <1>1 DEF Page, Copy
<1> HIDE DEF synced
<1>3. Accepted(page, copy) = Noticed(synced, copy)
  BY DEF Accepted, synced
<1>4. hurried \/ synced.dirty \/ synced.doc \in held
  BY <1>1, <1>2
<1> QED BY <1>2, <1>3, <1>4, NoticedIsQuiet

-----------------------------------------------------------------------------
\* Typing facts that the steps below share.
LEMMA ResumeBounds == MaxEdits \in Nat /\ MaxSecond \in Nat /\ MaxReopens \in Nat /\ MaxRepeats \in Nat
  BY ResumeAssumption

LEMMA EditHolds ==
  ASSUME ResumeInv, NEW d \in Devices, EditDraft(d)
  PROVE  ResumeInv'
<1> DEFINE page == [device[d] EXCEPT !.doc = edits + 1, !.dirty = TRUE, !.drafted = second]
<1>1. device[d] \in Page /\ edits + 1 \in Edits /\ second \in Seconds /\ reopens \in 0..MaxReopens
  BY ResumeBounds DEF ResumeInv, ResumeTypes, EditDraft, Edits
<1>2. /\ page \in Page /\ page.busy = device[d].busy /\ page.out = device[d].out
      /\ page.seen = device[d].seen /\ page.dirty
  BY <1>1 DEF Page
<1> HIDE DEF page
<1>3. page.seen.doc \in held
  BY <1>2 DEF ResumeInv, CopiesAreHeld
<1>4. /\ Shows(d, page) /\ edits' = edits + 1
      /\ UNCHANGED <<second, profile, call, histories>> /\ UNCHANGED <<reopens, repeats>>
  BY DEF EditDraft, page
<1> QED BY <1>1, <1>2, <1>3, <1>4, QuietPage

LEMMA DecideHolds ==
  ASSUME ResumeInv, NEW d \in Devices, Decide(d)
  PROVE  ResumeInv'
<1> DEFINE mine == device[d]
           server == [Loaded(mine, mine.seen) EXCEPT !.undecided = FALSE]
           kept == [mine EXCEPT !.undecided = FALSE, !.known = mine.seen.at]
<1>1. mine \in Page /\ second \in Seconds /\ edits \in Edits /\ reopens \in 0..MaxReopens
  BY DEF ResumeInv, ResumeTypes
<1>2. mine.seen \in Copy /\ mine.seen.doc \in held
  BY <1>1 DEF Page, ResumeInv, CopiesAreHeld
<1>3. mine.dirty \/ mine.doc \in held \/ d \in hasty
  BY DEF ResumeInv, CleanMeansSaved
<1>4. /\ server \in Page /\ server.busy = mine.busy /\ server.out = mine.out
      /\ server.seen = mine.seen /\ server.doc = mine.seen.doc
  BY <1>1, <1>2 DEF Page, Copy, Loaded
<1>5. /\ kept \in Page /\ kept.busy = mine.busy /\ kept.out = mine.out
      /\ kept.seen = mine.seen /\ kept.doc = mine.doc /\ kept.dirty = mine.dirty
  BY <1>1, <1>2 DEF Page, Copy
<1>6. /\ Shows(d, server) \/ Shows(d, kept)
      /\ UNCHANGED <<second, profile, call, histories>> /\ UNCHANGED <<edits, reopens, repeats>>
  BY DEF Decide, bounds
<1> HIDE DEF mine, server, kept
<1>7. CASE Shows(d, server)
  BY <1>1, <1>2, <1>4, <1>6, <1>7, QuietPage DEF mine
<1>8. CASE Shows(d, kept)
  BY <1>1, <1>2, <1>3, <1>5, <1>6, <1>8, QuietPage DEF mine
<1> QED BY <1>6, <1>7, <1>8

LEMMA ReopenHolds ==
  ASSUME ResumeInv, NEW d \in Devices, Reopen(d)
  PROVE  ResumeInv'
<1>0. device[d] \in Page /\ second \in Seconds /\ NoDevice \notin Devices /\ 0 \in Edits /\ 0 \in Seconds
  BY ResumeAssumption DEF ResumeInv, ResumeTypes, Edits, Seconds
<1>1. PICK stamp \in {device[d].drafted, second} :
        Shows(d, [NewPage EXCEPT !.doc = device[d].doc, !.dirty = device[d].doc # 0, !.drafted = stamp])
  BY DEF Reopen
<1> DEFINE page == [NewPage EXCEPT !.doc = device[d].doc, !.dirty = device[d].doc # 0, !.drafted = stamp]
<1>2. stamp \in Seconds /\ device[d].doc \in Edits
  BY <1>0 DEF Page
<1>3. /\ page \in Page /\ page.seen.doc = 0 /\ page.doc = device[d].doc
      /\ page.dirty = (device[d].doc # 0)
  BY <1>0, <1>2 DEF Page, NewPage, NoCopy, Copy
<1>4. /\ device' = [device EXCEPT ![d] = page]
      /\ call' = [c \in Calls |-> IF call[c].by = d THEN [call[c] EXCEPT !.by = NoDevice] ELSE call[c]]
      /\ hasty' = hasty \ {d} /\ reopens < MaxReopens /\ reopens' = reopens + 1
      /\ UNCHANGED <<second, profile, edits, repeats, held, echoed>>
  BY <1>1 DEF Reopen, Shows
<1> HIDE DEF page
<1>5. ASSUME NEW c \in Calls
      PROVE  /\ call'[c] \in Call /\ CallSound(call'[c]) /\ call'[c].copy = call[c].copy
             /\ call'[c].doc = call[c].doc /\ (Committed(call'[c]) <=> Committed(call[c]))
             /\ call[c].by # d => call'[c] = call[c]
             /\ call[c].by = d => call'[c].by = NoDevice
  <2>1. call[c] \in Call /\ CallSound(call[c])
    BY DEF ResumeInv, ResumeTypes
  <2>2. CASE call[c].by # d
    BY <1>4, <2>1, <2>2
  <2>3. CASE call[c].by = d
    <3> DEFINE next == [call[c] EXCEPT !.by = NoDevice]
    <3>1. /\ next \in Call /\ next.by = NoDevice /\ next.at = call[c].at /\ next.copy = call[c].copy
          /\ next.doc = call[c].doc /\ next.kind = call[c].kind /\ next.again = call[c].again
          /\ next.late = call[c].late /\ next.row = call[c].row /\ next.got = call[c].got
          /\ next.unclear = call[c].unclear
      BY <2>1 DEF Call
    <3>2. call'[c] = next
      BY <1>4, <2>3
    <3> HIDE DEF next
    <3> QED BY <2>1, <2>3, <3>1, <3>2 DEF CallSound, DocumentTells, RepeatTells, Committed
  <2> QED BY <2>2, <2>3
<1>6. /\ device' \in [Devices -> Page] /\ device'[d] = page
      /\ \A x \in Devices : x # d => device'[x] = device[x]
  BY <1>3, <1>4 DEF ResumeInv, ResumeTypes
<1>7. ResumeTypes'
  <2>1. call' \in [Calls -> Call]
    BY <1>4, <1>5
  <2>2. reopens' \in 0..MaxReopens /\ hasty' \subseteq Devices
    BY <1>4, ResumeBounds DEF ResumeInv, ResumeTypes
  <2> QED BY <1>4, <1>6, <2>1, <2>2 DEF ResumeInv, ResumeTypes
<1>8. CopiesAreHeld'
  BY <1>3, <1>4, <1>5, <1>6 DEF ResumeInv, CopiesAreHeld
<1>9. OneSaveAtATime'
  <2> SUFFICES ASSUME NEW x \in Devices \ hasty', NEW e \in Calls, call'[e].by = x, Saving(call'[e])
               PROVE  /\ device'[x].busy = {call'[e].kind} /\ device'[x].out = call'[e].doc
                      /\ \A f \in Calls : call'[f].by = x /\ Saving(call'[f]) => f = e
    BY DEF OneSaveAtATime
  <2>1. call[e].by # d /\ call'[e] = call[e]
    BY <1>0, <1>5
  <2>2. x # d /\ x \in Devices \ hasty
    BY <1>4, <2>1
  <2>3. \A f \in Calls : call'[f].by = x => call'[f] = call[f]
    BY <1>0, <1>5
  <2> QED BY <1>6, <2>1, <2>2, <2>3 DEF ResumeInv, OneSaveAtATime
<1>10. CleanMeansSaved'
  <2>1. page.dirty \/ page.doc \in held
    BY <1>3 DEF ResumeInv, CopiesAreHeld
  <2> QED BY <1>4, <1>6, <2>1 DEF ResumeInv, CleanMeansSaved
<1> QED BY <1>4, <1>5, <1>7, <1>8, <1>9, <1>10 DEF ResumeInv

\* syncFpRef is of the save that begins, which is the only one or the second.
LEMMA PersistHolds ==
  ASSUME ResumeInv, NEW d \in Devices, NEW c \in Calls, NEW kind \in Kinds, Persist(d, c, kind)
  PROVE  ResumeInv'
<1> DEFINE next == [NoCall EXCEPT !.at = "sent", !.by = d, !.kind = kind, !.doc = device[d].doc]
           page == [device[d] EXCEPT !.out = device[d].doc, !.busy = @ \cup {kind}]
<1>0. device[d] \in Page /\ NoDevice \notin Devices /\ 0 \in Edits /\ 0 \in Seconds /\ 0 \in held
  BY ResumeAssumption DEF ResumeInv, ResumeTypes, CopiesAreHeld, Edits, Seconds
<1>1. /\ next \in Call /\ CallSound(next) /\ next.copy.doc = 0 /\ ~Committed(next)
      /\ next.by = d /\ next.kind = kind /\ next.doc = device[d].doc
  <2>1. /\ next \in Call /\ next.at = "sent" /\ next.by = d /\ next.kind = kind /\ next.doc = device[d].doc
        /\ next.copy = NoCopy /\ next.again = "none" /\ next.late = FALSE /\ next.row = "none" /\ next.got = 0
    BY <1>0 DEF Call, CallPlaces, NoCall, NoCopy, Copy, Page
  <2> QED BY <2>1 DEF CallSound, DocumentTells, RepeatTells, Committed, NoCopy
<1>2. /\ page \in Page /\ page.out = device[d].doc /\ page.busy = device[d].busy \cup {kind}
      /\ page.seen = device[d].seen /\ page.dirty = device[d].dirty /\ page.doc = device[d].doc
  BY <1>0 DEF Page
<1>3. /\ call[c].at = "free" /\ Calling(c, next) /\ device' = [device EXCEPT ![d] = page]
      /\ hasty' = IF device[d].busy # {} THEN hasty \cup {d} ELSE hasty
      /\ UNCHANGED <<second, profile, held, echoed>> /\ UNCHANGED <<edits, reopens, repeats>>
  BY DEF Persist, Shows, bounds
<1> HIDE DEF next, page
<1>4. /\ call' \in [Calls -> Call]
      /\ call'[c] = next /\ (\A e \in Calls : e # c => call'[e] = call[e])
      /\ \A e \in Calls : CallSound(call'[e])
      /\ \A e \in Calls : call'[e].copy.doc \in held' /\ (Committed(call'[e]) => call'[e].doc \in held')
  BY <1>0, <1>1, <1>3, CallsStand
<1>5. /\ device' \in [Devices -> Page] /\ device'[d] = page
      /\ \A x \in Devices : x # d => device'[x] = device[x]
  BY <1>2, <1>3 DEF ResumeInv, ResumeTypes
<1>6. ResumeTypes'
  BY <1>3, <1>4, <1>5 DEF ResumeInv, ResumeTypes
<1>7. CopiesAreHeld'
  BY <1>2, <1>3, <1>4, <1>5 DEF ResumeInv, CopiesAreHeld
<1>8. OneSaveAtATime'
  <2> SUFFICES ASSUME NEW x \in Devices \ hasty', NEW e \in Calls, call'[e].by = x, Saving(call'[e])
               PROVE  /\ device'[x].busy = {call'[e].kind} /\ device'[x].out = call'[e].doc
                      /\ \A f \in Calls : call'[f].by = x /\ Saving(call'[f]) => f = e
    BY DEF OneSaveAtATime
  <2>1. CASE x # d
    <3>1. \A f \in Calls : call'[f].by = x => f # c /\ call'[f] = call[f]
      BY <1>1, <1>4, <2>1
    <3>2. x \in Devices \ hasty
      BY <1>3
    <3> QED BY <1>5, <2>1, <3>1, <3>2 DEF ResumeInv, OneSaveAtATime
  <2>2. CASE x = d
    <3>1. device[d].busy = {} /\ d \in Devices \ hasty
      BY <1>3, <2>2
    <3>2. \A f \in Calls : ~(call[f].by = d /\ Saving(call[f]))
      BY <3>1 DEF ResumeInv, OneSaveAtATime
    <3>3. \A f \in Calls : call'[f].by = x /\ Saving(call'[f]) => f = c
      BY <1>4, <2>2, <3>2
    <3> QED BY <1>1, <1>2, <1>4, <1>5, <2>2, <3>1, <3>3
  <2> QED BY <2>1, <2>2
<1>9. CleanMeansSaved'
  BY <1>2, <1>3, <1>5 DEF ResumeInv, CleanMeansSaved
<1> QED BY <1>3, <1>4, <1>6, <1>7, <1>8, <1>9 DEF ResumeInv

LEMMA PollHolds ==
  ASSUME ResumeInv, NEW d \in Devices, NEW c \in Calls, Poll(d, c)
  PROVE  ResumeInv'
<1> DEFINE next == [NoCall EXCEPT !.at = "poll", !.by = d]
<1>0. 0 \in Edits /\ 0 \in Seconds /\ 0 \in held
  BY ResumeAssumption DEF ResumeInv, CopiesAreHeld, Edits, Seconds
<1>1. /\ next \in Call /\ next.at = "poll" /\ next.copy = NoCopy
      /\ next.again = "none" /\ next.late = FALSE /\ next.row = "none" /\ next.got = 0
  BY <1>0 DEF Call, CallPlaces, NoCall, NoCopy, Copy, Kinds
<1>2. CallSound(next) /\ next.copy.doc = 0 /\ ~Committed(next) /\ ~Saving(next)
  BY <1>1 DEF CallSound, DocumentTells, RepeatTells, Committed, Saving, NoCopy
<1>3. Calling(c, next) /\ UNCHANGED <<second, profile, device, held, hasty, echoed, edits, reopens, repeats>>
  BY DEF Poll, bounds, histories
<1> HIDE DEF next
<1>4. held \subseteq Edits /\ profile \in Copy /\ profile.doc \in held
  BY DEF ResumeInv, ResumeTypes, CopiesAreHeld
<1> QED BY <1>0, <1>1, <1>2, <1>3, <1>4, QuietCall

LEMMA PollEndHolds ==
  ASSUME ResumeInv, NEW c \in Calls, PollEnds(c)
  PROVE  ResumeInv'
<1>0. /\ 0 \in Edits /\ 0 \in Seconds /\ 0 \in held /\ NoDevice \notin Devices /\ second \in Seconds
      /\ held \subseteq Edits /\ profile \in Copy /\ profile.doc \in held /\ call[c] \in Call
      /\ call[c].copy.doc \in held /\ edits \in Edits /\ reopens \in 0..MaxReopens
  BY ResumeAssumption DEF ResumeInv, ResumeTypes, CopiesAreHeld, Edits, Seconds
<1>1. /\ NoCall \in Call /\ CallSound(NoCall) /\ NoCall.copy.doc = 0 /\ ~Committed(NoCall)
      /\ NoCall.by = NoDevice
  <2>1. NoCall \in Call
    BY <1>0 DEF Call, CallPlaces, NoCall, NoCopy, Copy, Kinds
  <2> QED BY <2>1 DEF NoCall, CallSound, DocumentTells, RepeatTells, Committed, NoCopy
<1>2. /\ call[c].at \in {"poll", "polled"} /\ Calling(c, NoCall)
      /\ UNCHANGED <<second, profile, held, hasty, echoed>> /\ UNCHANGED <<edits, reopens, repeats>>
  BY DEF PollEnds, bounds, histories
<1>3. CASE UNCHANGED device
  BY <1>0, <1>1, <1>2, <1>3, QuietCall
<1>4. CASE /\ call[c].by # NoDevice
           /\ Shows(call[c].by, Noticed(device[call[c].by], call[c].copy))
  <2> DEFINE d == call[c].by
             page == Noticed(device[d], call[c].copy)
             hurried == d \in hasty
  <2>1. d \in Devices /\ call[c].copy \in Copy
    BY <1>0, <1>4 DEF Call
  <2>2. device[d] \in Page /\ (hurried \/ device[d].dirty \/ device[d].doc \in held)
    BY <2>1 DEF ResumeInv, ResumeTypes, CleanMeansSaved
  <2>3. /\ page \in Page /\ page.busy = device[d].busy /\ page.out = device[d].out
        /\ page.seen.doc \in held /\ (hurried \/ page.dirty \/ page.doc \in held)
    <3> HIDE DEF d
    <3>1. hurried \in BOOLEAN
      OBVIOUS
    <3> HIDE DEF hurried
    <3> QED BY <1>0, <2>1, <2>2, <3>1, NoticedIsQuiet
  <2> HIDE DEF page
  <2>4. /\ device' \in [Devices -> Page] /\ device'[d] = page
        /\ \A x \in Devices : x # d => device'[x] = device[x]
    BY <1>4, <2>1, <2>3 DEF ResumeInv, ResumeTypes, Shows, page
  <2>5. /\ call' \in [Calls -> Call]
        /\ call'[c] = NoCall /\ (\A e \in Calls : e # c => call'[e] = call[e])
        /\ \A e \in Calls : CallSound(call'[e])
        /\ \A e \in Calls : call'[e].copy.doc \in held' /\ (Committed(call'[e]) => call'[e].doc \in held')
    BY <1>0, <1>1, <1>2, CallsStand
  <2>6. ResumeTypes'
    BY <1>2, <2>4, <2>5 DEF ResumeInv, ResumeTypes
  <2>7. CopiesAreHeld'
    BY <1>2, <2>3, <2>4, <2>5 DEF ResumeInv, CopiesAreHeld
  <2>8. OneSaveAtATime'
    <3>1. \A x \in Devices : device'[x].busy = device[x].busy /\ device'[x].out = device[x].out
      BY <2>3, <2>4
    <3>2. \A x \in Devices, e \in Calls : call'[e].by = x => call'[e] = call[e]
      BY <1>0, <1>1, <2>5
    <3> QED BY <1>2, <3>1, <3>2 DEF ResumeInv, OneSaveAtATime
  <2>9. CleanMeansSaved'
    BY <1>2, <2>3, <2>4 DEF ResumeInv, CleanMeansSaved
  <2> QED BY <1>2, <2>5, <2>6, <2>7, <2>8, <2>9 DEF ResumeInv
<1> QED BY <1>3, <1>4 DEF PollEnds

\* A call ends for its page, or for nobody.
LEMMA SaveAnswerHolds ==
  ASSUME ResumeInv, NEW c \in Calls, SaveAnswered(c)
  PROVE  ResumeInv'
<1> DEFINE next == Ended(c)
<1>1. /\ next \in Call /\ CallSound(next) /\ next.by = NoDevice
      /\ next.copy.doc \in held /\ ~Committed(next)
  BY EndedIsSound
<1>2. /\ Calling(c, next) /\ UNCHANGED <<second, profile, bounds, histories>>
      /\ call[c].at \in {"written", "done"}
  BY DEF SaveAnswered
<1>3. /\ held \subseteq Edits /\ profile \in Copy /\ profile.doc \in held /\ call[c] \in Call
      /\ call[c].copy.doc \in held /\ second \in Seconds /\ Committed(call[c]) /\ Saving(call[c])
      /\ call[c].doc \in held
  BY <1>2 DEF ResumeInv, ResumeTypes, CopiesAreHeld, Committed, Saving
<1>4. UNCHANGED <<second, profile, held, hasty, echoed, edits, reopens, repeats>>
  BY <1>2 DEF bounds, histories
<1> HIDE DEF next
<1>5. CASE call[c].by = NoDevice
  <2>1. UNCHANGED device
    BY <1>5 DEF SaveAnswered, PageAfter
  <2> QED BY <1>1, <1>2, <1>3, <1>4, <2>1, QuietCall
<1>6. CASE call[c].by # NoDevice
  <2> DEFINE d == call[c].by
             page == Accepted(device[d], call[c].copy)
             hurried == d \in hasty
  <2>1. d \in Devices /\ call[c].copy \in Copy
    BY <1>3, <1>6 DEF Call
  <2>2. Shows(d, [page EXCEPT !.busy = @ \ {call[c].kind}])
    BY <1>6 DEF SaveAnswered, PageAfter
  <2>3. device[d] \in Page /\ (hurried \/ device[d].dirty \/ device[d].doc \in held)
    BY <2>1 DEF ResumeInv, ResumeTypes, CleanMeansSaved
  <2>4. hurried \/ device[d].out \in held
    BY <1>3, <2>1 DEF ResumeInv, OneSaveAtATime
  <2>5. /\ page \in Page /\ page.busy = device[d].busy /\ page.out = device[d].out
        /\ page.seen.doc \in held /\ (hurried \/ page.dirty \/ page.doc \in held)
    <3> HIDE DEF d
    <3>1. hurried \in BOOLEAN
      OBVIOUS
    <3> HIDE DEF hurried
    <3> QED BY <1>3, <2>1, <2>3, <2>4, <3>1, AcceptedIsQuiet
  <2> HIDE DEF page
  <2> QED BY <1>1, <1>2, <1>3, <2>1, <2>2, <2>5, SaveEnds
<1> QED BY <1>5, <1>6

LEMMA FailureHolds ==
  ASSUME ResumeInv, NEW c \in Calls, NEW next \in Call, Calling(c, next), CallSound(next),
         next.copy.doc \in held, Committed(next) => next.doc \in held, next.by = NoDevice,
         Saving(call[c]), PageAfter(c, LAMBDA page : page), UNCHANGED <<second, profile, bounds, histories>>
  PROVE  ResumeInv'
<1>1. /\ held \subseteq Edits /\ profile \in Copy /\ profile.doc \in held /\ call[c] \in Call
  BY DEF ResumeInv, ResumeTypes, CopiesAreHeld
<1>2. UNCHANGED <<second, profile, held, hasty, echoed, edits, reopens, repeats>>
  BY DEF bounds, histories
<1>3. CASE call[c].by = NoDevice
  <2>1. UNCHANGED device
    BY <1>3 DEF PageAfter
  <2> QED BY <1>1, <1>2, <2>1, QuietCall
<1>4. CASE call[c].by # NoDevice
  <2> DEFINE d == call[c].by
             page == device[d]
  <2>1. d \in Devices
    BY <1>1, <1>4 DEF Call
  <2>2. Shows(d, [page EXCEPT !.busy = @ \ {call[c].kind}])
    BY <1>4 DEF PageAfter
  <2>3. page \in Page /\ (d \in hasty \/ page.dirty \/ page.doc \in held) /\ page.seen.doc \in held
    BY <2>1 DEF ResumeInv, ResumeTypes, CleanMeansSaved, CopiesAreHeld
  <2> QED BY <2>1, <2>2, <2>3, SaveEnds
<1> QED BY <1>3, <1>4

LEMMA SaveFailHolds ==
  ASSUME ResumeInv, NEW c \in Calls, SaveFails(c)
  PROVE  ResumeInv'
<1>1. /\ Ended(c) \in Call /\ CallSound(Ended(c)) /\ Ended(c).by = NoDevice
      /\ Ended(c).copy.doc \in held /\ ~Committed(Ended(c))
  BY EndedIsSound
<1>2. /\ call[c].at \notin {"free", "poll", "polled"} /\ PageAfter(c, LAMBDA page : page)
      /\ UNCHANGED <<second, profile, bounds, histories>>
  BY DEF SaveFails
<1>3. Saving(call[c])
  BY <1>2 DEF Saving
<1>4. CASE Calling(c, Ended(c))
  BY <1>1, <1>2, <1>3, <1>4, FailureHolds
<1>5. CASE Calling(c, [call[c] EXCEPT !.by = NoDevice])
  <2> DEFINE next == [call[c] EXCEPT !.by = NoDevice]
  <2>1. /\ call[c] \in Call /\ CallSound(call[c]) /\ call[c].copy.doc \in held
        /\ (Committed(call[c]) => call[c].doc \in held)
    BY DEF ResumeInv, ResumeTypes, CopiesAreHeld
  <2>2. /\ next \in Call /\ next.by = NoDevice /\ next.at = call[c].at /\ next.copy = call[c].copy
        /\ next.doc = call[c].doc /\ next.kind = call[c].kind /\ next.again = call[c].again
        /\ next.late = call[c].late /\ next.row = call[c].row /\ next.got = call[c].got
        /\ next.unclear = call[c].unclear
    BY <2>1 DEF Call
  <2> HIDE DEF next
  <2>3. CallSound(next) /\ (Committed(next) <=> Committed(call[c]))
    BY <2>1, <2>2 DEF CallSound, DocumentTells, RepeatTells, Committed
  <2>4. Calling(c, next)
    BY <1>5 DEF next
  <2> QED BY <1>2, <1>3, <2>1, <2>2, <2>3, <2>4, FailureHolds
<1> QED BY <1>4, <1>5 DEF SaveFails

LEMMA FailureAnswerHolds ==
  ASSUME ResumeInv, NEW c \in Calls, FailureAnswered(c)
  PROVE  ResumeInv'
<1>1. /\ Ended(c) \in Call /\ CallSound(Ended(c)) /\ Ended(c).by = NoDevice
      /\ Ended(c).copy.doc \in held /\ ~Committed(Ended(c))
  BY EndedIsSound
<1>2. /\ Calling(c, Ended(c)) /\ call[c].at \in {"failed", "written", "done"}
      /\ PageAfter(c, LAMBDA page : page) /\ UNCHANGED <<second, profile, bounds, histories>>
  BY DEF FailureAnswered
<1>3. Saving(call[c])
  BY <1>2 DEF Saving
<1> QED BY <1>1, <1>2, <1>3, FailureHolds

-----------------------------------------------------------------------------
\* The server's side: a call goes on as the call it is.
LEMMA ServerGoesOn ==
  ASSUME ResumeInv, NEW c \in Calls, NEW next \in Call, Calling(c, next), CallSound(next),
         held \subseteq held', held' \subseteq Edits, profile' \in Copy, profile'.doc \in held',
         next.copy.doc \in held', Committed(next) => next.doc \in held',
         next.by = call[c].by, next.kind = call[c].kind, next.doc = call[c].doc, Saving(call[c]),
         UNCHANGED <<second, device, edits, reopens, repeats, hasty, echoed>>
  PROVE  ResumeInv'
  BY QuietCall

\* A row, a request or a repeat that nobody has told of yet.
LEMMA ServerKeepsCopies ==
  ASSUME ResumeInv, NEW c \in Calls, NEW next \in Call, Calling(c, next), CallSound(next),
         next.copy = call[c].copy, Committed(next) => Committed(call[c]),
         next.by = call[c].by, next.kind = call[c].kind, next.doc = call[c].doc, Saving(call[c]),
         UNCHANGED <<second, profile, device, edits, reopens, histories>>, repeats' \in 0..MaxRepeats
  PROVE  ResumeInv'
<1>1. /\ held \subseteq Edits /\ profile \in Copy /\ profile.doc \in held
      /\ call[c].copy.doc \in held /\ (Committed(call[c]) => call[c].doc \in held)
  BY DEF ResumeInv, ResumeTypes, CopiesAreHeld
<1>2. UNCHANGED <<held, hasty, echoed>>
  BY DEF histories
<1>3. CASE UNCHANGED repeats
  BY <1>1, <1>2, <1>3, ServerGoesOn
<1>4. /\ call' \in [Calls -> Call]
      /\ call'[c] = next /\ (\A e \in Calls : e # c => call'[e] = call[e])
      /\ \A e \in Calls : CallSound(call'[e])
      /\ \A e \in Calls : call'[e].copy.doc \in held' /\ (Committed(call'[e]) => call'[e].doc \in held')
  BY <1>1, <1>2, CallsStand
<1>5. ResumeTypes' /\ CopiesAreHeld'
  BY <1>2, <1>4 DEF ResumeInv, ResumeTypes, CopiesAreHeld
<1>6. OneSaveAtATime'
  <2>1. \A e \in Calls : /\ call'[e].by = call[e].by /\ call'[e].kind = call[e].kind
                         /\ call'[e].doc = call[e].doc /\ (Saving(call'[e]) => Saving(call[e]))
    BY <1>4
  <2> QED BY <1>2, <2>1 DEF ResumeInv, OneSaveAtATime
<1> QED BY <1>2, <1>4, <1>5, <1>6 DEF ResumeInv, CleanMeansSaved

LEMMA PutHolds ==
  ASSUME ResumeInv, NEW c \in Calls, PutProfile(c)
  PROVE  ResumeInv'
<1> DEFINE copy == Stored(c)
           next == [call[c] EXCEPT !.at = "written", !.copy = copy]
<1>1. /\ call[c] \in Call /\ CallSound(call[c]) /\ call[c].at = "sent" /\ second \in Seconds
      /\ held \subseteq Edits
  BY DEF ResumeInv, ResumeTypes, PutProfile
<1>2. copy \in Copy /\ copy.doc = call[c].doc
  BY <1>1 DEF Copy, Stored, Call
<1>3. /\ profile' = copy /\ held' = held \cup {call[c].doc} /\ Calling(c, next)
      /\ UNCHANGED <<second, device, edits, reopens, repeats, hasty, echoed>>
  BY DEF PutProfile, bounds
<1> HIDE DEF copy
<1>4. /\ next \in Call /\ next.by = call[c].by /\ next.kind = call[c].kind /\ next.doc = call[c].doc
      /\ next.at = "written" /\ next.copy = copy /\ next.again = call[c].again
      /\ next.late = call[c].late /\ next.row = call[c].row /\ next.got = call[c].got
      /\ next.unclear = call[c].unclear
  BY <1>1, <1>2 DEF Call, CallPlaces
<1> HIDE DEF next
<1>5. CallSound(next)
  BY <1>1, <1>4 DEF CallSound, DocumentTells, RepeatTells
<1>6. Saving(call[c]) /\ call[c].doc \in Edits
  BY <1>1 DEF Saving, Call
<1> QED BY <1>1, <1>2, <1>3, <1>4, <1>5, <1>6, ServerGoesOn

LEMMA AgainHolds ==
  ASSUME ResumeInv, NEW c \in Calls, DeliverAgain(c)
  PROVE  ResumeInv'
<1> DEFINE late == call[c].at = "written"
           next == [call[c] EXCEPT !.again = "sent", !.late = late]
<1>1. /\ call[c] \in Call /\ CallSound(call[c]) /\ call[c].at \in {"sent", "written"}
      /\ repeats \in 0..MaxRepeats
  BY DEF ResumeInv, ResumeTypes, DeliverAgain
<1>2. /\ repeats < MaxRepeats /\ repeats' = repeats + 1 /\ Calling(c, next)
      /\ UNCHANGED <<second, profile, device, edits, reopens, histories>>
  BY DEF DeliverAgain
<1>3. late \in BOOLEAN
  OBVIOUS
<1>4. /\ next \in Call /\ next.by = call[c].by /\ next.kind = call[c].kind /\ next.doc = call[c].doc
      /\ next.at = call[c].at /\ next.copy = call[c].copy /\ next.again = "sent"
      /\ next.late = late /\ next.row = call[c].row /\ next.got = call[c].got
      /\ next.unclear = call[c].unclear
  <2> HIDE DEF late
  <2> QED BY <1>1, <1>3 DEF Call
<1> HIDE DEF next
<1>5. CallSound(next) /\ (Committed(next) => Committed(call[c]))
  BY <1>1, <1>4 DEF CallSound, DocumentTells, RepeatTells, Committed
<1>6. Saving(call[c]) /\ repeats' \in 0..MaxRepeats
  BY <1>1, <1>2, ResumeBounds DEF Saving
<1> QED BY <1>2, <1>4, <1>5, <1>6, ServerKeepsCopies

\* The call is forgotten.
LEMMA ForgottenHolds ==
  ASSUME ResumeInv, NEW c \in Calls, Calling(c, NoCall), held \subseteq held', held' \subseteq Edits,
         profile' \in Copy, profile'.doc \in held',
         UNCHANGED <<second, device, edits, reopens, repeats, hasty, echoed>>
  PROVE  ResumeInv'
<1>0. 0 \in Edits /\ 0 \in Seconds /\ 0 \in held'
  BY ResumeAssumption DEF ResumeInv, CopiesAreHeld, Edits, Seconds
<1>1. NoCall \in Call
  BY <1>0 DEF Call, CallPlaces, NoCall, NoCopy, Copy, Kinds
<1>2. CallSound(NoCall) /\ NoCall.copy.doc = 0 /\ ~Committed(NoCall) /\ NoCall.by = NoDevice
  BY DEF NoCall, CallSound, DocumentTells, RepeatTells, Committed, NoCopy
<1> QED BY <1>0, <1>1, <1>2, QuietCall

\* A repeat that finds no answer came before the commit, or is an autosave.
LEMMA LookHolds ==
  ASSUME ResumeInv, NEW c \in Calls, LookForAnswer(c)
  PROVE  ResumeInv'
<1>1. /\ call[c] \in Call /\ CallSound(call[c]) /\ call[c].again = "sent"
      /\ held \subseteq Edits /\ profile \in Copy /\ profile.doc \in held /\ repeats \in 0..MaxRepeats
  BY DEF ResumeInv, ResumeTypes, CopiesAreHeld, LookForAnswer
<1>2. /\ UNCHANGED <<second, profile, device, edits, reopens, repeats, histories>>
      /\ UNCHANGED <<held, hasty, echoed>>
  BY DEF LookForAnswer, bounds, histories
<1>3. CASE Calling(c, NoCall)
  BY <1>1, <1>2, <1>3, ForgottenHolds
<1>4. ASSUME NEW again \in {"read", "none"}, Calling(c, [call[c] EXCEPT !.again = again]),
             again = "read" => ~AnswerIsKept(c), call[c].at \notin {"free", "poll", "polled"}
      PROVE  ResumeInv'
  <2> DEFINE next == [call[c] EXCEPT !.again = again]
  <2>1. /\ next \in Call /\ next.by = call[c].by /\ next.kind = call[c].kind /\ next.doc = call[c].doc
        /\ next.at = call[c].at /\ next.copy = call[c].copy /\ next.again = again
        /\ next.late = call[c].late /\ next.row = call[c].row /\ next.got = call[c].got
        /\ next.unclear = call[c].unclear
    BY <1>1 DEF Call
  <2>2. Calling(c, next)
    BY <1>4
  <2> HIDE DEF next
  <2>3. CallSound(next) /\ (Committed(next) => Committed(call[c]))
    BY <1>1, <1>4, <2>1 DEF CallSound, DocumentTells, RepeatTells, Committed, AnswerIsKept
  <2>4. Saving(call[c])
    BY <1>4 DEF Saving
  <2> QED BY <1>1, <1>2, <2>1, <2>2, <2>3, <2>4, ServerKeepsCopies
<1>5. call[c].at \notin {"free", "poll", "polled"}
  BY <1>1 DEF CallSound, RepeatTells
<1>6. \/ Calling(c, NoCall)
      \/ Calling(c, [call[c] EXCEPT !.again = "none"])
      \/ ~AnswerIsKept(c) /\ Calling(c, [call[c] EXCEPT !.again = "read"])
  BY DEF LookForAnswer
<1> QED BY <1>3, <1>4, <1>5, <1>6

LEMMA PutAgainHolds ==
  ASSUME ResumeInv, NEW c \in Calls, PutAgain(c)
  PROVE  ResumeInv'
<1> DEFINE copy == Stored(c)
           next == [call[c] EXCEPT !.again = "none"]
<1>1. /\ call[c] \in Call /\ CallSound(call[c]) /\ call[c].again = "read" /\ second \in Seconds
      /\ held \subseteq Edits /\ echoed = FALSE /\ call[c].copy.doc \in held
  BY DEF ResumeInv, ResumeTypes, CopiesAreHeld, PutAgain
<1>2. copy \in Copy /\ copy.doc = call[c].doc /\ call[c].doc \in Edits
  BY <1>1 DEF Copy, Stored, Call
<1>3. /\ profile' = copy /\ held' = held \cup {call[c].doc}
      /\ Calling(c, NoCall) \/ Calling(c, next)
      /\ UNCHANGED <<second, device, edits, reopens, repeats, hasty>>
  BY DEF PutAgain, bounds
<1>4. echoed' = echoed
  <2>1. ~(call[c].late /\ call[c].kind # "autosave")
    BY <1>1 DEF CallSound, RepeatTells
  <2>2. echoed' = (echoed \/ (call[c].late /\ call[c].kind # "autosave"))
    BY DEF PutAgain
  <2> QED BY <1>1, <2>1, <2>2
<1> HIDE DEF copy
<1>5. CASE Calling(c, NoCall)
  BY <1>1, <1>2, <1>3, <1>4, <1>5, ForgottenHolds
<1>6. CASE Calling(c, next)
  <2>1. /\ next \in Call /\ next.by = call[c].by /\ next.kind = call[c].kind /\ next.doc = call[c].doc
        /\ next.at = call[c].at /\ next.copy = call[c].copy /\ next.again = "none"
        /\ next.late = call[c].late /\ next.row = call[c].row /\ next.got = call[c].got
        /\ next.unclear = call[c].unclear
    BY <1>1 DEF Call
  <2> HIDE DEF next
  <2>2. CallSound(next) /\ Saving(call[c])
    BY <1>1, <2>1 DEF CallSound, DocumentTells, RepeatTells, Saving
  <2> QED BY <1>1, <1>2, <1>3, <1>4, <1>6, <2>1, <2>2, ServerGoesOn
<1> QED BY <1>3, <1>5, <1>6

LEMMA GetHolds ==
  ASSUME ResumeInv, NEW c \in Calls, GetProfile(c)
  PROVE  ResumeInv'
<1> DEFINE next == [call[c] EXCEPT !.at = "polled", !.copy = profile]
<1>1. /\ call[c] \in Call /\ CallSound(call[c]) /\ call[c].at = "poll"
      /\ held \subseteq Edits /\ profile \in Copy /\ profile.doc \in held
  BY DEF ResumeInv, ResumeTypes, CopiesAreHeld, GetProfile
<1>2. /\ Calling(c, next) /\ UNCHANGED <<second, profile, device, edits, reopens, repeats, histories>>
      /\ UNCHANGED <<held, hasty, echoed>>
  BY DEF GetProfile, bounds, histories
<1>3. /\ next \in Call /\ next.by = call[c].by /\ next.kind = call[c].kind /\ next.doc = call[c].doc
      /\ next.at = "polled" /\ next.copy = profile /\ next.again = call[c].again
      /\ next.late = call[c].late /\ next.row = call[c].row /\ next.got = call[c].got
      /\ next.unclear = call[c].unclear
  BY <1>1 DEF Call, CallPlaces
<1> HIDE DEF next
<1>4. CallSound(next) /\ ~Committed(next) /\ ~Saving(next)
  BY <1>1, <1>3 DEF CallSound, DocumentTells, RepeatTells, Committed, Saving
<1> QED BY <1>1, <1>2, <1>3, <1>4, QuietCall

-----------------------------------------------------------------------------
\* The document: no row is written and no answer sent that Telegram contradicts.
LEMMA DocumentGoesOn ==
  ASSUME ResumeInv, NEW c \in Calls, NEW next \in Call, Calling(c, next),
         next.copy = call[c].copy, next.by = call[c].by, next.kind = call[c].kind,
         next.doc = call[c].doc, next.again = call[c].again, next.late = call[c].late,
         Committed(call[c]), Committed(next), DocumentTells(next),
         UNCHANGED <<second, profile, device, bounds, histories>>
  PROVE  ResumeInv'
<1>1. CallSound(call[c]) /\ repeats \in 0..MaxRepeats
  BY DEF ResumeInv, ResumeTypes
<1>2. CallSound(next) /\ Saving(call[c])
  BY <1>1 DEF CallSound, RepeatTells, Committed, Saving
<1> QED BY <1>1, <1>2, ServerKeepsCopies DEF bounds

LEMMA BeginHolds ==
  ASSUME ResumeInv, NEW c \in Calls, BeginDocument(c)
  PROVE  ResumeInv'
<1> DEFINE next == [call[c] EXCEPT !.at = "rendering", !.row = "pending"]
<1>1. /\ call[c] \in Call /\ DocumentTells(call[c]) /\ call[c].at = "written" /\ Calling(c, next)
      /\ UNCHANGED <<second, profile, device, bounds, histories>>
  BY DEF ResumeInv, ResumeTypes, BeginDocument, CallSound
<1>2. /\ next \in Call /\ next.by = call[c].by /\ next.kind = call[c].kind /\ next.doc = call[c].doc
      /\ next.at = "rendering" /\ next.copy = call[c].copy /\ next.again = call[c].again
      /\ next.late = call[c].late /\ next.row = "pending" /\ next.got = call[c].got
      /\ next.unclear = call[c].unclear
  BY <1>1 DEF Call, CallPlaces
<1> HIDE DEF next
<1>3. Committed(call[c]) /\ Committed(next) /\ DocumentTells(next)
  BY <1>1, <1>2 DEF Committed, DocumentTells
<1> QED BY <1>1, <1>2, <1>3, DocumentGoesOn

LEMMA RenderHolds ==
  ASSUME ResumeInv, NEW c \in Calls, RenderPdf(c)
  PROVE  ResumeInv'
<1>1. PICK at \in {"sending", "undelivered"} : Calling(c, [call[c] EXCEPT !.at = at])
  BY DEF RenderPdf
<1> DEFINE next == [call[c] EXCEPT !.at = at]
<1>2. /\ call[c] \in Call /\ DocumentTells(call[c]) /\ call[c].at = "rendering" /\ Calling(c, next)
      /\ UNCHANGED <<second, profile, device, bounds, histories>>
  BY <1>1 DEF ResumeInv, ResumeTypes, RenderPdf, CallSound
<1>3. /\ next \in Call /\ next.by = call[c].by /\ next.kind = call[c].kind /\ next.doc = call[c].doc
      /\ next.at = at /\ next.copy = call[c].copy /\ next.again = call[c].again
      /\ next.late = call[c].late /\ next.row = call[c].row /\ next.got = call[c].got
      /\ next.unclear = call[c].unclear
  BY <1>2 DEF Call, CallPlaces
<1> HIDE DEF next
<1>4. Committed(call[c]) /\ Committed(next) /\ DocumentTells(next)
  BY <1>2, <1>3 DEF Committed, DocumentTells
<1> QED BY <1>2, <1>3, <1>4, DocumentGoesOn

\* A request is repeated when nothing arrived, or when nobody knows.
LEMMA AskHolds ==
  ASSUME ResumeInv, NEW c \in Calls, NEW reply \in Replies, AskTelegram(c, reply)
  PROVE  ResumeInv'
<1>1. PICK got \in {0, 1} :
        /\ reply \in {"no", "down"} => got = 0
        /\ reply = "ok" => got = 1
        /\ Calling(c, [call[c] EXCEPT !.asked = @ + 1, !.got = @ + got,
                         !.unclear = @ \/ reply \in {"lost", "garbled"},
                         !.at = IF AskedAgain(c, reply) THEN "sending"
                                ELSE IF reply = "ok" THEN "delivered"
                                ELSE IF reply = "garbled" THEN "failed"
                                ELSE "undelivered"])
  BY DEF AskTelegram
<1> DEFINE unclear == call[c].unclear \/ reply \in {"lost", "garbled"}
           at == IF AskedAgain(c, reply) THEN "sending"
                 ELSE IF reply = "ok" THEN "delivered"
                 ELSE IF reply = "garbled" THEN "failed"
                 ELSE "undelivered"
           asked == call[c].asked + 1
           total == call[c].got + got
           next == [call[c] EXCEPT !.asked = asked, !.got = total, !.unclear = unclear, !.at = at]
<1>2. /\ call[c] \in Call /\ DocumentTells(call[c]) /\ call[c].at = "sending" /\ Calling(c, next)
      /\ UNCHANGED <<second, profile, device, bounds, histories>>
  BY <1>1 DEF ResumeInv, ResumeTypes, AskTelegram, CallSound
<1>3. /\ unclear \in BOOLEAN /\ at \in {"sending", "delivered", "failed", "undelivered"}
      /\ (call[c].unclear => unclear) /\ (reply \in {"lost", "garbled"} => unclear)
      /\ (at = "delivered" <=> reply = "ok") /\ (at = "failed" => reply = "garbled")
      /\ (at \in {"sending", "undelivered"} => reply \in {"no", "down", "lost"})
  BY DEF Replies, AskedAgain
<1>4. call[c].got \in Nat /\ asked \in Nat /\ total \in Nat
  BY <1>2 DEF Call
<1> HIDE DEF at, unclear, asked, total
<1>5. /\ next \in Call /\ next.by = call[c].by /\ next.kind = call[c].kind /\ next.doc = call[c].doc
      /\ next.at = at /\ next.copy = call[c].copy /\ next.again = call[c].again
      /\ next.late = call[c].late /\ next.row = call[c].row /\ next.got = total
      /\ next.unclear = unclear
  BY <1>2, <1>3, <1>4 DEF Call, CallPlaces
<1> HIDE DEF next
<1>6. call[c].row = "pending" /\ (call[c].got = 0 \/ call[c].unclear)
  BY <1>2 DEF DocumentTells
<1>7. DocumentTells(next)
  BY <1>1, <1>3, <1>4, <1>5, <1>6 DEF DocumentTells, total
<1>8. Committed(call[c]) /\ Committed(next)
  BY <1>2, <1>3, <1>5 DEF Committed
<1> QED BY <1>2, <1>5, <1>7, <1>8, DocumentGoesOn

LEMMA EndHolds ==
  ASSUME ResumeInv, NEW c \in Calls, EndDocument(c)
  PROVE  ResumeInv'
<1> DEFINE arrived == call[c].at = "delivered"
           at == IF arrived THEN "done" ELSE "failed"
<1>1. PICK row \in {"pending", IF arrived THEN "completed" ELSE "failed"} :
        Calling(c, [call[c] EXCEPT !.row = row, !.at = at])
  BY DEF EndDocument, RecordResult
<1> DEFINE next == [call[c] EXCEPT !.row = row, !.at = at]
<1>2. /\ call[c] \in Call /\ DocumentTells(call[c]) /\ call[c].at \in {"delivered", "undelivered"}
      /\ Calling(c, next) /\ UNCHANGED <<second, profile, device, bounds, histories>>
  BY <1>1 DEF ResumeInv, ResumeTypes, EndDocument, CallSound
<1>3. /\ at \in {"done", "failed"} /\ row \in {"pending", "completed", "failed"}
      /\ (at = "done" <=> arrived) /\ (row = "completed" => arrived) /\ (row = "failed" => ~arrived)
  BY <1>1
<1> HIDE DEF at
<1>4. /\ next \in Call /\ next.by = call[c].by /\ next.kind = call[c].kind /\ next.doc = call[c].doc
      /\ next.at = at /\ next.copy = call[c].copy /\ next.again = call[c].again
      /\ next.late = call[c].late /\ next.row = row /\ next.got = call[c].got
      /\ next.unclear = call[c].unclear
  BY <1>2, <1>3 DEF Call, CallPlaces
<1> HIDE DEF next
<1>5. Committed(call[c]) /\ Committed(next) /\ DocumentTells(next)
  BY <1>2, <1>3, <1>4 DEF Committed, DocumentTells
<1> QED BY <1>2, <1>4, <1>5, DocumentGoesOn

-----------------------------------------------------------------------------
LEMMA ResumeBegins == ResumeInit => ResumeInv
<1> SUFFICES ASSUME ResumeInit PROVE ResumeInv
  OBVIOUS
<1>1. /\ 0 \in Edits /\ 0 \in Seconds /\ 0 \in 0..MaxReopens /\ 0 \in 0..MaxRepeats
  BY ResumeBounds DEF Edits, Seconds
<1>2. /\ NewPage \in Page /\ NewPage.seen = NoCopy /\ NewPage.doc = 0 /\ NoCopy \in Copy /\ NoCopy.doc = 0
  BY <1>1 DEF NewPage, Page, NoCopy, Copy
<1>3. /\ NoCall \in Call /\ NoCall.copy = NoCopy /\ NoCall.by = NoDevice
      /\ CallSound(NoCall) /\ ~Committed(NoCall)
  BY <1>1 DEF Call, CallPlaces, NoCall, NoCopy, Copy, Kinds,
     CallSound, DocumentTells, RepeatTells, Committed
<1>4. /\ device = [d \in Devices |-> NewPage] /\ call = [c \in Calls |-> NoCall]
      /\ profile = NoCopy /\ held = {0} /\ hasty = {} /\ echoed = FALSE
      /\ edits = 0 /\ reopens = 0 /\ repeats = 0 /\ second = 1
  BY DEF ResumeInit
<1>5. \A c \in Calls : call[c] = NoCall
  BY <1>4
<1>6. \A d \in Devices : device[d] = NewPage
  BY <1>4
<1>7. ResumeTypes
  <2>1. second \in Seconds
    BY <1>4, ResumeAssumption DEF Seconds
  <2> QED BY <1>1, <1>2, <1>3, <1>4, <2>1 DEF ResumeTypes
<1>8. CopiesAreHeld
  BY <1>2, <1>3, <1>4, <1>5, <1>6 DEF CopiesAreHeld
<1>9. OneSaveAtATime
  BY <1>3, <1>5, ResumeAssumption DEF OneSaveAtATime
<1>10. CleanMeansSaved
  BY <1>2, <1>4, <1>6 DEF CleanMeansSaved
<1> QED BY <1>3, <1>4, <1>5, <1>7, <1>8, <1>9, <1>10 DEF ResumeInv

LEMMA ResumeHolds == ResumeInv /\ [ResumeNext]_resumeVars => ResumeInv'
<1> SUFFICES ASSUME ResumeInv, [ResumeNext]_resumeVars PROVE ResumeInv'
  OBVIOUS
<1>1. CASE Tick
  <2>1. /\ second' = second + 1 /\ second < MaxSecond /\ second \in Seconds
        /\ UNCHANGED <<profile, device, call, edits, reopens, repeats, held, hasty, echoed>>
    BY <1>1 DEF Tick, bounds, histories, ResumeInv, ResumeTypes
  <2>2. second' \in Seconds
    BY <2>1, ResumeBounds DEF Seconds
  <2>3. ResumeTypes'
    BY <2>1, <2>2 DEF ResumeInv, ResumeTypes
  <2> QED BY <2>1, <2>3 DEF ResumeInv, CopiesAreHeld, OneSaveAtATime, CleanMeansSaved
<1>2. ASSUME NEW d \in Devices, PageStep(d) PROVE ResumeInv'
  <2>1. CASE EditDraft(d) \/ Decide(d) \/ Reopen(d)
    BY <2>1, EditHolds, DecideHolds, ReopenHolds
  <2>2. ASSUME NEW c \in Calls, Autosave(d, c) PROVE ResumeInv'
    <3>1. Persist(d, c, "autosave") /\ "autosave" \in Kinds
      BY <2>2 DEF Autosave, Kinds
    <3> QED BY <3>1, PersistHolds
  <2>3. ASSUME NEW c \in Calls, NEW kind \in {"save", "send"}, PressButton(d, c, kind) PROVE ResumeInv'
    <3>1. Persist(d, c, kind) /\ kind \in Kinds
      BY <2>3 DEF PressButton, Kinds
    <3> QED BY <3>1, PersistHolds
  <2> QED BY <1>2, <2>1, <2>2, <2>3, PollHolds DEF PageStep
<1>3. ASSUME NEW c \in Calls, CallStep(c) PROVE ResumeInv'
  BY <1>3, SaveAnswerHolds, SaveFailHolds, PollEndHolds, PutHolds, AgainHolds, LookHolds, PutAgainHolds,
     GetHolds, BeginHolds, RenderHolds, EndHolds, FailureAnswerHolds, AskHolds DEF CallStep
<1>4. CASE UNCHANGED resumeVars
  BY <1>4 DEF resumeVars, ResumeInv, ResumeTypes, CopiesAreHeld, OneSaveAtATime, CleanMeansSaved
<1> QED BY <1>1, <1>2, <1>3, <1>4 DEF ResumeNext

THEOREM ResumesAreSound == ResumeSpec => []ResumeInv
<1>1. ResumeInit => ResumeInv
  BY ResumeBegins
<1>2. ResumeInv /\ [ResumeNext]_resumeVars => ResumeInv'
  BY ResumeHolds
<1> QED BY <1>1, <1>2, PTL DEF ResumeSpec

\* For any number of devices, calls and edits: a page that says "saved" shows a
\* resume the server has held, a document's row and its answer agree with what
\* Telegram got, and a save that is delivered again is not done again.
THEOREM ResumesKept == ResumeSpec => []ResumesAreKept
<1>1. ResumeInv => ResumesAreKept
  BY DEF ResumeInv, ResumesAreKept, ExportsAreTrue, CallSound, DocumentTells
<1> QED BY <1>1, ResumesAreSound, PTL
=============================================================================
