------------------------------ MODULE AutoPost ------------------------------
(***************************************************************************)
(* Posting vacancies to the channel (src/functions/auto_post_scheduler.py) *)
(* by two tasks of the bot's event loop: the scheduler, which serves the   *)
(* slots of the day, and the job "post now" an admin asks for, with or     *)
(* without naming a vacancy. Both share the settings cache of              *)
(* src/db/settings.py, in which the day's schedule lives.                  *)
(*                                                                         *)
(* Every await is a point where the other task moves. The reads of one     *)
(* pick are one step. One day is modelled, so a slot is never rebuilt and  *)
(* nothing leaves the 30 days of posted_vacancies. Vacancies are named,    *)
(* with their salary and quality already sufficient; `fresh` are those the *)
(* store offers, Cached those of the fallback vacancy_cache. Of two posts  *)
(* that overlap, the one recorded later counts as the later one.           *)
(***************************************************************************)
EXTENDS Integers, Sequences, FiniteSets, SequencesExt

CONSTANTS Vacancies,    \* vacancies.uid
          Cached,       \* the uids in vacancy_cache
          Employer,     \* Employer[v]: vacancies.employer_key
          Group,        \* Group[v]: vacancies.dedup_group
          Source,       \* Source[v]: vacancies.source
          Slots,        \* the day's slots, in order
          MaxPosts,     \* bound: an admin asks for a post while there are fewer messages
          MaxFaults,    \* bound: cancelled tasks and failed sends and writes
          NoVacancy, NoSlot, NoSchedule

ASSUME AutoPostAssumption ==
    /\ Cached \subseteq Vacancies
    /\ Slots \subseteq Nat
    /\ MaxPosts \in Nat /\ MaxFaults \in Nat
    /\ NoVacancy \notin Vacancies /\ NoSlot \notin Slots

VARIABLES fresh,     \* open vacancies the store offers
          posted,    \* posted_vacancies of the channel, oldest first
          logged,    \* logged[v]: the `sent` rows of auto_post_log
          channel,   \* what was posted to the channel (Telegram)
          schedule,  \* schedule[s]: the slot is done, as stored
          cache,     \* the schedule in the settings cache
          clock,     \* clock[s]: how the slot's time relates to now
          task,      \* task[t]: where the task is
          faults,    \* how many faults have happened
          reopened   \* history: done slots that a late reader put back into the cache

vars == <<fresh, posted, logged, channel, schedule, cache, clock, task, faults, reopened>>

-----------------------------------------------------------------------------
Tasks == {"tick", "now"}

Schedule == [Slots -> BOOLEAN]

Message == [uid: Vacancies, by: {"store", "cache", "asked"}, slot: Slots \cup {NoSlot},
            alone: BOOLEAN]

\* `row`: the schedule the task has read; `uid`, `by`: its pick; `alone`: no
\* other task had picked a vacancy it had not recorded yet.
Task == [pc: {"idle", "store", "plan", "pick", "send", "record", "skip", "save"},
         row: Schedule \cup {NoSchedule}, slot: Slots \cup {NoSlot},
         uid: Vacancies \cup {NoVacancy}, by: {"none", "store", "cache", "asked"},
         alone: BOOLEAN]

Idle == [pc |-> "idle", row |-> NoSchedule, slot |-> NoSlot, uid |-> NoVacancy,
         by |-> "none", alone |-> FALSE]

AutoPostTypeOK ==
    /\ fresh \subseteq Vacancies
    /\ posted \in Seq(Vacancies) /\ IsInjective(posted)
    /\ logged \in [Vacancies -> Nat]
    /\ channel \in Seq(Message)
    /\ schedule \in Schedule
    /\ cache \in Schedule \cup {NoSchedule}
    /\ clock \in [Slots -> {"future", "due", "stale"}]
    /\ task \in [Tasks -> Task]
    /\ faults \in 0..MaxFaults /\ reopened \subseteq Slots

Init ==
    /\ fresh = Vacancies
    /\ posted = <<>>
    /\ logged = [v \in Vacancies |-> 0]
    /\ channel = <<>>
    /\ schedule = [s \in Slots |-> FALSE]
    /\ cache = NoSchedule
    /\ clock = [s \in Slots |-> "future"]
    /\ task = [t \in Tasks |-> Idle]
    /\ faults = 0 /\ reopened = {}

Step(t, now) == task' = [task EXCEPT ![t] = now]

-----------------------------------------------------------------------------
(***************************************************************************)
(* Reading the settings.                                                   *)
(***************************************************************************)

\* The scheduler uses the cache where there is one.
UseCache ==
    /\ task["tick"].pc = "idle"
    /\ cache # NoSchedule
    /\ Step("tick", [Idle EXCEPT !.pc = "plan", !.row = cache])
    /\ UNCHANGED <<fresh, posted, logged, channel, schedule, cache, clock, faults, reopened>>

\* Otherwise the row is read; post-now always reads it (force) ...
ReadSettings(t, asked) ==
    /\ task[t].pc = "idle"
    /\ IF t = "tick"
       THEN cache = NoSchedule /\ asked = NoVacancy
       ELSE Len(channel) < MaxPosts
    /\ Step(t, [Idle EXCEPT !.pc = "store", !.row = schedule, !.uid = asked])
    /\ UNCHANGED <<fresh, posted, logged, channel, schedule, cache, clock, faults, reopened>>

\* ... and becomes the cache, whatever has been written since.
StoreCache(t) ==
    /\ task[t].pc = "store"
    /\ cache' = task[t].row
    /\ Step(t, IF t = "tick" THEN [task[t] EXCEPT !.pc = "plan"]
               ELSE [Idle EXCEPT !.pc = "pick", !.uid = task[t].uid])
    /\ reopened' = reopened \cup {s \in Slots : schedule[s] /\ ~task[t].row[s]}
    /\ UNCHANGED <<fresh, posted, logged, channel, schedule, clock, faults>>

\* The cache is a minute old, or an admin has changed the settings.
CacheExpires ==
    /\ cache # NoSchedule
    /\ cache' = NoSchedule
    /\ UNCHANGED <<fresh, posted, logged, channel, schedule, clock, task, faults, reopened>>

-----------------------------------------------------------------------------
(***************************************************************************)
(* The scheduler's slots.                                                  *)
(***************************************************************************)
Open(row, ages) == {s \in Slots : ~row[s] /\ clock[s] \in ages}

\* Mutant: done slots are looked at too.
DueAgain(row) == {s \in Slots : clock[s] = "due"}

Due(row) == Open(row, {"due"})

\* Slots that are hours late are closed without a post ...
CloseStale ==
    LET row == task["tick"].row
        closed == [s \in Slots |-> row[s] \/ clock[s] = "stale"]
    IN
    /\ task["tick"].pc = "plan"
    /\ Open(row, {"stale"}) # {}
    /\ schedule' = closed
    /\ cache' = NoSchedule
    /\ Step("tick", [task["tick"] EXCEPT !.row = closed])
    /\ UNCHANGED <<fresh, posted, logged, channel, clock, faults, reopened>>

\* ... the first due one is served ...
ServeSlot(s) ==
    /\ task["tick"].pc = "plan"
    /\ Open(task["tick"].row, {"stale"}) = {}
    /\ s \in Due(task["tick"].row)
    /\ \A x \in Due(task["tick"].row) : s <= x
    /\ Step("tick", [task["tick"] EXCEPT !.pc = "pick", !.slot = s])
    /\ UNCHANGED <<fresh, posted, logged, channel, schedule, cache, clock, faults, reopened>>

\* ... or there is none.
NothingDue ==
    /\ task["tick"].pc = "plan"
    /\ Open(task["tick"].row, {"stale"}) = {} /\ Due(task["tick"].row) = {}
    /\ Step("tick", Idle)
    /\ UNCHANGED <<fresh, posted, logged, channel, schedule, cache, clock, faults, reopened>>

\* _save_schedule writes the schedule the task has read, with its slot done,
\* and invalidates the cache.
SaveSchedule ==
    /\ task["tick"].pc = "save"
    /\ schedule' = [task["tick"].row EXCEPT ![task["tick"].slot] = TRUE]
    /\ cache' = NoSchedule
    /\ Step("tick", Idle)
    /\ UNCHANGED <<fresh, posted, logged, channel, clock, faults, reopened>>

-----------------------------------------------------------------------------
(***************************************************************************)
(* pick_and_post.                                                          *)
(***************************************************************************)
IsPosted(v) == v \in ToSet(posted)

GroupPosted(v) == \E w \in ToSet(posted) : Group[w] = Group[v]

Recent(n) == posted[Len(posted) + 1 - n]

\* The last two posts are of this employer.
EmployerBlocked(v) ==
    Len(posted) >= 2 /\ \A n \in 1..2 : Employer[Recent(n)] = Employer[v]

Eligible == {v \in fresh : ~IsPosted(v) /\ ~GroupPosted(v) /\ ~EmployerBlocked(v)}

OtherSource == {v \in Eligible : posted # <<>> /\ Source[v] # Source[Recent(1)]}

\* _pick_from_store alternates the sources where it can.
StorePicks == IF OtherSource # {} THEN OtherSource ELSE Eligible

\* _pick_unposted_vacancy, when the store has nothing fresh at all.
CachePicks == {v \in Cached : ~IsPosted(v)}

By(t) == IF task[t].uid # NoVacancy THEN "asked"
         ELSE IF fresh # {} THEN "store" ELSE "cache"

Picks(t) == CASE By(t) = "asked" -> {task[t].uid}
              [] By(t) = "store" -> StorePicks
              [] By(t) = "cache" -> CachePicks

Alone(t) == \A x \in Tasks \ {t} : task[x].pc \notin {"send", "record"}

Pick(t, v) ==
    /\ task[t].pc = "pick"
    /\ v \in Picks(t)
    /\ Step(t, [task[t] EXCEPT !.pc = "send", !.uid = v, !.by = By(t), !.alone = Alone(t)])
    /\ UNCHANGED <<fresh, posted, logged, channel, schedule, cache, clock, faults, reopened>>

\* Mutant: the slot stays open.
OverOpen(t) == Idle

\* Where a poster goes when its attempt is over: the scheduler closes its slot.
Over(t) ==
    IF t = "tick"
    THEN [Idle EXCEPT !.pc = "save", !.row = task[t].row, !.slot = task[t].slot]
    ELSE Idle

\* Nothing to post, or no trace of the vacancy asked for: a `skipped` row.
Skip(t) ==
    /\ task[t].pc = "pick"
    /\ Picks(t) = {} \/ By(t) = "asked"
    /\ Step(t, Over(t))
    /\ UNCHANGED <<fresh, posted, logged, channel, schedule, cache, clock, faults, reopened>>

Posted(t) ==
    Append(channel, [uid |-> task[t].uid, by |-> task[t].by, slot |-> task[t].slot,
                     alone |-> task[t].alone])

Send(t) ==
    /\ task[t].pc = "send"
    /\ channel' = Posted(t)
    /\ Step(t, [task[t] EXCEPT !.pc = "record"])
    /\ UNCHANGED <<fresh, posted, logged, schedule, cache, clock, faults, reopened>>

\* INSERT OR REPLACE INTO posted_vacancies.
PostedNow(uid) == Append(RemoveFirst(posted, uid), uid)

\* Mutant: the post is logged and not recorded.
RecordLogOnly(t) ==
    /\ logged' = [logged EXCEPT ![task[t].uid] = @ + 1]
    /\ posted' = posted

\* The row of posted_vacancies and the `sent` row, in one commit.
RecordPost(t) ==
    /\ logged' = [logged EXCEPT ![task[t].uid] = @ + 1]
    /\ posted' = PostedNow(task[t].uid)

Record(t) ==
    /\ task[t].pc = "record"
    /\ RecordPost(t)
    /\ Step(t, Over(t))
    /\ UNCHANGED <<fresh, channel, schedule, cache, clock, faults, reopened>>

-----------------------------------------------------------------------------
(***************************************************************************)
(* Faults, and the world.                                                  *)
(***************************************************************************)
Fault == faults < MaxFaults /\ faults' = faults + 1

\* The send fails, with or without a message in the channel; a `failed` row.
SendFails(t, arrived) ==
    /\ task[t].pc = "send"
    /\ channel' = IF arrived THEN Posted(t) ELSE channel
    /\ Step(t, Over(t))
    /\ Fault
    /\ UNCHANGED <<fresh, posted, logged, schedule, cache, clock, reopened>>

\* The record cannot be written: a `failed` row for a message that was sent,
\* which commits what was recorded before the error.
RecordFails(t, recorded) ==
    /\ task[t].pc = "record"
    /\ posted' = IF recorded THEN PostedNow(task[t].uid) ELSE posted
    /\ Step(t, Over(t))
    /\ Fault
    /\ UNCHANGED <<fresh, logged, channel, schedule, cache, clock, reopened>>

\* The task is cancelled (the job's timeout, a shutdown), fails or dies.
Abort(t) ==
    /\ task[t].pc # "idle"
    /\ Step(t, Idle)
    /\ Fault
    /\ UNCHANGED <<fresh, posted, logged, channel, schedule, cache, clock, reopened>>

\* A vacancy is closed, or too old to be posted.
Close(v) ==
    /\ v \in fresh
    /\ fresh' = fresh \ {v}
    /\ UNCHANGED <<posted, logged, channel, schedule, cache, clock, task, faults, reopened>>

SlotFallsDue(s) ==
    /\ clock[s] = "future"
    /\ \A x \in Slots : x < s => clock[x] # "future"
    /\ clock' = [clock EXCEPT ![s] = "due"]
    /\ UNCHANGED <<fresh, posted, logged, channel, schedule, cache, task, faults, reopened>>

SlotGrowsStale(s) ==
    /\ clock[s] = "due"
    /\ \A x \in Slots : x < s => clock[x] = "stale"
    /\ clock' = [clock EXCEPT ![s] = "stale"]
    /\ UNCHANGED <<fresh, posted, logged, channel, schedule, cache, task, faults, reopened>>

-----------------------------------------------------------------------------
Post(t) == (\E v \in Vacancies : Pick(t, v)) \/ Skip(t) \/ Send(t) \/ Record(t)

SchedulerStep ==
    \/ UseCache \/ ReadSettings("tick", NoVacancy) \/ StoreCache("tick")
    \/ CloseStale \/ NothingDue \/ SaveSchedule
    \/ \E s \in Slots : ServeSlot(s)
    \/ Post("tick")

JobStep ==
    \/ \E asked \in Vacancies \cup {NoVacancy} : ReadSettings("now", asked)
    \/ StoreCache("now")
    \/ Post("now")

Next ==
    \/ SchedulerStep \/ JobStep \/ CacheExpires
    \/ \E t \in Tasks :
          \/ Abort(t)
          \/ \E recorded \in BOOLEAN : RecordFails(t, recorded)
          \/ \E arrived \in BOOLEAN : SendFails(t, arrived)
    \/ \E v \in Vacancies : Close(v)
    \/ \E s \in Slots : SlotFallsDue(s) \/ SlotGrowsStale(s)

Spec == Init /\ [][Next]_vars

\* The scheduler's loop goes on ("posting never stops"), and so does a cached
\* minute. No admin has to ask for anything.
FairSpec == Spec /\ WF_vars(SchedulerStep) /\ WF_vars(CacheExpires)

-----------------------------------------------------------------------------
(***************************************************************************)
(* Properties.                                                             *)
(***************************************************************************)
Sent(test(_)) == Cardinality({i \in DOMAIN channel : test(channel[i])})

SentOf(v) == Sent(LAMBDA m : m.uid = v)

Unrecorded(v) == Cardinality({t \in Tasks : task[t].pc = "record" /\ task[t].uid = v})

\* The history an admin pages through is the channel's, up to the attempts in
\* flight and the faults: no `sent` row without its message, no message that
\* nothing tells of, and what was logged as sent is not picked again.
LogTellsTheChannel ==
    \A v \in Vacancies :
        /\ logged[v] + Unrecorded(v) <= SentOf(v)
        /\ SentOf(v) <= logged[v] + Unrecorded(v) + faults
        /\ logged[v] > 0 => IsPosted(v)
        /\ IsPosted(v) => logged[v] > 0 \/ faults > 0

\* "Bir marta yuborilgan vakansiya qayta yuborilmaydi" (what was posted once is
\* not posted again), unless an admin named it, it was never recorded, or the two
\* posts overlapped; and the store's picks are no duplicates of it either.
VacanciesPostOnce ==
    \A i, j \in DOMAIN channel :
        i < j /\ faults = 0 /\ channel[i].alone /\ channel[j].alone =>
            /\ channel[j].by # "asked" => channel[i].uid # channel[j].uid
            /\ channel[j].by = "store" => Group[channel[i].uid] # Group[channel[j].uid]

\* "The slot is closed either way so a broken pick/send is not retried": a slot
\* posts once, and once more at most for every task that did not get to close it,
\* unless a reader that was overtaken by the closing put it back into the cache.
SlotsPostOnce ==
    \A s \in Slots \ reopened : Sent(LAMBDA m : m.slot = s) <= 1 + faults

\* The log and the schedule keep to what the channel shows: the log tells of
\* every message, and neither a vacancy nor a slot is posted again.
PostsAreLoggedOnce == LogTellsTheChannel /\ VacanciesPostOnce /\ SlotsPostOnce

\* A slot that has come is closed, by a post or without one.
DueSlotsClose == \A s \in Slots : clock[s] # "future" ~> schedule[s]
=============================================================================
