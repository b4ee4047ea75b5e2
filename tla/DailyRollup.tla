---------------------------- MODULE DailyRollup -----------------------------
(***************************************************************************)
(* The nightly roll-up (src/src/functions/daily_rollup.py): at the start of  *)
(* the process every missing day of the past is computed, then every night   *)
(* at 00:10 the day before.  Of the columns of daily_stats this module       *)
(* keeps `notifications`, the one whose rows are written after their time.   *)
(***************************************************************************)
EXTENDS Notifications

VARIABLES
  stats,        \* daily_stats.notifications per computed day
  rollup,       \* the loop: where it is, the day and count at hand, the days left
  wake,         \* when it sleeps: until when
  skipped,      \* history: days whose computation failed since it last started
  straddled     \* history: days computed while a tick of that day was running

rollupVars == <<stats, rollup, wake, skipped, straddled>>

RollupTypeOK ==
  /\ DOMAIN stats \subseteq Days /\ \A d \in DOMAIN stats : stats[d] \in Nat
  /\ rollup.at \in {"starting", "sleeping", "reading", "writing"}
  /\ rollup.days \subseteq Days /\ rollup.day \in Days /\ rollup.count \in Nat
  /\ wake \in Nat
  /\ skipped \subseteq Days /\ straddled \subseteq Days

Starting == [at |-> "starting", day |-> 0, count |-> 0, days |-> {}]

RollupInit ==
  /\ stats = [d \in {} |-> 0]
  /\ rollup = Starting /\ wake = 0
  /\ skipped = {} /\ straddled = {}

\* _seconds_until_next_run: 00:10 of today, or of tomorrow once it has passed.
NextRun == IF Phase(now) = 0 THEN now + 1 ELSE PhasesPerDay * (Today + 1) + 1

Sleep ==
  /\ rollup' = [Starting EXCEPT !.at = "sleeping"]
  /\ wake' = NextRun

\* Mutant: the backfill leaves yesterday to the night.
OlderDays == {d \in Days : d + 1 < Today}

\* backfill_missing_days: the completed days without a row.
CompletedDays == {d \in Days : d < Today}

Missing == CompletedDays \ DOMAIN stats

First(S) == CHOOSE d \in S : \A e \in S : d <= e

\* Reading and writing a day are two statements of one task.
Read(days) == [at |-> "reading", day |-> First(days), count |-> 0, days |-> days \ {First(days)}]

StartBackfill ==
  /\ up /\ rollup.at = "starting"
  /\ IF Missing = {} THEN Sleep ELSE rollup' = Read(Missing) /\ UNCHANGED wake
  /\ UNCHANGED <<clockVars, notifyVars, stats, skipped, straddled>>

\* 00:10: yesterday, also when it has a row already.
WakeAtNight ==
  /\ up /\ rollup.at = "sleeping" /\ now >= wake
  /\ rollup' = Read({Today - 1})
  /\ UNCHANGED <<clockVars, notifyVars, stats, wake, skipped, straddled>>

\* Mutant: the bounds of the day after.
CountNextDay == Cardinality({r \in sentRows : r.day = rollup.day + 1})

\* compute_day
CountDay == Cardinality({r \in sentRows : r.day = rollup.day})

ComputeDay ==
  /\ rollup.at = "reading"
  /\ rollup' = [rollup EXCEPT !.at = "writing", !.count = CountDay]
  /\ straddled' = IF notify.at # "none" /\ notify.day = rollup.day
                    THEN straddled \cup {rollup.day} ELSE straddled \ {rollup.day}
  /\ UNCHANGED <<clockVars, notifyVars, stats, wake, skipped>>

\* upsert_daily_stats, then the next missing day, or sleep.
UpsertDailyStats ==
  /\ rollup.at = "writing"
  /\ stats' = [d \in DOMAIN stats \cup {rollup.day} |->
                 IF d = rollup.day THEN rollup.count ELSE stats[d]]
  /\ IF rollup.days = {} THEN Sleep ELSE rollup' = Read(rollup.days) /\ UNCHANGED wake
  /\ skipped' = skipped \ {rollup.day}
  /\ UNCHANGED <<clockVars, notifyVars, straddled>>

\* A failed night is logged, and so is a failed backfill, with all days it had
\* left: after five minutes the loop sleeps until the next night.
RollupFails ==
  /\ rollup.at \in {"reading", "writing"} /\ Fault
  /\ Sleep
  /\ skipped' = skipped \cup {rollup.day} \cup rollup.days
  /\ UNCHANGED <<notifyVars, stats, straddled>>

RollupCrash ==
  /\ rollup' = Starting /\ skipped' = {}
  /\ UNCHANGED <<stats, wake, straddled>>

\* The loop wakes within the phase it asked for.
NightIsServed == up => rollup.at = "sleeping" /\ now < wake

RollupStep == StartBackfill \/ WakeAtNight \/ ComputeDay \/ UpsertDailyStats \/ RollupFails

-----------------------------------------------------------------------------
\* A computed day counts what sent_notifications holds for that day, for good:
\* rows are written later than the time they carry, and only a tick that ran
\* across 00:10 may be missed.  While the loop sleeps, every day before
\* yesterday, and yesterday too once its night has come, is computed, whenever
\* the process was down, unless the computation failed since the start.
StatsTellTheRows ==
  /\ \A d \in DOMAIN stats \ straddled :
       \/ rollup.at = "writing" /\ rollup.day = d
       \/ stats[d] = Cardinality({r \in sentRows : r.day = d})
  /\ up /\ rollup.at = "sleeping" /\ now < wake =>
       \A d \in Days : PhasesPerDay * (d + 1) + 1 < wake => d \in DOMAIN stats \cup skipped

=============================================================================
