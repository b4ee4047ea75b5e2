------------------------------ MODULE BotLoops ------------------------------
(***************************************************************************)
(* The bot's clock-driven loops in one process: notifications, the nightly   *)
(* roll-up that counts them, and the weekly post.  They share the clock, the *)
(* database and the fate of the process.                                     *)
(***************************************************************************)
EXTENDS DailyRollup, WeeklyStats

vars == <<clockVars, notifyVars, rollupVars, weeklyVars>>

TypeOK == ClockTypeOK /\ NotifyTypeOK /\ RollupTypeOK /\ WeeklyTypeOK

Init == ClockInit /\ NotifyInit /\ RollupInit /\ WeeklyInit

\* Time passes, but the roll-up is not late for its night.
Advance ==
  /\ now < MaxTime /\ NightIsServed
  /\ now' = now + 1
  /\ UNCHANGED <<up, faults, moves, notifyVars, rollupVars, weeklyVars>>

Crash ==
  /\ up /\ faults < MaxFaults
  /\ up' = FALSE /\ faults' = faults + 1
  /\ NotifyCrash /\ RollupCrash /\ WeeklyCrash
  /\ UNCHANGED <<now, moves>>

Restart ==
  /\ ~up /\ up' = TRUE
  /\ UNCHANGED <<now, faults, moves, notifyVars, rollupVars, weeklyVars>>

Next ==
  \/ Advance \/ Crash \/ Restart
  \/ (UserStep \/ NotifyStep) /\ UNCHANGED <<rollupVars, weeklyVars>>
  \/ RollupStep /\ UNCHANGED weeklyVars
  \/ (ToggleChannel \/ WeeklyStep) /\ UNCHANGED <<notifyVars, rollupVars>>

\* systemd restarts the bot, and a running loop goes on.
Fairness ==
  /\ WF_vars(Restart)
  /\ WF_vars(NotifyStep /\ UNCHANGED <<rollupVars, weeklyVars>>)
  /\ WF_vars(RollupStep /\ UNCHANGED weeklyVars)
  /\ WF_vars(WeeklyStep /\ UNCHANGED <<notifyVars, rollupVars>>)

Spec == Init /\ [][Next]_vars /\ Fairness

\* Once the clock stands still, every subscribed user has got as many messages
\* today as slots have come, or there is nothing left that he was not sent.
SlotsAreServed ==
  <>[](\A u \in subscribed \ blocked :
         \/ Unsent(u) = {}
         \/ Cardinality({i \in DOMAIN got[u] : got[u][i].day = Today}) >= SlotsPassed(now))

\* What was sent and recorded is not sent again, to a user or to the channel, and
\* only who refuses the bot is marked as blocked.
SendingIsRecorded == NotificationsAreNotRepeated /\ OnePostAWeek /\ OnlyBlockersAreMarked

\* Both catch up with what crashes and failed sends held back.
LoopsCatchUp == SlotsAreServed /\ WeekIsPosted

=============================================================================
