---------------------------- MODULE WeeklyStats -----------------------------
(***************************************************************************)
(* The weekly post (src/src/functions/weekly_stats_scheduler.py): from       *)
(* Friday 10:00 to the end of the week one post to the channel, with two     *)
(* markers against a second one: last_weekly_stats_week in the settings,     *)
(* written after the send, and the week this process has posted.             *)
(***************************************************************************)
EXTENDS BotClock

CONSTANT NoWeek \* no marker yet

ASSUME WeeklyAssumption == NoWeek \notin Nat

VARIABLES
  channel,      \* auto_post_channel is set
  marker,       \* last_weekly_stats_week
  sentHere,     \* _sent_week_in_process
  weekly,       \* the tick in progress: where it is, its week
  posts,        \* history: posts per week
  excuses,      \* history: per week, how often its post was forgotten
  silent        \* history: weeks handled without a channel

weeklyVars == <<channel, marker, sentHere, weekly, posts, excuses, silent>>

Waiting == [at |-> "waiting", week |-> 0]

WeeklyTypeOK ==
  /\ channel \in BOOLEAN
  /\ marker \in Weeks \cup {NoWeek} /\ sentHere \in Weeks \cup {NoWeek}
  /\ weekly.at \in {"waiting", "sending", "marking"} /\ weekly.week \in Weeks
  /\ posts \in [Weeks -> Nat] /\ excuses \in [Weeks -> Nat]
  /\ silent \subseteq Weeks

WeeklyInit ==
  /\ channel \in BOOLEAN
  /\ marker = NoWeek /\ sentHere = NoWeek
  /\ weekly = Waiting
  /\ posts = [w \in Weeks |-> 0] /\ excuses = [w \in Weeks |-> 0]
  /\ silent = {}

IsDue(t) ==
  LET weekday == DayKey(t) % WeekDays
  IN  weekday > SendDay \/ (weekday = SendDay /\ Phase(t) >= 2)

\* An admin sets or clears the channel.
ToggleChannel ==
  /\ Move
  /\ channel' = ~channel
  /\ UNCHANGED <<marker, sentHere, weekly, posts, excuses, silent>>

\* Mutant: only the stored marker counts.
NeverSentHere(week) == FALSE

SentByProcess(week) == sentHere = week

\* weekly_stats_tick up to the send: without a channel it goes on to the marker.
\* Settings that cannot be read end the tick with nothing done.
StartWeekly ==
  /\ up /\ weekly.at = "waiting" /\ IsDue(now)
  /\ ~SentByProcess(WeekKey(now)) /\ marker # WeekKey(now)
  /\ weekly' = [at |-> IF channel THEN "sending" ELSE "marking", week |-> WeekKey(now)]
  /\ silent' = IF channel THEN silent ELSE silent \cup {WeekKey(now)}
  /\ UNCHANGED <<clockVars, channel, marker, sentHere, posts, excuses>>

Posted == posts' = [posts EXCEPT ![weekly.week] = @ + 1]
Excused(week) == excuses' = [excuses EXCEPT ![week] = @ + 1]

SendWeekly ==
  /\ weekly.at = "sending"
  /\ Posted
  /\ sentHere' = weekly.week
  /\ weekly' = [weekly EXCEPT !.at = "marking"]
  /\ UNCHANGED <<clockVars, channel, marker, excuses, silent>>

\* Mutant: the process remembers the week before the send has succeeded.
SendFailsForTheWeek ==
  /\ weekly.at = "sending" /\ Fault
  /\ weekly' = Waiting
  /\ sentHere' = weekly.week
  /\ UNCHANGED <<channel, marker, posts, excuses, silent>>

\* The send raises, with or without the post having arrived.
SendWeeklyFails ==
  /\ weekly.at = "sending" /\ Fault
  /\ \/ UNCHANGED <<posts, excuses, silent>>
     \/ Posted /\ Excused(weekly.week)
  /\ weekly' = Waiting
  /\ UNCHANGED <<channel, marker, sentHere, silent>>

MarkWeek ==
  /\ weekly.at = "marking"
  /\ marker' = weekly.week
  /\ weekly' = Waiting
  /\ UNCHANGED <<clockVars, channel, sentHere, posts, excuses, silent>>

MarkWeekFails ==
  /\ weekly.at = "marking" /\ Fault
  /\ weekly' = Waiting
  /\ UNCHANGED <<channel, marker, sentHere, posts, excuses, silent>>

\* The process forgets what it has posted; the post in flight may have arrived.
WeeklyCrash ==
  /\ sentHere' = NoWeek
  /\ weekly' = Waiting
  /\ \/ /\ IF sentHere # NoWeek /\ marker # sentHere THEN Excused(sentHere) ELSE UNCHANGED excuses
        /\ UNCHANGED posts
     \/ weekly.at = "sending" /\ Posted /\ Excused(weekly.week)
  /\ UNCHANGED <<channel, marker, silent>>

WeeklyStep == StartWeekly \/ SendWeekly \/ SendWeeklyFails \/ MarkWeek \/ MarkWeekFails

-----------------------------------------------------------------------------
\* One post a week: a second one needs a crash between the post and its stored
\* marker, or a send whose answer was lost; a failed write of the marker alone
\* repeats nothing while the process lives.
OnePostAWeek == \A w \in Weeks : posts[w] <= 1 + excuses[w]

\* The current week, once due, is posted in the end, unless there was no channel:
\* a bot that was down or whose send failed makes it up later in the week.
WeekIsPosted ==
  <>[](IsDue(now) => posts[WeekKey(now)] > 0 \/ WeekKey(now) \in silent)

=============================================================================
