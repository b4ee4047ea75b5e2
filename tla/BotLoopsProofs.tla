--------------------------- MODULE BotLoopsProofs ---------------------------
(***************************************************************************)
(* Theorems about the bot's background loops.  Of those a clock drives: what *)
(* was sent and recorded is not sent again (SendingIsRecorded), and a        *)
(* computed day tells what sent_notifications holds (StatsTellTheRows).  Of  *)
(* the ingest loop: every open vacancy is found (OpenVacanciesAreShown), and *)
(* none is closed for an outage or opened by a stale list                    *)
(* (RowsCloseForAReason).                                                    *)
(***************************************************************************)
EXTENDS BotLoops, Ingest, FiniteSetTheorems, FunctionTheorems, WellFoundedInduction, TLAPS

-----------------------------------------------------------------------------
(***************************************************************************)
(* The inductive invariant.                                                *)
(***************************************************************************)

Arrival == [vacancy : Vacancies, day : Days]
InFlight == [pick : Pick, nth : Nat \ {0}]
Ticks(at, day, picks, rows, forbidden) ==
  [at : at, day : day, picks : picks, rows : rows, forbidden : forbidden]
Rollups(at, day, count, days) == [at : at, day : day, count : count, days : days]

LoopTypes ==
  /\ ClockTypeOK /\ now > 0
  /\ subscribed \subseteq Users /\ blocked \subseteq Users
  /\ refuses \subseteq Users /\ raced \subseteq Users
  /\ news \in [Users -> {NoNews, "kicked", "member"}]
  /\ sentRows \subseteq SentRow /\ IsFiniteSet(sentRows)
  /\ notify \in Ticks({"none", "sending"}, Days, SUBSET Pick, SUBSET InFlight, SUBSET Users)
  /\ IsFiniteSet(notify.rows)
  /\ got \in [Users -> Seq(Arrival)]
  /\ lost \in [Users -> SUBSET Nat]

RollupTypes ==
  /\ DOMAIN stats \subseteq Days /\ stats \in [DOMAIN stats -> Nat]
  /\ rollup \in Rollups({"starting", "sleeping", "reading", "writing"}, Days, Nat, SUBSET Days)
  /\ wake \in Nat
  /\ skipped \subseteq Days /\ straddled \subseteq Days

WeeklyTypes ==
  /\ channel \in BOOLEAN
  /\ marker \in Weeks \cup {NoWeek} /\ sentHere \in Weeks \cup {NoWeek}
  /\ weekly \in [at : {"waiting", "sending", "marking"}, week : Weeks]
  /\ posts \in [Weeks -> Nat] /\ excuses \in [Weeks -> Nat]
  /\ silent \subseteq Weeks

\* Both markers are at most of the week at hand; a week that is neither marked
\* nor remembered, and not over, has no post that was not forgotten.
WeekInv ==
  /\ \A w \in {marker, sentHere} \ {NoWeek} :
       w <= WeekKey(now) /\ (weekly.at # "waiting" => w <= weekly.week)
  /\ weekly.at # "waiting" => weekly.week <= WeekKey(now)
  /\ weekly.at = "sending" =>
       sentHere # weekly.week /\ posts[weekly.week] <= excuses[weekly.week]
  /\ \A w \in Weeks :
       w >= WeekKey(now) /\ marker # w /\ sentHere # w => posts[w] <= excuses[w]
  /\ OnePostAWeek

\* A 403 that is held by a tick is true, or the user has unblocked since.
BlockInv ==
  /\ \A u \in Users : news[u] = "kicked" => u \in refuses
  /\ \A u \in notify.forbidden : u \in refuses \/ u \in raced
  /\ OnlyBlockersAreMarked

\* A tick has one vacancy for a user, to be sent or sent, that no row has.
TickInv ==
  /\ notify.at = "none" => notify = Idle
  /\ notify.at # "none" => notify.day <= Today
  /\ \A p, q \in notify.picks : p.user = q.user => p = q
  /\ \A r, q \in notify.rows : r.pick.user = q.pick.user => r = q
  /\ \A p \in notify.picks, r \in notify.rows : r.pick.user # p.user
  /\ \A p \in notify.picks \cup {r.pick : r \in notify.rows} :
       \A s \in sentRows : ~(s.user = p.user /\ s.vacancy = p.vacancy)

\* What arrived and is not lost is in a row, or in the tick at hand.
Told(u, i) ==
  \/ [user |-> u, vacancy |-> got[u][i].vacancy, day |-> got[u][i].day] \in sentRows
  \/ [pick |-> [user |-> u, vacancy |-> got[u][i].vacancy], nth |-> i] \in notify.rows

ArrivalsInv ==
  /\ \A r \in notify.rows :
       /\ r.nth \in DOMAIN got[r.pick.user] \ lost[r.pick.user]
       /\ got[r.pick.user][r.nth] = [vacancy |-> r.pick.vacancy, day |-> notify.day]
  /\ \A u \in Users : lost[u] \subseteq DOMAIN got[u]
  /\ \A u \in Users : \A i \in DOMAIN got[u] \ lost[u] : Told(u, i)
  /\ \A u \in Users : \A i, j \in DOMAIN got[u] :
       i < j /\ got[u][i].vacancy = got[u][j].vacancy => i \in lost[u]

\* The rows of a day, with the one the tick at hand will add, are within its slots.
Served(u) == (\E p \in notify.picks : p.user = u) \/ (\E r \in notify.rows : r.pick.user = u)
Room(u, day) == Cardinality(RowsOf(u, day)) + (IF notify.day = day /\ Served(u) THEN 1 ELSE 0)

SlotsInv ==
  /\ \A s \in sentRows : s.day <= Today
  /\ \A u \in Users, day \in Days :
       /\ Room(u, day) <= MaxPerDay
       /\ day = Today => Room(u, day) <= SlotsPassed(now)

CountOf(d) == Cardinality({r \in sentRows : r.day = d})

\* A computed day is as its rows are, and only a tick that was running when the
\* day was computed, which is recorded, can still add some.
CountsInv ==
  /\ \A d \in DOMAIN stats : d < Today
  /\ \A d \in DOMAIN stats \ straddled : stats[d] = CountOf(d)
  /\ rollup.at = "writing" /\ rollup.day \notin straddled => rollup.count = CountOf(rollup.day)
  /\ notify.at # "none" =>
       /\ notify.day \in DOMAIN stats => notify.day \in straddled
       /\ rollup.at = "writing" /\ rollup.day = notify.day => notify.day \in straddled

\* Where the loop is. What it computes at a start no tick runs across; at night
\* it computes yesterday, in the phase that it was to wake in.
LoopInv ==
  /\ rollup.at # "starting" => up
  /\ rollup.at \in {"reading", "writing"} =>
       /\ \A d \in rollup.days \cup {rollup.day} : d < Today
       /\ rollup.day \notin rollup.days /\ rollup.days \cap DOMAIN stats = {}
       /\ \A d \in Days : d < Today =>
            d \in DOMAIN stats \cup skipped \cup {rollup.day} \cup rollup.days
  /\ ~up => notify = Idle
  /\ notify.at # "none" /\ notify.day < Today /\ rollup.at # "sleeping" =>
       /\ rollup.at \in {"reading", "writing"}
       /\ Phase(now) = 1 /\ rollup.day + 1 = Today /\ rollup.days = {}
  /\ rollup.at = "sleeping" =>
       /\ now <= wake /\ Phase(wake) = 1 /\ wake > PhasesPerDay
       /\ \A d \in Days : PhasesPerDay * (d + 1) + 1 < wake => d \in DOMAIN stats \cup skipped

\* A day that a tick ran across was computed in its night, and is not again.
StraddleInv ==
  /\ \A d \in straddled :
       d \in DOMAIN stats \/ (rollup.at = "writing" /\ d = rollup.day)
         => PhasesPerDay * (d + 1) + 1 <= now
  /\ rollup.at = "sleeping" =>
       \A d \in straddled \cap DOMAIN stats : PhasesPerDay * (d + 1) + 1 < wake
  /\ rollup.at = "reading" => rollup.day \notin straddled \cap DOMAIN stats

LoopsInv ==
  /\ LoopTypes /\ RollupTypes /\ WeeklyTypes
  /\ WeekInv /\ BlockInv /\ TickInv /\ ArrivalsInv /\ SlotsInv
  /\ CountsInv /\ LoopInv /\ StraddleInv

-----------------------------------------------------------------------------
(***************************************************************************)
(* Days, phases and weeks.                                                 *)
(***************************************************************************)

LEMMA Bounds == MaxTime \in Nat /\ MaxFaults \in Nat /\ MaxMoves \in Nat
  BY ClockAssumption

LEMMA DaySplits ==
  ASSUME NEW t \in Nat
  PROVE  /\ DayKey(t) \in Nat /\ Phase(t) \in 0..3
         /\ t = 4 * DayKey(t) + Phase(t)
  BY DEF DayKey, Phase, PhasesPerDay

LEMMA DaysGrow ==
  ASSUME NEW s \in Nat, NEW t \in Nat, s <= t
  PROVE  DayKey(s) <= DayKey(t)
<1>1. DayKey(s) \in Nat /\ Phase(s) \in 0..3 /\ s = 4 * DayKey(s) + Phase(s)
  BY DaySplits
<1>2. DayKey(t) \in Nat /\ Phase(t) \in 0..3 /\ t = 4 * DayKey(t) + Phase(t)
  BY DaySplits
<1> QED BY <1>1, <1>2

LEMMA NextPhase ==
  ASSUME NEW t \in Nat
  PROVE  /\ Phase(t) < 3 => DayKey(t + 1) = DayKey(t) /\ Phase(t + 1) = Phase(t) + 1
         /\ Phase(t) = 3 => DayKey(t + 1) = DayKey(t) + 1 /\ Phase(t + 1) = 0
<1>1. DayKey(t) \in Nat /\ Phase(t) \in 0..3 /\ t = 4 * DayKey(t) + Phase(t)
  BY DaySplits
<1>2. DayKey((t + 1)) \in Nat /\ Phase((t + 1)) \in 0..3 /\ (t + 1) = 4 * DayKey((t + 1)) + Phase((t + 1))
  BY DaySplits
<1> QED BY <1>1, <1>2

LEMMA DayOf ==
  ASSUME NEW t \in Nat, NEW d \in Nat
  PROVE  /\ d < DayKey(t) <=> 4 * (d + 1) <= t
         /\ d <= DayKey(t) <=> 4 * d <= t
<1>1. DayKey(t) \in Nat /\ Phase(t) \in 0..3 /\ t = 4 * DayKey(t) + Phase(t)
  BY DaySplits
<1> QED BY <1>1

LEMMA TimeIsADay ==
  ASSUME NEW t \in Times
  PROVE  DayKey(t) \in Days /\ 0 \in Days
<1>1. t \in Nat /\ t <= MaxTime /\ MaxTime \in Nat
  BY Bounds DEF Times
<1>2. DayKey(t) <= DayKey(MaxTime) /\ DayKey(t) \in Nat /\ DayKey(MaxTime) \in Nat
  BY <1>1, DaysGrow, DaySplits
<1>3. Days = 0..DayKey(MaxTime)
  BY DEF Days, DayKey
<1> QED BY <1>2, <1>3

LEMMA EarlierDays ==
  ASSUME NEW t \in Times, NEW d \in Nat, d <= DayKey(t)
  PROVE  d \in Days
<1>1. t \in Nat /\ t <= MaxTime /\ MaxTime \in Nat
  BY Bounds DEF Times
<1>2. DayKey(t) <= DayKey(MaxTime) /\ DayKey(t) \in Nat /\ DayKey(MaxTime) \in Nat
  BY <1>1, DaysGrow, DaySplits
<1>3. Days = 0..DayKey(MaxTime)
  BY DEF Days, DayKey
<1> QED BY <1>2, <1>3

LEMMA DaysAreNumbers == Days \subseteq Nat
<1>1. MaxTime \div PhasesPerDay \in Nat
  BY Bounds, DaySplits DEF DayKey
<1> QED BY <1>1 DEF Days

LEMMA Quotients ==
  ASSUME NEW a \in Nat, NEW b \in Nat, NEW w \in Nat \ {0}, a <= b
  PROVE  a \div w \in Nat /\ a \div w <= b \div w
<1>1. /\ a \div w \in Int /\ b \div w \in Int
      /\ w * (a \div w) <= a /\ a < w * (a \div w) + w
      /\ w * (b \div w) <= b /\ b < w * (b \div w) + w
  BY Z3
<1> QED BY <1>1, Z3

LEMMA WeeksGrow ==
  ASSUME NEW s \in Nat, NEW t \in Nat, s <= t
  PROVE  WeekKey(s) \in Nat /\ WeekKey(s) <= WeekKey(t)
<1>1. DayKey(s) \in Nat /\ DayKey(t) \in Nat /\ DayKey(s) <= DayKey(t)
  BY DaySplits, DaysGrow
<1>2. WeekDays \in Nat \ {0}
  BY ClockAssumption
<1> QED BY <1>1, <1>2, Quotients DEF WeekKey

LEMMA TimeIsAWeek ==
  ASSUME NEW t \in Times
  PROVE  WeekKey(t) \in Weeks /\ 0 \in Weeks /\ Weeks \subseteq Nat
<1>1. t \in Nat /\ t <= MaxTime /\ MaxTime \in Nat
  BY Bounds DEF Times
<1>2. WeekKey(t) \in Nat /\ WeekKey(t) <= WeekKey(MaxTime) /\ WeekKey(MaxTime) \in Nat
  BY <1>1, WeeksGrow
<1>3. Weeks = 0..WeekKey(MaxTime)
  BY DEF Weeks, WeekKey, DayKey
<1> QED BY <1>2, <1>3

LEMMA NightsToCome ==
  ASSUME now \in Times, now > 0
  PROVE  /\ NextRun \in Nat /\ NextRun > now /\ NextRun > 4 /\ Phase(NextRun) = 1
         /\ \A d \in Nat : 4 * (d + 1) + 1 < NextRun => d < Today
<1> DEFINE next == 4 * (Today + 1) + 1
<1>1. now \in Nat
  BY DEF Times
<1>2. DayKey(now) \in Nat /\ Phase(now) \in 0..3 /\ now = 4 * DayKey(now) + Phase(now)
  BY <1>1, DaySplits
<1>3. CASE Phase(now) = 0
  <2>1. NextRun = now + 1
    BY <1>3 DEF NextRun
  <2>2. Phase(now + 1) = 1
    BY <1>1, <1>3, NextPhase
  <2> QED BY <2>1, <2>2, <1>1, <1>2, <1>3 DEF Today
<1>4. CASE Phase(now) # 0
  <2>1. NextRun = next /\ next \in Nat
    BY <1>2, <1>4 DEF NextRun, PhasesPerDay, Today
  <2>2. DayKey(next) \in Nat /\ Phase(next) \in 0..3 /\ next = 4 * DayKey(next) + Phase(next)
    BY <2>1, DaySplits
  <2>3. Phase(next) = 1
    BY <2>2, <1>2 DEF Today
  <2> QED BY <2>1, <2>3, <1>1, <1>2, <1>4 DEF Today
<1> QED BY <1>3, <1>4

\* A set of numbers has a smallest one: the smaller of two numbers is the smaller
\* initial segment.
LEMMA SmallestExists ==
  ASSUME NEW S \in SUBSET Nat, S # {}
  PROVE  \E d \in S : \A e \in S : d <= e
<1> DEFINE Below == {0..d : d \in S}
<1>1. Below \subseteq FiniteSubsetsOf(Nat) /\ Below # {}
  <2>1. \A d \in S : 0..d \subseteq Nat /\ IsFiniteSet(0..d)
    BY FS_Interval
  <2> QED BY <2>1 DEF FiniteSubsetsOf
<1>2. PICK x \in Below : \A y \in Below : <<y, x>> \notin StrictSubsetOrdering(Nat)
  BY <1>1, FS_StrictSubsetOrderingWellFounded, WFMin
<1>3. PICK d \in S : x = 0..d
  BY <1>2
<1>4. ASSUME NEW e \in S, ~(d <= e) PROVE FALSE
  <2>1. 0..e \in Below
    OBVIOUS
  <2>2. 0..e \subseteq Nat /\ 0..d \subseteq Nat
    OBVIOUS
  <2>3. 0..e \subseteq 0..d /\ d \in 0..d /\ d \notin 0..e
    BY <1>4
  <2>4. <<0..e, 0..d>> \in StrictSubsetOrdering(Nat)
    BY <2>2, <2>3 DEF StrictSubsetOrdering
  <2> QED BY <2>1, <2>4, <1>2, <1>3
<1> QED BY <1>4

LEMMA FirstIsSmallest ==
  ASSUME NEW S \in SUBSET Nat, S # {}
  PROVE  First(S) \in S /\ \A e \in S : First(S) <= e
BY SmallestExists DEF First

-----------------------------------------------------------------------------
(***************************************************************************)
(* The weekly post.                                                        *)
(***************************************************************************)

LEMMA Keys ==
  ASSUME ClockTypeOK
  PROVE  /\ now \in Nat /\ now \in Times /\ Weeks \subseteq Nat /\ NoWeek \notin Weeks
         /\ WeekKey(now) \in Weeks /\ WeekKey(now) \in Nat /\ 0 \in Weeks
<1>1. now \in Times
  BY DEF ClockTypeOK
<1> QED BY <1>1, TimeIsAWeek, WeeklyAssumption DEF Times

\* A post, with or without its being forgotten.
LEMMA Counted ==
  ASSUME WeeklyTypes, NEW week \in Weeks, Weeks \subseteq Nat
  PROVE  /\ Excused(week) => /\ excuses' \in [Weeks -> Nat]
                             /\ \A w \in Weeks : excuses'[w] = IF w = week THEN excuses[w] + 1 ELSE excuses[w]
         /\ week = weekly.week /\ Posted =>
                             /\ posts' \in [Weeks -> Nat]
                             /\ \A w \in Weeks : posts'[w] = IF w = week THEN posts[w] + 1 ELSE posts[w]
BY DEF WeeklyTypes, Excused, Posted

LEMMA WeeklyStartsRight ==
  ASSUME ClockInit, WeeklyInit
  PROVE  WeeklyTypes /\ WeekInv
<1>1. 1 \in Times /\ now = 1
  BY ClockAssumption DEF Times, ClockInit
<1>2. 0 \in Weeks /\ Weeks \subseteq Nat
  BY <1>1, TimeIsAWeek
<1>3. WeeklyTypes
  BY <1>2, WeeklyAssumption DEF WeeklyInit, WeeklyTypes, Waiting
<1>4. OnePostAWeek
  BY <1>2 DEF WeeklyInit, OnePostAWeek
<1>5. WeekInv
  BY <1>2, <1>4 DEF WeeklyInit, WeekInv, Waiting
<1> QED BY <1>3, <1>5

LEMMA WeekStands ==
  ASSUME WeekInv, WeeklyTypes, ClockTypeOK, UNCHANGED weeklyVars,
         now' \in Nat, now <= now'
  PROVE  WeekInv' /\ WeeklyTypes'
<1>1. WeekKey(now') \in Nat /\ WeekKey(now) <= WeekKey(now')
  BY Keys, WeeksGrow
<1>2. WeeklyTypes'
  BY DEF WeeklyTypes, weeklyVars
<1>3. /\ UNCHANGED <<marker, sentHere, weekly, posts, excuses>>
      /\ WeekKey(now) \in Nat /\ (WeekKey(now))' = WeekKey(now')
  BY Keys DEF weeklyVars
<1>4. \A w \in {marker, sentHere} \ {NoWeek} : w <= WeekKey(now')
  BY <1>1, <1>3, Keys DEF WeekInv, WeeklyTypes
<1>5. weekly.at # "waiting" => weekly.week <= WeekKey(now')
  BY <1>1, <1>3, Keys DEF WeekInv, WeeklyTypes
<1>6. \A w \in Weeks :
        w >= WeekKey(now') /\ marker # w /\ sentHere # w => posts[w] <= excuses[w]
  BY <1>1, <1>3, Keys DEF WeekInv
<1>7. WeekInv'
  BY <1>3, <1>4, <1>5, <1>6 DEF WeekInv, OnePostAWeek
<1> QED BY <1>2, <1>7

LEMMA WeeklyTypesHold ==
  ASSUME WeeklyTypes, ClockTypeOK, (ToggleChannel \/ WeeklyStep) \/ WeeklyCrash
  PROVE  WeeklyTypes'
<1> USE Keys
<1>1. CASE ToggleChannel
  BY <1>1 DEF ToggleChannel, WeeklyTypes
<1>2. CASE StartWeekly
  BY <1>2 DEF StartWeekly, WeeklyTypes
<1>3. CASE SendWeekly
  BY <1>3 DEF SendWeekly, WeeklyTypes, Posted
<1>4. CASE SendWeeklyFails
  BY <1>4 DEF SendWeeklyFails, WeeklyTypes, Posted, Excused, Waiting
<1>5. CASE MarkWeek
  BY <1>5 DEF MarkWeek, WeeklyTypes, Waiting
<1>6. CASE MarkWeekFails
  BY <1>6 DEF MarkWeekFails, WeeklyTypes, Waiting
<1>7. CASE WeeklyCrash
  BY <1>7 DEF WeeklyCrash, WeeklyTypes, Waiting, Posted, Excused
<1> QED BY <1>1, <1>2, <1>3, <1>4, <1>5, <1>6, <1>7 DEF WeeklyStep

\* No week but the one at hand gets a post or loses a marker that it needs.
LEMMA WeekHolds ==
  ASSUME WeekInv, WeeklyTypes, ClockTypeOK, UNCHANGED now,
         (ToggleChannel \/ WeeklyStep) \/ WeeklyCrash
  PROVE  WeekInv'
<1> USE Keys
<1> DEFINE week == weekly.week
<1>0. WeeklyTypes' /\ week \in Weeks
  BY WeeklyTypesHold DEF WeeklyTypes
<1>1. CASE ToggleChannel
  BY <1>1 DEF ToggleChannel, WeekInv, OnePostAWeek
<1>2. CASE StartWeekly
  BY <1>2, <1>0 DEF StartWeekly, WeekInv, OnePostAWeek, SentByProcess, WeeklyTypes
<1>3. CASE SendWeekly
  <2>1. \A w \in Weeks : posts'[w] = IF w = week THEN posts[w] + 1 ELSE posts[w]
    BY <1>3, <1>0, Counted DEF SendWeekly
  <2>2. sentHere' = week /\ weekly.at = "sending"
        /\ weekly'.at = "marking" /\ weekly'.week = week /\ marker' = marker /\ excuses' = excuses
    BY <1>3 DEF SendWeekly, WeeklyTypes
  <2>3. OnePostAWeek'
    BY <2>1, <2>2, <1>0 DEF WeekInv, OnePostAWeek, WeeklyTypes
  <2>4. \A w \in Weeks : w >= WeekKey(now) /\ marker # w /\ week # w => posts'[w] <= excuses[w]
    <3> SUFFICES ASSUME NEW w \in Weeks, w >= WeekKey(now), marker # w, week # w
                 PROVE  posts[w] <= excuses[w]
      BY <2>1
    <3>1. week <= WeekKey(now) /\ week < w
      BY <2>2, <1>0 DEF WeekInv, WeeklyTypes
    <3>2. sentHere # w
      <4>1. sentHere = w => w <= week
        BY <2>2 DEF WeekInv
      <4> QED BY <4>1, <3>1, <1>0
    <3> QED BY <3>2 DEF WeekInv
  <2> QED BY <2>1, <2>2, <2>3, <2>4, <1>0 DEF WeekInv, WeeklyTypes
<1>4. CASE SendWeeklyFails
  <2>1. weekly' = Waiting /\ weekly.at = "sending" /\ marker' = marker /\ sentHere' = sentHere
    BY <1>4 DEF SendWeeklyFails
  <2>2. CASE UNCHANGED <<posts, excuses>>
    BY <2>1, <2>2, <1>0 DEF WeekInv, OnePostAWeek, WeeklyTypes, Waiting
  <2>3. CASE Posted /\ Excused(week)
    <3>1. \A w \in Weeks : /\ posts'[w] = IF w = week THEN posts[w] + 1 ELSE posts[w]
                           /\ excuses'[w] = IF w = week THEN excuses[w] + 1 ELSE excuses[w]
      BY <2>3, <1>0, Counted
    <3> QED BY <2>1, <3>1, <1>0 DEF WeekInv, OnePostAWeek, WeeklyTypes, Waiting
  <2> QED BY <2>2, <2>3, <1>4 DEF SendWeeklyFails
<1>5. CASE MarkWeek
  <2>1. /\ weekly.at = "marking" /\ weekly' = Waiting /\ marker' = week
        /\ UNCHANGED <<now, sentHere, posts, excuses>>
    BY <1>5 DEF MarkWeek, clockVars
  <2>2. OnePostAWeek'
    BY <2>1 DEF WeekInv, OnePostAWeek
  <2>3. \A w \in Weeks : w >= WeekKey(now) /\ week # w /\ sentHere # w => posts[w] <= excuses[w]
    <3> SUFFICES ASSUME NEW w \in Weeks, w >= WeekKey(now), week # w, sentHere # w
                 PROVE  posts[w] <= excuses[w]
      OBVIOUS
    <3>1. week <= WeekKey(now) /\ week < w
      BY <2>1, <1>0 DEF WeekInv, WeeklyTypes
    <3>2. marker = w => week >= w
      <4>1. w \in {marker, sentHere} \ {NoWeek} => w <= week
        BY <2>1 DEF WeekInv
      <4>2. w # NoWeek
        BY <1>0
      <4>3. week \in Int /\ w \in Int
        BY <2>1, <1>0
      <4> QED BY <4>1, <4>2, <4>3
    <3>3. marker # w
      BY <3>1, <3>2, <1>0
    <3> QED BY <3>3 DEF WeekInv
  <2>4. \A w \in {week, sentHere} \ {NoWeek} : w <= WeekKey(now)
    BY <2>1, <1>0 DEF WeekInv
  <2>5. weekly'.at = "waiting"
    BY <2>1 DEF Waiting
  <2>6. UNCHANGED WeekKey(now)
    BY <2>1
  <2> QED BY <2>1, <2>2, <2>3, <2>4, <2>5, <2>6 DEF WeekInv
<1>6. CASE MarkWeekFails
  BY <1>6, <1>0 DEF MarkWeekFails, WeekInv, OnePostAWeek, WeeklyTypes, Waiting
<1>7. CASE WeeklyCrash
  <2>1. weekly' = Waiting /\ marker' = marker /\ sentHere' = NoWeek
    BY <1>7 DEF WeeklyCrash
  <2>2. CASE posts' = posts /\ (IF sentHere # NoWeek /\ marker # sentHere
                                THEN Excused(sentHere) ELSE UNCHANGED excuses)
    <3>1. CASE sentHere # NoWeek /\ marker # sentHere
      <4>1. \A w \in Weeks : excuses'[w] = IF w = sentHere THEN excuses[w] + 1 ELSE excuses[w]
        BY <2>2, <3>1, <1>0, Counted DEF WeeklyTypes
      <4> QED BY <2>1, <2>2, <4>1, <1>0 DEF WeekInv, OnePostAWeek, WeeklyTypes, Waiting
    <3>2. CASE ~(sentHere # NoWeek /\ marker # sentHere)
      BY <2>1, <2>2, <3>2, <1>0 DEF WeekInv, OnePostAWeek, WeeklyTypes, Waiting
    <3> QED BY <3>1, <3>2
  <2>3. CASE weekly.at = "sending" /\ Posted /\ Excused(week)
    <3>1. \A w \in Weeks : /\ posts'[w] = IF w = week THEN posts[w] + 1 ELSE posts[w]
                           /\ excuses'[w] = IF w = week THEN excuses[w] + 1 ELSE excuses[w]
      BY <2>3, <1>0, Counted
    <3>2. OnePostAWeek'
      BY <3>1, <1>0 DEF WeekInv, OnePostAWeek, WeeklyTypes
    <3>3. \A w \in Weeks : w >= WeekKey(now) /\ marker # w => posts'[w] <= excuses'[w]
      <4> SUFFICES ASSUME NEW w \in Weeks, w >= WeekKey(now), marker # w
                   PROVE  posts'[w] <= excuses'[w]
        OBVIOUS
      <4>1. week <= WeekKey(now) /\ (sentHere = w => w <= week) /\ sentHere # week
        BY <2>3, <1>0 DEF WeekInv, WeeklyTypes
      <4>2. sentHere # w
        BY <4>1, <1>0 DEF WeeklyTypes
      <4>3. posts[w] <= excuses[w]
        BY <4>2 DEF WeekInv
      <4> QED BY <4>3, <3>1, <1>0 DEF WeeklyTypes
    <3> QED BY <2>1, <3>2, <3>3, <1>0 DEF WeekInv, WeeklyTypes, Waiting
  <2> QED BY <2>2, <2>3, <1>7 DEF WeeklyCrash
<1> QED BY <1>1, <1>2, <1>3, <1>4, <1>5, <1>6, <1>7 DEF WeeklyStep

-----------------------------------------------------------------------------
(***************************************************************************)
(* Users and their blocks.                                                 *)
(***************************************************************************)

LEMMA UserTypesHold ==
  ASSUME LoopTypes, UserStep
  PROVE  LoopTypes'
<1>1. PICK u \in Users : \/ ToggleSubscription(u) \/ BlockBot(u) \/ UnblockBot(u)
                         \/ OnMyChatMember(u) \/ UserWrites(u)
  BY DEF UserStep
<1>2. UNCHANGED <<now, up, faults, sentRows, notify, got, lost>> /\ ClockTypeOK'
  BY <1>1, Bounds DEF ToggleSubscription, BlockBot, UnblockBot, OnMyChatMember, UserWrites,
     Move, clockVars, LoopTypes, ClockTypeOK
<1>3. /\ subscribed' \subseteq Users /\ blocked' \subseteq Users
      /\ refuses' \subseteq Users /\ raced' \subseteq Users
      /\ news' \in [Users -> {NoNews, "kicked", "member"}]
  BY <1>1 DEF ToggleSubscription, BlockBot, UnblockBot, OnMyChatMember, UserWrites, LoopTypes
<1> QED BY <1>2, <1>3 DEF LoopTypes

LEMMA BlocksHold ==
  ASSUME LoopTypes, BlockInv, UserStep
  PROVE  BlockInv'
<1>1. PICK u \in Users : \/ ToggleSubscription(u) \/ BlockBot(u) \/ UnblockBot(u)
                         \/ OnMyChatMember(u) \/ UserWrites(u)
  BY DEF UserStep
<1>2. CASE ToggleSubscription(u)
  BY <1>2 DEF ToggleSubscription, BlockInv, OnlyBlockersAreMarked
<1>3. CASE BlockBot(u)
  BY <1>3 DEF BlockBot, BlockInv, OnlyBlockersAreMarked, LoopTypes, NoNews
<1>4. CASE UnblockBot(u)
  BY <1>4 DEF UnblockBot, BlockInv, OnlyBlockersAreMarked, LoopTypes, NoNews
<1>5. CASE OnMyChatMember(u)
  BY <1>5 DEF OnMyChatMember, BlockInv, OnlyBlockersAreMarked, LoopTypes, NoNews
<1>6. CASE UserWrites(u)
  BY <1>6 DEF UserWrites, BlockInv, OnlyBlockersAreMarked, LoopTypes, NoNews
<1> QED BY <1>1, <1>2, <1>3, <1>4, <1>5, <1>6

-----------------------------------------------------------------------------
(***************************************************************************)
(* The ticks of the notifications.                                         *)
(***************************************************************************)

\* What the steps do to the tick at hand.
LEMMA TickRecord ==
  ASSUME LoopTypes
  PROVE  /\ notify.at \in {"none", "sending"} /\ notify.day \in Days
         /\ notify.picks \subseteq Pick /\ notify.rows \subseteq InFlight
         /\ notify.forbidden \subseteq Users
         /\ notify = [at |-> notify.at, day |-> notify.day, picks |-> notify.picks,
                      rows |-> notify.rows, forbidden |-> notify.forbidden]
         /\ now \in Nat /\ now \in Times /\ Today \in Days /\ 0 \in Days /\ Days \subseteq Nat
BY TimeIsADay, DaysAreNumbers DEF LoopTypes, Ticks, ClockTypeOK, Times, Today

LEMMA IdleIsTyped ==
  Idle \in Ticks({"none", "sending"}, {0}, SUBSET Pick, SUBSET InFlight, SUBSET Users)
BY DEF Idle, Ticks

\* A message arrives.
LEMMA ArrivalIsAppended ==
  ASSUME LoopTypes, NEW p \in Pick, Arrives(p)
  PROVE  LET n == Len(got[p.user]) + 1
             one == [vacancy |-> p.vacancy, day |-> notify.day]
         IN  /\ got' \in [Users -> Seq(Arrival)]
             /\ n \in Nat \ {0} /\ n \notin DOMAIN got[p.user]
             /\ Len(got'[p.user]) = n /\ DOMAIN got'[p.user] = DOMAIN got[p.user] \cup {n}
             /\ got'[p.user][n] = one
             /\ \A i \in DOMAIN got[p.user] : i < n /\ got'[p.user][i] = got[p.user][i]
             /\ \A u \in Users : u # p.user => got'[u] = got[u]
<1> DEFINE u == p.user
           one == [vacancy |-> p.vacancy, day |-> notify.day]
<1>1. u \in Users /\ one \in Arrival
  BY TickRecord DEF Pick, Arrival
<1>2. got \in [Users -> Seq(Arrival)] /\ got' = [got EXCEPT ![u] = Append(@, one)]
  BY DEF LoopTypes, Arrives
<1>3. got[u] \in Seq(Arrival)
  BY <1>1, <1>2
<1>4. got'[u] = Append(got[u], one) /\ \A w \in Users : w # u => got'[w] = got[w]
  BY <1>1, <1>2
<1>5. got' \in [Users -> Seq(Arrival)]
  BY <1>1, <1>2, <1>3
<1>6. /\ Len(got'[u]) = Len(got[u]) + 1 /\ got'[u][Len(got[u]) + 1] = one
      /\ \A i \in 1..Len(got[u]) : got'[u][i] = got[u][i]
      /\ DOMAIN got[u] = 1..Len(got[u]) /\ DOMAIN got'[u] = 1..(Len(got[u]) + 1)
      /\ Len(got[u]) \in Nat
  BY <1>1, <1>3, <1>4
<1> DEFINE n == Len(got[u]) + 1
<1>7. /\ n \in Nat \ {0} /\ n \notin DOMAIN got[u]
      /\ Len(got'[u]) = n /\ DOMAIN got'[u] = DOMAIN got[u] \cup {n} /\ got'[u][n] = one
  BY <1>6
<1>8. \A i \in DOMAIN got[u] : i < n /\ got'[u][i] = got[u][i]
  BY <1>6
<1> QED BY <1>4, <1>5, <1>7, <1>8

\* A tick starts with what is due and unsent, one vacancy for a user.
LEMMA TickStarts ==
  ASSUME LoopTypes, StartNotifications
  PROVE  /\ UNCHANGED <<clockVars, subscribed, blocked, refuses, news, sentRows, got, lost, raced>>
         /\ up /\ notify.at = "none"
         /\ notify'.at = "sending" /\ notify'.day = Today
         /\ notify'.rows = {} /\ notify'.forbidden = {}
         /\ notify'.picks \subseteq Pick
         /\ notify' \in Ticks({"none", "sending"}, Days, SUBSET Pick, SUBSET InFlight, SUBSET Users)
         /\ \A p, q \in notify'.picks : p.user = q.user => p = q
         /\ \A p \in notify'.picks : p.user \in Users /\ Due(p.user) /\ p.vacancy \in Unsent(p.user)
<1>1. PICK choice \in [Eligible -> Vacancies] :
         /\ \A u \in Eligible : choice[u] \in Unsent(u)
         /\ notify' = [Idle EXCEPT !.at = "sending", !.day = Today,
                                   !.picks = {[user |-> u, vacancy |-> choice[u]] : u \in Eligible}]
  BY DEF StartNotifications
<1> DEFINE new == {[user |-> u, vacancy |-> choice[u]] : u \in Eligible}
<1>2. notify' = [at |-> "sending", day |-> Today, picks |-> new, rows |-> {}, forbidden |-> {}]
  BY <1>1 DEF Idle
<1>3. Eligible \subseteq Users /\ \A u \in Eligible : Due(u)
  BY DEF Eligible, LoopTypes
<1>4. new \subseteq Pick /\ \A p, q \in new : p.user = q.user => p = q
  BY <1>1, <1>3 DEF Pick
<1>5. \A p \in new : p.user \in Users /\ Due(p.user) /\ p.vacancy \in Unsent(p.user)
  BY <1>1, <1>3
<1>6. notify' \in Ticks({"none", "sending"}, Days, SUBSET Pick, SUBSET InFlight, SUBSET Users)
  BY <1>2, <1>4, TickRecord DEF Ticks
<1> HIDE DEF new
<1> QED BY <1>2, <1>4, <1>5, <1>6 DEF StartNotifications

LEMMA SendIs ==
  ASSUME LoopTypes, TickInv, NEW p \in notify.picks, Send(p)
  PROVE  LET n == Len(got[p.user]) + 1 IN
         /\ UNCHANGED <<clockVars, subscribed, blocked, refuses, news, sentRows, lost, raced>>
         /\ notify.at = "sending" /\ p \in Pick /\ Arrives(p)
         /\ n \in Nat \ {0}
         /\ notify'.at = notify.at /\ notify'.day = notify.day /\ notify'.forbidden = notify.forbidden
         /\ notify'.picks = notify.picks \ {p}
         /\ notify'.rows = notify.rows \cup {[pick |-> p, nth |-> n]}
         /\ notify' \in Ticks({"none", "sending"}, Days, SUBSET Pick, SUBSET InFlight, SUBSET Users)
<1>1. p \in Pick /\ notify.at = "sending"
  BY TickRecord DEF TickInv, Idle
<1>2. Arrives(p)
  BY DEF Send
<1> DEFINE n == Len(got[p.user]) + 1
<1>3. n \in Nat \ {0} /\ Len(got'[p.user]) = n
  BY <1>1, <1>2, ArrivalIsAppended
<1>4. notify' = [at |-> notify.at, day |-> notify.day, picks |-> notify.picks \ {p},
                 rows |-> notify.rows \cup {[pick |-> p, nth |-> n]}, forbidden |-> notify.forbidden]
  BY <1>3, TickRecord DEF Send
<1>5. notify' \in Ticks({"none", "sending"}, Days, SUBSET Pick, SUBSET InFlight, SUBSET Users)
  BY <1>1, <1>3, <1>4, TickRecord DEF Ticks, InFlight
<1> QED BY <1>1, <1>2, <1>3, <1>4, <1>5 DEF Send

LEMMA SendForbiddenIs ==
  ASSUME LoopTypes, TickInv, NEW p \in notify.picks, SendForbidden(p)
  PROVE  /\ UNCHANGED <<clockVars, subscribed, blocked, refuses, news, sentRows, got, lost, raced>>
         /\ notify.at = "sending" /\ p \in Pick /\ p.user \in refuses
         /\ notify'.at = notify.at /\ notify'.day = notify.day /\ notify'.rows = notify.rows
         /\ notify'.picks = notify.picks \ {p}
         /\ notify'.forbidden = notify.forbidden \cup {p.user}
         /\ notify' \in Ticks({"none", "sending"}, Days, SUBSET Pick, SUBSET InFlight, SUBSET Users)
<1>1. p \in Pick /\ p.user \in Users /\ notify.at = "sending"
  BY TickRecord DEF TickInv, Idle, Pick
<1>2. notify' = [at |-> notify.at, day |-> notify.day, picks |-> notify.picks \ {p},
                 rows |-> notify.rows, forbidden |-> notify.forbidden \cup {p.user}]
  BY TickRecord DEF SendForbidden
<1>3. notify' \in Ticks({"none", "sending"}, Days, SUBSET Pick, SUBSET InFlight, SUBSET Users)
  BY <1>1, <1>2, TickRecord DEF Ticks
<1> QED BY <1>1, <1>2, <1>3 DEF SendForbidden

LEMMA SendFailsIs ==
  ASSUME LoopTypes, TickInv, NEW p \in notify.picks, SendFails(p)
  PROVE  /\ UNCHANGED <<now, up, moves, subscribed, blocked, refuses, news, sentRows, raced>>
         /\ Fault /\ notify.at = "sending" /\ p \in Pick
         /\ notify'.at = notify.at /\ notify'.day = notify.day /\ notify'.rows = notify.rows
         /\ notify'.picks = notify.picks \ {p}
         /\ notify'.forbidden = notify.forbidden
         /\ notify' \in Ticks({"none", "sending"}, Days, SUBSET Pick, SUBSET InFlight, SUBSET Users)
<1>1. p \in Pick /\ notify.at = "sending"
  BY TickRecord DEF TickInv, Idle, Pick
<1>2. notify' = [at |-> notify.at, day |-> notify.day, picks |-> notify.picks \ {p},
                 rows |-> notify.rows, forbidden |-> notify.forbidden]
  BY TickRecord DEF SendFails
<1>3. notify' \in Ticks({"none", "sending"}, Days, SUBSET Pick, SUBSET InFlight, SUBSET Users)
  BY <1>1, <1>2, TickRecord DEF Ticks
<1> QED BY <1>1, <1>2, <1>3 DEF SendFails, Fault

\* The rows that a tick writes are those of what it has sent.
LEMMA NewRowsAre ==
  ASSUME LoopTypes, TickInv
  PROVE  /\ NewRows \subseteq SentRow /\ IsFiniteSet(NewRows)
         /\ \A s \in NewRows : s.day = notify.day
         /\ \A r \in notify.rows :
              [user |-> r.pick.user, vacancy |-> r.pick.vacancy, day |-> notify.day] \in NewRows
         /\ \A s \in NewRows : \E r \in notify.rows :
              s = [user |-> r.pick.user, vacancy |-> r.pick.vacancy, day |-> notify.day]
<1> DEFINE row(r) == [user |-> r.pick.user, vacancy |-> r.pick.vacancy, day |-> notify.day]
           f == [r \in notify.rows |-> row(r)]
<1>1. \A r \in notify.rows : r.pick \in Pick /\ ~\E s \in sentRows : s.user = r.pick.user /\ s.vacancy = r.pick.vacancy
  BY TickRecord DEF TickInv, InFlight
<1>2. NewRows = {row(r) : r \in notify.rows}
  BY <1>1 DEF NewRows
<1>3. \A r \in notify.rows : row(r) \in SentRow
  BY <1>1, TickRecord DEF SentRow, Pick
<1>4. f \in Surjection(notify.rows, NewRows)
  BY <1>2 DEF Surjection
<1>5. IsFiniteSet(NewRows)
  BY <1>4, FS_Surjection DEF LoopTypes
<1> QED BY <1>2, <1>3, <1>5

LEMMA TickTypesHold ==
  ASSUME LoopTypes, TickInv, ArrivalsInv,
         NotifyStep \/ (NotifyCrash /\ UNCHANGED <<now, moves>> /\ up' \in BOOLEAN /\ faults' \in 0..MaxFaults)
  PROVE  LoopTypes'
<1> DEFINE TickTypes == Ticks({"none", "sending"}, Days, SUBSET Pick, SUBSET InFlight, SUBSET Users)
<1>1. CASE StartNotifications
  BY <1>1, TickStarts, FS_EmptySet DEF LoopTypes, clockVars, ClockTypeOK
<1>2. CASE \E p \in notify.picks : Send(p)
  <2>1. PICK p \in notify.picks : Send(p)
    BY <1>2
  <2>2. got' \in [Users -> Seq(Arrival)]
    BY <2>1, SendIs, ArrivalIsAppended
  <2>3. IsFiniteSet(notify'.rows)
    <3>1. PICK x : notify'.rows = notify.rows \cup {x}
      BY <2>1, SendIs
    <3>2. IsFiniteSet(notify.rows \cup {x})
      BY FS_AddElement DEF LoopTypes
    <3> QED BY <3>1, <3>2
  <2> QED BY <2>1, <2>2, <2>3, SendIs DEF LoopTypes, clockVars, ClockTypeOK
<1>3. CASE \E p \in notify.picks : SendForbidden(p)
  <2>1. PICK p \in notify.picks : SendForbidden(p)
    BY <1>3
  <2> QED BY <2>1, SendForbiddenIs DEF LoopTypes, clockVars, ClockTypeOK
<1>4. CASE \E p \in notify.picks : SendFails(p)
  <2>1. PICK p \in notify.picks : SendFails(p)
    BY <1>4
  <2>2. /\ UNCHANGED <<now, up, moves, subscribed, blocked, refuses, news, sentRows, raced>>
        /\ Fault /\ p \in Pick /\ notify'.rows = notify.rows /\ notify' \in TickTypes
    BY <2>1, SendFailsIs
  <2>3. CASE UNCHANGED <<got, lost>>
    BY <2>2, <2>3, Bounds DEF LoopTypes, ClockTypeOK, Fault
  <2>4. CASE Arrives(p) /\ lost' = [lost EXCEPT ![p.user] = @ \cup {Len(got'[p.user])}]
    <3>1. got' \in [Users -> Seq(Arrival)] /\ Len(got'[p.user]) \in Nat
      BY <2>2, <2>4, ArrivalIsAppended
    <3>2. lost' \in [Users -> SUBSET Nat]
      BY <3>1, <2>4 DEF LoopTypes
    <3> QED BY <2>2, <3>1, <3>2, Bounds DEF LoopTypes, ClockTypeOK, Fault
  <2> QED BY <2>1, <2>3, <2>4 DEF SendFails
<1>5. CASE Persist
  <2>1. sentRows' \subseteq SentRow /\ IsFiniteSet(sentRows')
    BY <1>5, NewRowsAre, FS_Union DEF Persist, LoopTypes
  <2>2. notify' = Idle /\ Idle \in TickTypes /\ Idle.rows = {}
    BY <1>5, IdleIsTyped, TickRecord DEF Persist, Ticks, Idle
  <2>3. blocked' \subseteq Users
    BY <1>5, TickRecord DEF Persist, LoopTypes
  <2> QED BY <1>5, <2>1, <2>2, <2>3, FS_EmptySet DEF Persist, LoopTypes, clockVars, ClockTypeOK
<1>6. CASE Forget /\ notify' = Idle /\ UNCHANGED <<subscribed, blocked, refuses, news, sentRows, got, raced>>
           /\ ClockTypeOK' /\ now' = now
  <2>1. \A r \in notify.rows : r.nth \in Nat
    BY TickRecord DEF InFlight
  <2>2. lost' \in [Users -> SUBSET Nat]
    BY <2>1, <1>6 DEF Forget, LoopTypes
  <2>3. notify' = Idle /\ Idle \in TickTypes /\ Idle.rows = {}
    BY <1>6, IdleIsTyped, TickRecord DEF Ticks, Idle
  <2> QED BY <1>6, <2>2, <2>3, FS_EmptySet DEF LoopTypes
<1>7. CASE PersistFails
  <2>1. ClockTypeOK' /\ now' = now
    BY <1>7, Bounds DEF PersistFails, Fault, LoopTypes, ClockTypeOK
  <2> QED BY <1>7, <1>6, <2>1 DEF PersistFails
<1>8. CASE NotifyCrash /\ UNCHANGED <<now, moves>> /\ up' \in BOOLEAN /\ faults' \in 0..MaxFaults
  <2>1. ClockTypeOK' /\ now' = now
    BY <1>8 DEF LoopTypes, ClockTypeOK
  <2> QED BY <1>8, <1>6, <2>1 DEF NotifyCrash
<1> QED BY <1>1, <1>2, <1>3, <1>4, <1>5, <1>7, <1>8 DEF NotifyStep

\* The users' blocks under the steps of a tick.
LEMMA BlocksAreTicked ==
  ASSUME LoopTypes, TickInv, BlockInv, NotifyStep
  PROVE  BlockInv'
<1>1. CASE StartNotifications
  BY <1>1, TickStarts DEF BlockInv, OnlyBlockersAreMarked
<1>2. CASE \E p \in notify.picks : Send(p)
  BY <1>2, SendIs DEF BlockInv, OnlyBlockersAreMarked
<1>3. CASE \E p \in notify.picks : SendForbidden(p)
  BY <1>3, SendForbiddenIs DEF BlockInv, OnlyBlockersAreMarked
<1>4. CASE \E p \in notify.picks : SendFails(p)
  BY <1>4, SendFailsIs DEF BlockInv, OnlyBlockersAreMarked
<1>5. CASE Persist
  BY <1>5 DEF Persist, Idle, BlockInv, OnlyBlockersAreMarked
<1>6. CASE PersistFails
  BY <1>6 DEF PersistFails, Idle, BlockInv, OnlyBlockersAreMarked
<1> QED BY <1>1, <1>2, <1>3, <1>4, <1>5, <1>6 DEF NotifyStep

\* An idle loop has no tick to be wrong about.
LEMMA IdleIsRight ==
  ASSUME notify' = Idle
  PROVE  TickInv'
BY DEF TickInv, Idle

LEMMA TicksHold ==
  ASSUME LoopTypes, TickInv, NotifyStep
  PROVE  TickInv'
<1>1. CASE StartNotifications
  <2>1. Today' = Today
    BY <1>1, TickStarts DEF clockVars, Today
  <2>2. \A p \in notify'.picks : \A s \in sentRows : ~(s.user = p.user /\ s.vacancy = p.vacancy)
    BY <1>1, TickStarts DEF Unsent
  <2>3. Today \in Nat
    BY TickRecord
  <2> QED BY <1>1, <2>1, <2>2, <2>3, TickStarts DEF TickInv
<1>2. CASE \E p \in notify.picks : Send(p)
  <2>1. PICK p \in notify.picks : Send(p)
    BY <1>2
  <2> DEFINE n == Len(got[p.user]) + 1
  <2> HIDE DEF n
  <2>2. /\ notify'.at = notify.at /\ notify'.day = notify.day /\ notify.at = "sending"
        /\ notify'.picks = notify.picks \ {p}
        /\ notify'.rows = notify.rows \cup {[pick |-> p, nth |-> n]}
        /\ sentRows' = sentRows /\ Today' = Today
    BY <2>1, SendIs DEF n, clockVars, Today
  <2>3. \A r, q \in notify'.rows : r.pick.user = q.pick.user => r = q
    BY <2>2 DEF TickInv
  <2>4. \A q \in notify'.picks, r \in notify'.rows : r.pick.user # q.user
    BY <2>2 DEF TickInv
  <2>5. notify'.picks \cup {r.pick : r \in notify'.rows} \subseteq notify.picks \cup {r.pick : r \in notify.rows}
    BY <2>2
  <2> QED BY <2>2, <2>3, <2>4, <2>5 DEF TickInv
<1>3. CASE \E p \in notify.picks : SendForbidden(p)
  <2>1. PICK p \in notify.picks : SendForbidden(p)
    BY <1>3
  <2> QED BY <2>1, SendForbiddenIs DEF TickInv, clockVars, Today
<1>4. CASE \E p \in notify.picks : SendFails(p)
  <2>1. PICK p \in notify.picks : SendFails(p)
    BY <1>4
  <2> QED BY <2>1, SendFailsIs DEF TickInv, Today
<1>5. CASE Persist \/ PersistFails
  BY <1>5, IdleIsRight DEF Persist, PersistFails
<1> QED BY <1>1, <1>2, <1>3, <1>4, <1>5 DEF NotifyStep

\* A pick has not arrived before, but for what was lost.
LEMMA PicksAreNew ==
  ASSUME LoopTypes, TickInv, ArrivalsInv, NEW p \in notify.picks, p \in Pick,
         NEW i \in DOMAIN got[p.user], got[p.user][i].vacancy = p.vacancy
  PROVE  i \in lost[p.user]
<1> DEFINE u == p.user
<1>1. u \in Users
  BY DEF Pick
<1>2. SUFFICES ASSUME Told(u, i) PROVE FALSE
  BY <1>1 DEF ArrivalsInv
<1>3. CASE [user |-> u, vacancy |-> got[u][i].vacancy, day |-> got[u][i].day] \in sentRows
  BY <1>3 DEF TickInv
<1>4. CASE [pick |-> [user |-> u, vacancy |-> got[u][i].vacancy], nth |-> i] \in notify.rows
  BY <1>4 DEF TickInv
<1> QED BY <1>2, <1>3, <1>4 DEF Told

LEMMA SendKeepsArrivals ==
  ASSUME LoopTypes, TickInv, ArrivalsInv, NEW p \in notify.picks, Send(p)
  PROVE  ArrivalsInv'
<1> DEFINE u == p.user
           n == Len(got[u]) + 1
           one == [vacancy |-> p.vacancy, day |-> notify.day]
<1>1. /\ p \in Pick /\ u \in Users /\ Arrives(p) /\ sentRows' = sentRows /\ lost' = lost
      /\ notify'.rows = notify.rows \cup {[pick |-> p, nth |-> n]} /\ notify'.day = notify.day
      /\ p = [user |-> u, vacancy |-> p.vacancy]
  BY SendIs DEF Pick
<1>2. /\ n \notin DOMAIN got[u] /\ DOMAIN got'[u] = DOMAIN got[u] \cup {n}
      /\ got'[u][n] = one
      /\ \A i \in DOMAIN got[u] : i < n /\ got'[u][i] = got[u][i]
      /\ \A w \in Users : w # u => got'[w] = got[w]
  BY <1>1, ArrivalIsAppended
<1>3. \A i \in DOMAIN got[u] : got[u][i].vacancy = p.vacancy => i \in lost[u]
  BY <1>1, PicksAreNew
<1>4. lost[u] \subseteq DOMAIN got[u] /\ DOMAIN got[u] \subseteq Nat /\ n \in Nat
  BY <1>1, SendIs DEF ArrivalsInv, LoopTypes
<1> HIDE DEF n, u, one
<1>5. \A r \in notify.rows : r.pick.user \in Users
  BY TickRecord DEF InFlight, Pick
<1>6. \A r \in notify'.rows :
         /\ r.nth \in DOMAIN got'[r.pick.user] \ lost'[r.pick.user]
         /\ got'[r.pick.user][r.nth] = [vacancy |-> r.pick.vacancy, day |-> notify'.day]
  <2> SUFFICES ASSUME NEW r \in notify'.rows
               PROVE  /\ r.nth \in DOMAIN got'[r.pick.user] \ lost'[r.pick.user]
                      /\ got'[r.pick.user][r.nth] = [vacancy |-> r.pick.vacancy, day |-> notify'.day]
    OBVIOUS
  <2>1. CASE r \in notify.rows
    BY <2>1, <1>1, <1>2, <1>5 DEF ArrivalsInv
  <2>2. CASE r = [pick |-> p, nth |-> n]
    BY <2>2, <1>1, <1>2, <1>4 DEF u, one
  <2> QED BY <2>1, <2>2, <1>1
<1>7. \A w \in Users : lost'[w] \subseteq DOMAIN got'[w]
  BY <1>1, <1>2 DEF ArrivalsInv
<1>8. \A w \in Users : \A i \in DOMAIN got'[w] \ lost'[w] : Told(w, i)'
  <2> SUFFICES ASSUME NEW w \in Users, NEW i \in DOMAIN got'[w] \ lost'[w] PROVE Told(w, i)'
    OBVIOUS
  <2>1. CASE w # u \/ i # n
    <3>1. i \in DOMAIN got[w] \ lost[w] /\ got'[w][i] = got[w][i]
      BY <2>1, <1>1, <1>2
    <3> QED BY <3>1, <1>1 DEF ArrivalsInv, Told
  <2>2. CASE w = u /\ i = n
    <3>1. [pick |-> [user |-> w, vacancy |-> got'[w][i].vacancy], nth |-> i] = [pick |-> p, nth |-> n]
      BY <2>2, <1>1, <1>2 DEF one
    <3> QED BY <3>1, <1>1 DEF Told
  <2> QED BY <2>1, <2>2
<1>9. \A w \in Users : \A i, j \in DOMAIN got'[w] :
         i < j /\ got'[w][i].vacancy = got'[w][j].vacancy => i \in lost'[w]
  <2> SUFFICES ASSUME NEW w \in Users, NEW i \in DOMAIN got'[w], NEW j \in DOMAIN got'[w],
                      i < j, got'[w][i].vacancy = got'[w][j].vacancy
               PROVE  i \in lost[w]
    BY <1>1
  <2>1. CASE w # u
    BY <2>1, <1>2 DEF ArrivalsInv
  <2>2. CASE w = u /\ j # n
    <3>1. j \in DOMAIN got[u] /\ j < n /\ i # n
      BY <2>2, <1>2, <1>4
    <3>2. i \in DOMAIN got[u]
      BY <3>1, <2>2, <1>2
    <3> QED BY <3>1, <3>2, <2>2, <1>1, <1>2 DEF ArrivalsInv
  <2>3. CASE w = u /\ j = n
    <3>1. i # n /\ i \in DOMAIN got[u]
      BY <2>3, <1>2, <1>4
    <3>2. got[u][i].vacancy = p.vacancy
      BY <3>1, <2>3, <1>2 DEF one
    <3> QED BY <3>1, <3>2, <2>3, <1>3
  <2> QED BY <2>1, <2>2, <2>3
<1> QED BY <1>6, <1>7, <1>8, <1>9 DEF ArrivalsInv

\* A message that arrives without a record is lost at once.
LEMMA SendFailsKeepsArrivals ==
  ASSUME LoopTypes, TickInv, ArrivalsInv, NEW p \in notify.picks, SendFails(p)
  PROVE  ArrivalsInv'
<1>0. /\ sentRows' = sentRows /\ notify'.rows = notify.rows /\ notify'.day = notify.day /\ p \in Pick
  BY SendFailsIs
<1>1. CASE UNCHANGED <<got, lost>>
  BY <1>0, <1>1 DEF ArrivalsInv, Told
<1>2. CASE Arrives(p) /\ lost' = [lost EXCEPT ![p.user] = @ \cup {Len(got'[p.user])}]
  <2> DEFINE u == p.user
             n == Len(got[u]) + 1
  <2>1. u \in Users
    BY <1>0 DEF Pick
  <2>2. /\ n \notin DOMAIN got[u] /\ DOMAIN got'[u] = DOMAIN got[u] \cup {n}
        /\ \A i \in DOMAIN got[u] : i < n /\ got'[u][i] = got[u][i]
        /\ \A w \in Users : w # u => got'[w] = got[w]
        /\ Len(got'[u]) = n /\ got'[u][n] = [vacancy |-> p.vacancy, day |-> notify.day]
    BY <1>0, <1>2, ArrivalIsAppended
  <2>3. lost'[u] = lost[u] \cup {n} /\ \A w \in Users : w # u => lost'[w] = lost[w]
    BY <1>2, <2>1, <2>2 DEF LoopTypes
  <2>4. \A i \in DOMAIN got[u] : got[u][i].vacancy = p.vacancy => i \in lost[u]
    BY <1>0, PicksAreNew
  <2>5. DOMAIN got[u] \subseteq Nat /\ n \in Nat
    BY <2>1 DEF LoopTypes
  <2> HIDE DEF n, u
  <2>6. \A r \in notify.rows : r.pick.user \in Users
    BY TickRecord DEF InFlight, Pick
  <2>7. \A r \in notify'.rows :
           /\ r.nth \in DOMAIN got'[r.pick.user] \ lost'[r.pick.user]
           /\ got'[r.pick.user][r.nth] = [vacancy |-> r.pick.vacancy, day |-> notify'.day]
    BY <1>0, <2>2, <2>3, <2>6 DEF ArrivalsInv
  <2>8. \A w \in Users : lost'[w] \subseteq DOMAIN got'[w]
    BY <2>2, <2>3 DEF ArrivalsInv
  <2>9. \A w \in Users : \A i \in DOMAIN got'[w] \ lost'[w] : Told(w, i)'
    <3> SUFFICES ASSUME NEW w \in Users, NEW i \in DOMAIN got'[w] \ lost'[w] PROVE Told(w, i)'
      OBVIOUS
    <3>1. i \in DOMAIN got[w] \ lost[w] /\ got'[w][i] = got[w][i]
      BY <2>2, <2>3
    <3> QED BY <3>1, <1>0 DEF ArrivalsInv, Told
  <2>10. \A w \in Users : \A i, j \in DOMAIN got'[w] :
           i < j /\ got'[w][i].vacancy = got'[w][j].vacancy => i \in lost'[w]
    <3> SUFFICES ASSUME NEW w \in Users, NEW i \in DOMAIN got'[w], NEW j \in DOMAIN got'[w],
                        i < j, got'[w][i].vacancy = got'[w][j].vacancy
                 PROVE  i \in lost'[w]
      OBVIOUS
    <3>1. CASE w # u
      BY <3>1, <2>2, <2>3 DEF ArrivalsInv
    <3>2. CASE w = u /\ i = n
      BY <3>2, <2>3
    <3>3. CASE w = u /\ i # n /\ j # n
      BY <3>3, <2>1, <2>2, <2>3 DEF ArrivalsInv
    <3>4. CASE w = u /\ i # n /\ j = n
      BY <3>4, <2>2, <2>3, <2>4
    <3> QED BY <3>1, <3>2, <3>3, <3>4
  <2> QED BY <2>7, <2>8, <2>9, <2>10 DEF ArrivalsInv
<1> QED BY <1>1, <1>2 DEF SendFails

\* Rows that are written, or forgotten.
LEMMA PersistKeepsArrivals ==
  ASSUME LoopTypes, TickInv, ArrivalsInv, Persist
  PROVE  ArrivalsInv'
<1>1. /\ notify' = Idle /\ UNCHANGED <<got, lost>> /\ sentRows' = sentRows \cup NewRows
      /\ notify'.rows = {}
  BY DEF Persist, Idle
<1>2. ASSUME NEW u \in Users, NEW i \in DOMAIN got[u] \ lost[u] PROVE Told(u, i)'
  <2>1. CASE [user |-> u, vacancy |-> got[u][i].vacancy, day |-> got[u][i].day] \in sentRows
    BY <2>1, <1>1 DEF Told
  <2>2. CASE [pick |-> [user |-> u, vacancy |-> got[u][i].vacancy], nth |-> i] \in notify.rows
    <3>0. PICK r \in notify.rows : r = [pick |-> [user |-> u, vacancy |-> got[u][i].vacancy], nth |-> i]
      BY <2>2
    <3>1. got[u][i] = [vacancy |-> r.pick.vacancy, day |-> notify.day]
      BY <3>0 DEF ArrivalsInv
    <3>2. [user |-> u, vacancy |-> got[u][i].vacancy, day |-> notify.day] \in NewRows
      BY <2>2, NewRowsAre
    <3> QED BY <3>1, <3>2, <1>1 DEF Told
  <2> QED BY <2>1, <2>2 DEF ArrivalsInv, Told
<1> QED BY <1>1, <1>2 DEF ArrivalsInv

LEMMA ForgetKeepsArrivals ==
  ASSUME LoopTypes, TickInv, ArrivalsInv, Forget, notify' = Idle, UNCHANGED <<got, sentRows>>
  PROVE  ArrivalsInv'
<1>1. notify'.rows = {}
  BY DEF Idle
<1>2. \A u \in Users : lost'[u] = lost[u] \cup {r.nth : r \in {q \in notify.rows : q.pick.user = u}}
  BY DEF Forget
<1>3. ASSUME NEW u \in Users PROVE lost[u] \subseteq lost'[u] /\ lost'[u] \subseteq DOMAIN got[u]
  <2>1. \A r \in notify.rows : r.pick.user = u => r.nth \in DOMAIN got[u]
    BY DEF ArrivalsInv
  <2>2. lost[u] \subseteq DOMAIN got[u]
    BY DEF ArrivalsInv
  <2> QED BY <1>2, <2>1, <2>2
<1>4. ASSUME NEW u \in Users, NEW i \in DOMAIN got[u] \ lost'[u] PROVE Told(u, i)'
  <2>1. Told(u, i)
    BY <1>3 DEF ArrivalsInv
  <2>2. [pick |-> [user |-> u, vacancy |-> got[u][i].vacancy], nth |-> i] \notin notify.rows
    BY <1>2
  <2> QED BY <2>1, <2>2 DEF Told
<1> QED BY <1>1, <1>3, <1>4 DEF ArrivalsInv

LEMMA ArrivalsHold ==
  ASSUME LoopTypes, TickInv, ArrivalsInv, NotifyStep \/ (NotifyCrash /\ UNCHANGED now)
  PROVE  ArrivalsInv'
<1>1. CASE StartNotifications
  <2>1. notify.rows = {} /\ notify'.rows = {} /\ UNCHANGED <<got, lost, sentRows>>
    BY <1>1, TickStarts DEF TickInv, Idle
  <2> QED BY <2>1 DEF ArrivalsInv, Told
<1>2. CASE \E p \in notify.picks : Send(p)
  BY <1>2, SendKeepsArrivals
<1>3. CASE \E p \in notify.picks : SendForbidden(p)
  <2>1. notify'.rows = notify.rows /\ notify'.day = notify.day /\ UNCHANGED <<got, lost, sentRows>>
    BY <1>3, SendForbiddenIs
  <2> QED BY <2>1 DEF ArrivalsInv, Told
<1>4. CASE \E p \in notify.picks : SendFails(p)
  BY <1>4, SendFailsKeepsArrivals
<1>5. CASE Persist
  BY <1>5, PersistKeepsArrivals
<1>6. CASE PersistFails \/ NotifyCrash
  BY <1>6, ForgetKeepsArrivals DEF PersistFails, NotifyCrash
<1> QED BY <1>1, <1>2, <1>3, <1>4, <1>5, <1>6 DEF NotifyStep

-----------------------------------------------------------------------------
(***************************************************************************)
(* The slots of a day.                                                     *)
(***************************************************************************)

LEMMA SlotsAreNumbers ==
  ASSUME ClockTypeOK
  PROVE  SlotsPassed(now) \in Nat /\ MaxPerDay \in Nat /\ Today \in Nat /\ now \in Nat
<1>1. now \in Nat /\ Phase(now) \in 0..3 /\ DayKey(now) \in Nat
  BY DaySplits DEF ClockTypeOK, Times
<1> QED BY <1>1, NotifyAssumption DEF SlotsPassed, Today

LEMMA RowsAreCounted ==
  ASSUME LoopTypes, NEW u, NEW day
  PROVE  /\ IsFiniteSet(RowsOf(u, day)) /\ Cardinality(RowsOf(u, day)) \in Nat
         /\ Room(u, day) \in Nat /\ Cardinality(RowsOf(u, day)) <= Room(u, day)
<1>1. RowsOf(u, day) \in SUBSET sentRows /\ IsFiniteSet(sentRows)
  BY DEF RowsOf, LoopTypes
<1>2. IsFiniteSet(RowsOf(u, day)) /\ Cardinality(RowsOf(u, day)) \in Nat
  BY <1>1, FS_Subset, FS_CardinalityType
<1> QED BY <1>2 DEF Room

\* Nobody has more to come than before.
LEMMA SlotsStand ==
  ASSUME LoopTypes, SlotsInv, sentRows' = sentRows, now' = now,
         \A u \in Users : Served(u)' => Served(u) /\ notify'.day = notify.day
  PROVE  SlotsInv'
<1>1. Today' = Today /\ SlotsPassed(now') = SlotsPassed(now)
  BY DEF Today
<1>2. ASSUME NEW u \in Users, NEW day \in Days PROVE Room(u, day)' \in Nat /\ Room(u, day)' <= Room(u, day)
  <2>1. RowsOf(u, day)' = RowsOf(u, day)
    BY DEF RowsOf
  <2> QED BY <2>1, RowsAreCounted DEF Room
<1>3. ASSUME NEW u \in Users, NEW day \in Days PROVE Room(u, day) \in Nat
  BY RowsAreCounted
<1>4. SlotsPassed(now) \in Nat /\ MaxPerDay \in Nat
  BY SlotsAreNumbers DEF LoopTypes
<1>5. ASSUME NEW u \in Users, NEW day \in Days
      PROVE  Room(u, day)' <= MaxPerDay /\ (day = Today' => Room(u, day)' <= SlotsPassed(now'))
  BY <1>1, <1>2, <1>3, <1>4 DEF SlotsInv
<1> QED BY <1>1, <1>5 DEF SlotsInv

LEMMA StartKeepsSlots ==
  ASSUME LoopTypes, TickInv, SlotsInv, StartNotifications
  PROVE  SlotsInv'
<1>1. /\ now' = now /\ sentRows' = sentRows /\ notify'.day = Today /\ notify'.rows = {}
      /\ \A p \in notify'.picks : p.user \in Users /\ Due(p.user)
      /\ Today' = Today
  BY TickStarts DEF clockVars, Today
<1>2. /\ SlotsPassed(now) \in Nat /\ MaxPerDay \in Nat
  BY SlotsAreNumbers DEF LoopTypes
<1>3. ASSUME NEW u \in Users, NEW day \in Days
      PROVE  Room(u, day)' <= MaxPerDay /\ (day = Today' => Room(u, day)' <= SlotsPassed(now'))
  <2>1. RowsOf(u, day)' = RowsOf(u, day) /\ Cardinality(RowsOf(u, day)) \in Nat
        /\ Cardinality(RowsOf(u, day)) <= Room(u, day) /\ Room(u, day) \in Nat
    BY <1>1, RowsAreCounted DEF RowsOf
  <2>2. CASE day = Today /\ Served(u)'
    <3>1. Due(u)
      BY <2>2, <1>1 DEF Served
    <3>2. Room(u, day)' = Cardinality(RowsOf(u, day)) + 1
      BY <2>1, <2>2, <1>1 DEF Room
    <3> QED BY <3>1, <3>2, <2>1, <2>2, <1>1, <1>2 DEF Due, DueSlots
  <2>3. CASE ~(day = Today /\ Served(u)')
    <3>1. Room(u, day)' = Cardinality(RowsOf(u, day))
      BY <2>1, <2>3, <1>1 DEF Room
    <3>2. Room(u, day) <= MaxPerDay /\ (day = Today => Room(u, day) <= SlotsPassed(now))
      BY DEF SlotsInv
    <3> QED BY <3>1, <3>2, <2>1, <1>1, <1>2
  <2> QED BY <2>2, <2>3
<1> QED BY <1>1, <1>3 DEF SlotsInv

LEMMA PersistKeepsSlots ==
  ASSUME LoopTypes, TickInv, SlotsInv, Persist
  PROVE  SlotsInv'
<1>1. /\ now' = now /\ sentRows' = sentRows \cup NewRows /\ notify' = Idle /\ Today' = Today
      /\ notify.at = "sending" /\ notify.day <= Today
  BY DEF Persist, clockVars, Today, TickInv
<1>2. SlotsPassed(now) \in Nat /\ MaxPerDay \in Nat
  BY SlotsAreNumbers DEF LoopTypes
<1>3. ASSUME NEW u \in Users, NEW day \in Days
      PROVE  Room(u, day)' \in Nat /\ Room(u, day)' <= Room(u, day) /\ Room(u, day) \in Nat
  <2>1. IsFiniteSet(RowsOf(u, day)) /\ Cardinality(RowsOf(u, day)) \in Nat /\ Room(u, day) \in Nat
    BY RowsAreCounted
  <2>2. Room(u, day)' = Cardinality(RowsOf(u, day)')
    <3>1. ~Served(u)'
      BY <1>1 DEF Served, Idle
    <3>2. Cardinality(RowsOf(u, day)') \in Nat
      <4>1. RowsOf(u, day)' \in SUBSET sentRows'
        BY DEF RowsOf
      <4>2. IsFiniteSet(sentRows')
        BY <1>1, NewRowsAre, FS_Union DEF LoopTypes
      <4> QED BY <4>1, <4>2, FS_Subset, FS_CardinalityType
    <3> QED BY <3>1, <3>2 DEF Room
  <2>3. CASE \E r \in notify.rows : r.pick.user = u /\ notify.day = day
    <3>1. PICK r \in notify.rows : r.pick.user = u /\ notify.day = day
      BY <2>3
    <3> DEFINE x == [user |-> u, vacancy |-> r.pick.vacancy, day |-> day]
    <3>2. RowsOf(u, day)' = RowsOf(u, day) \cup {x}
      <4>1. x \in NewRows
        BY <3>1, NewRowsAre
      <4>2. \A s \in NewRows : s.user = u => s = x
        <5> SUFFICES ASSUME NEW s \in NewRows, s.user = u PROVE s = x
          OBVIOUS
        <5>1. PICK q \in notify.rows :
                s = [user |-> q.pick.user, vacancy |-> q.pick.vacancy, day |-> notify.day]
          BY NewRowsAre
        <5>2. q = r
          BY <5>1, <3>1 DEF TickInv
        <5> QED BY <5>1, <5>2, <3>1
      <4> QED BY <4>1, <4>2, <1>1 DEF RowsOf
    <3>3. Cardinality(RowsOf(u, day)') \in Nat
          /\ Cardinality(RowsOf(u, day)') <= Cardinality(RowsOf(u, day)) + 1
      <4> HIDE DEF x
      <4>1. Cardinality(RowsOf(u, day) \cup {x}) = IF x \in RowsOf(u, day) THEN Cardinality(RowsOf(u, day))
                                                   ELSE Cardinality(RowsOf(u, day)) + 1
        BY <2>1, FS_AddElement
      <4> QED BY <3>2, <4>1, <2>1
    <3>4. Room(u, day) = Cardinality(RowsOf(u, day)) + 1
      BY <3>1 DEF Room, Served
    <3> QED BY <3>3, <3>4, <2>1, <2>2
  <2>4. CASE ~\E r \in notify.rows : r.pick.user = u /\ notify.day = day
    <3>1. \A s \in NewRows : ~(s.user = u /\ s.day = day)
      BY <2>4, NewRowsAre
    <3>2. RowsOf(u, day)' = RowsOf(u, day)
      BY <3>1, <1>1 DEF RowsOf
    <3> QED BY <3>2, <2>1, <2>2, RowsAreCounted
  <2> QED BY <2>3, <2>4
<1>4. ASSUME NEW u \in Users, NEW day \in Days
      PROVE  Room(u, day)' <= MaxPerDay /\ (day = Today' => Room(u, day)' <= SlotsPassed(now'))
  BY <1>1, <1>2, <1>3 DEF SlotsInv
<1>5. \A s \in sentRows' : s.day <= Today'
  BY <1>1, NewRowsAre DEF SlotsInv
<1> QED BY <1>4, <1>5 DEF SlotsInv

LEMMA SlotsHold ==
  ASSUME LoopTypes, TickInv, SlotsInv, NotifyStep \/ (NotifyCrash /\ UNCHANGED now)
  PROVE  SlotsInv'
<1>1. CASE StartNotifications
  BY <1>1, StartKeepsSlots
<1>2. CASE \E p \in notify.picks : Send(p)
  <2>1. PICK p \in notify.picks : Send(p)
    BY <1>2
  <2>2. now' = now /\ sentRows' = sentRows /\ notify'.day = notify.day
    BY <2>1, SendIs DEF clockVars
  <2>3. PICK n : notify'.rows = notify.rows \cup {[pick |-> p, nth |-> n]}
                 /\ notify'.picks = notify.picks \ {p}
    BY <2>1, SendIs
  <2>4. \A u \in Users : Served(u)' => Served(u)
    BY <2>3 DEF Served
  <2> QED BY <2>2, <2>4, SlotsStand
<1>3. CASE \E p \in notify.picks : SendForbidden(p)
  <2>1. PICK p \in notify.picks : SendForbidden(p)
    BY <1>3
  <2> QED BY <2>1, SendForbiddenIs, SlotsStand DEF Served, clockVars
<1>4. CASE \E p \in notify.picks : SendFails(p)
  <2>1. PICK p \in notify.picks : SendFails(p)
    BY <1>4
  <2> QED BY <2>1, SendFailsIs, SlotsStand DEF Served
<1>5. CASE Persist
  BY <1>5, PersistKeepsSlots
<1>6. CASE PersistFails \/ (NotifyCrash /\ UNCHANGED now)
  <2>1. notify' = Idle /\ sentRows' = sentRows /\ now' = now
    BY <1>6 DEF PersistFails, NotifyCrash, Fault
  <2> QED BY <2>1, SlotsStand DEF Served, Idle
<1> QED BY <1>1, <1>2, <1>3, <1>4, <1>5, <1>6 DEF NotifyStep

\* A new day begins without rows; a new slot only makes room.
LEMMA SlotsGrow ==
  ASSUME LoopTypes, TickInv, SlotsInv, now' = now + 1, UNCHANGED notifyVars
  PROVE  SlotsInv'
<1>1. SlotsPassed(now) \in Nat /\ MaxPerDay \in Nat /\ Today \in Nat /\ now \in Nat
  BY SlotsAreNumbers DEF LoopTypes
<1>2. /\ Phase(now) \in 0..3 /\ DayKey(now) \in Nat
      /\ Phase(now) < 3 => DayKey(now + 1) = DayKey(now) /\ Phase(now + 1) = Phase(now) + 1
      /\ Phase(now) = 3 => DayKey(now + 1) = DayKey(now) + 1 /\ Phase(now + 1) = 0
  BY <1>1, NextPhase, DaySplits
<1>3. Today' = DayKey(now + 1) /\ Today <= Today' /\ Today' \in Nat
  BY <1>2 DEF Today
<1>4. SlotsPassed(now') \in Nat
  BY <1>2 DEF SlotsPassed
<1>5. ASSUME NEW u \in Users, NEW day \in Days
      PROVE  Room(u, day)' <= MaxPerDay /\ (day = Today' => Room(u, day)' <= SlotsPassed(now'))
  <2>1. Room(u, day)' = Room(u, day) /\ Room(u, day) \in Nat /\ Room(u, day) <= MaxPerDay
    <3>1. Room(u, day)' = Room(u, day)
      BY DEF notifyVars, Room, RowsOf, Served
    <3>2. Room(u, day) \in Nat
      BY RowsAreCounted
    <3>3. Room(u, day) <= MaxPerDay
      BY DEF SlotsInv
    <3> QED BY <3>1, <3>2, <3>3
  <2>2. CASE Today' = Today
    <3>1. SlotsPassed(now) <= SlotsPassed(now')
      BY <2>2, <1>2, <1>3 DEF SlotsPassed, Today
    <3> QED BY <3>1, <2>1, <2>2, <1>1, <1>4 DEF SlotsInv
  <2>3. CASE Today' # Today /\ day = Today'
    <3>1. RowsOf(u, day) = {}
      BY <2>3, <1>1, <1>3 DEF SlotsInv, RowsOf
    <3>2. ~(notify.day = day /\ Served(u))
      BY <2>3, <1>1, <1>3 DEF TickInv, Idle, Served
    <3>3. Room(u, day) = 0
      BY <3>1, <3>2, FS_EmptySet DEF Room
    <3> QED BY <3>3, <2>1, <1>4
  <2> QED BY <2>1, <2>2, <2>3
<1>6. \A s \in sentRows' : s.day <= Today'
  <2>1. \A s \in sentRows : s.day \in Nat /\ s.day <= Today
    BY DaysAreNumbers DEF SlotsInv, LoopTypes, SentRow
  <2> QED BY <2>1, <1>1, <1>3 DEF notifyVars
<1> QED BY <1>5, <1>6 DEF SlotsInv

\* What follows from the invariant.
LEMMA ArrivalsAreRationed ==
  ASSUME LoopTypes, TickInv, ArrivalsInv, SlotsInv
  PROVE  NotificationsAreNotRepeated
<1>1. ASSUME NEW u \in Users, NEW day \in Days
      PROVE  Cardinality({i \in DOMAIN got[u] \ lost[u] : got[u][i].day = day}) <= SlotsOf(day)
  <2> DEFINE mine == {i \in DOMAIN got[u] \ lost[u] : got[u][i].day = day}
             row(i) == [user |-> u, vacancy |-> got[u][i].vacancy, day |-> day]
             told == {i \in mine : row(i) \in sentRows}
             f == [i \in told |-> row(i)]
  <2>1. SlotsPassed(now) \in Nat /\ MaxPerDay \in Nat /\ Today \in Nat /\ day \in Nat
    BY SlotsAreNumbers, DaysAreNumbers DEF LoopTypes
  <2>2. IsFiniteSet(RowsOf(u, day)) /\ Cardinality(RowsOf(u, day)) \in Nat /\ Room(u, day) \in Nat
    BY RowsAreCounted
  <2>3. IsFiniteSet(told) /\ Cardinality(told) <= Cardinality(RowsOf(u, day)) /\ Cardinality(told) \in Nat
    <3>1. f \in [told -> RowsOf(u, day)]
      BY DEF RowsOf
    <3>2. ASSUME NEW i \in told, NEW j \in told, f[i] = f[j] PROVE i = j
      <4>1. got[u][i].vacancy = got[u][j].vacancy /\ i \in Nat /\ j \in Nat
        BY <3>2 DEF LoopTypes
      <4> QED BY <4>1 DEF ArrivalsInv
    <3> HIDE DEF f, told
    <3>3. f \in Injection(told, RowsOf(u, day))
      BY <3>1, <3>2 DEF Injection, IsInjective
    <3> QED BY <3>3, <2>2, FS_Injection, FS_CardinalityType
  <2>4. CASE \E r \in notify.rows : r.pick.user = u /\ notify.day = day
    <3>1. PICK r \in notify.rows : r.pick.user = u /\ notify.day = day
      BY <2>4
    <3>2. mine \subseteq told \cup {r.nth}
      <4> SUFFICES ASSUME NEW i \in mine, i \notin told PROVE i = r.nth
        OBVIOUS
      <4>1. Told(u, i) /\ row(i) \notin sentRows
        BY DEF ArrivalsInv
      <4>2. PICK q \in notify.rows : q = [pick |-> [user |-> u, vacancy |-> got[u][i].vacancy], nth |-> i]
        BY <4>1 DEF Told
      <4>3. q = r
        BY <4>2, <3>1 DEF TickInv
      <4> QED BY <4>2, <4>3
    <3>3. Cardinality(mine) <= Cardinality(told) + 1 /\ Cardinality(mine) \in Nat
      <4> HIDE DEF mine, told
      <4> DEFINE n == r.nth
      <4> HIDE DEF n
      <4>1. IsFiniteSet(told \cup {n})
            /\ Cardinality(told \cup {n}) = IF n \in told THEN Cardinality(told) ELSE Cardinality(told) + 1
        BY <2>3, FS_AddElement
      <4>2. mine \in SUBSET (told \cup {n})
        BY <3>2 DEF n
      <4>3. IsFiniteSet(mine) /\ Cardinality(mine) <= Cardinality(told \cup {n})
        BY <4>1, <4>2, FS_Subset
      <4>4. Cardinality(mine) \in Nat
        BY <4>3, FS_CardinalityType
      <4> QED BY <4>1, <4>3, <4>4, <2>3
    <3>4. Room(u, day) = Cardinality(RowsOf(u, day)) + 1 /\ day <= Today
      BY <3>1, <2>1 DEF Room, Served, TickInv, Idle
    <3> HIDE DEF mine, told
    <3>5. Cardinality(mine) <= Room(u, day)
      BY <3>3, <3>4, <2>2, <2>3
    <3> QED BY <3>3, <3>4, <3>5, <2>1, <2>2 DEF SlotsInv, SlotsOf, mine
  <2>5. CASE ~\E r \in notify.rows : r.pick.user = u /\ notify.day = day
    <3>1. mine = told
      <4> SUFFICES ASSUME NEW i \in mine PROVE row(i) \in sentRows
        OBVIOUS
      <4>1. CASE [pick |-> [user |-> u, vacancy |-> got[u][i].vacancy], nth |-> i] \in notify.rows
        <5>1. PICK q \in notify.rows : q = [pick |-> [user |-> u, vacancy |-> got[u][i].vacancy], nth |-> i]
          BY <4>1
        <5>2. got[q.pick.user][q.nth] = [vacancy |-> q.pick.vacancy, day |-> notify.day]
          BY DEF ArrivalsInv
        <5>3. got[u][i].day = notify.day /\ q.pick.user = u
          BY <5>1, <5>2
        <5> QED BY <5>3, <2>5
      <4> QED BY <4>1 DEF ArrivalsInv, Told
    <3>2. Cardinality(RowsOf(u, day)) <= Room(u, day)
      BY RowsAreCounted
    <3>3. CASE day <= Today
      <4>1. Room(u, day) <= MaxPerDay /\ (day = Today => Room(u, day) <= SlotsPassed(now))
        BY DEF SlotsInv
      <4>2. Cardinality(told) <= Room(u, day)
        BY <3>2, <2>2, <2>3
      <4>3. Room(u, day) <= SlotsOf(day)
        BY <4>1, <3>3, <2>1 DEF SlotsOf
      <4>4. SlotsOf(day) \in Nat
        BY <2>1 DEF SlotsOf
      <4> HIDE DEF mine, told
      <4>5. Cardinality(mine) <= SlotsOf(day)
        BY <3>1, <4>2, <4>3, <4>4, <2>2, <2>3
      <4> QED BY <4>5 DEF mine
    <3>4. CASE ~(day <= Today)
      <4>1. RowsOf(u, day) = {}
        BY <3>4 DEF SlotsInv, RowsOf
      <4>2. Cardinality(RowsOf(u, day)) = 0
        BY <4>1, FS_EmptySet
      <4>3. SlotsOf(day) \in Nat
        BY <2>1 DEF SlotsOf
      <4> HIDE DEF mine, told
      <4>4. Cardinality(mine) = 0
        BY <3>1, <4>2, <2>3
      <4>5. Cardinality(mine) <= SlotsOf(day)
        BY <4>3, <4>4
      <4> QED BY <4>5 DEF mine
    <3> QED BY <3>3, <3>4
  <2> QED BY <2>4, <2>5
<1> QED BY <1>1 DEF NotificationsAreNotRepeated, ArrivalsInv

-----------------------------------------------------------------------------
(***************************************************************************)
(* The nightly roll-up: what the other steps leave of its invariant.       *)
(***************************************************************************)

LEMMA RollupRecord ==
  ASSUME RollupTypes
  PROVE  /\ rollup.at \in {"starting", "sleeping", "reading", "writing"}
         /\ rollup.day \in Days /\ rollup.count \in Nat /\ rollup.days \subseteq Days
         /\ rollup = [at |-> rollup.at, day |-> rollup.day, count |-> rollup.count, days |-> rollup.days]
BY DEF RollupTypes, Rollups

\* A tick starts today, which is not computed yet; it writes rows of its day only.
LEMMA NotifyKeepsCounts ==
  ASSUME LoopTypes, RollupTypes, TickInv, CountsInv, LoopInv, NotifyStep, UNCHANGED rollupVars
  PROVE  CountsInv'
<1>0. /\ Today' = Today /\ Today \in Nat /\ UNCHANGED <<stats, rollup, straddled>>
  BY TickRecord DEF NotifyStep, StartNotifications, Persist, PersistFails, Send, SendForbidden,
     SendFails, Fault, clockVars, Today, rollupVars
<1>1. CASE StartNotifications
  <2>1. /\ sentRows' = sentRows /\ notify'.day = Today /\ notify'.at = "sending"
    BY <1>1, TickStarts
  <2>2. Today \notin DOMAIN stats /\ ~(rollup.at = "writing" /\ rollup.day = Today)
    BY <1>0 DEF CountsInv, LoopInv
  <2> QED BY <1>0, <2>1, <2>2 DEF CountsInv, CountOf
<1>2. CASE \E p \in notify.picks : Send(p) \/ SendForbidden(p) \/ SendFails(p)
  <2>1. /\ sentRows' = sentRows /\ notify'.day = notify.day /\ notify'.at = notify.at
    BY <1>2, SendIs, SendForbiddenIs, SendFailsIs
  <2> QED BY <1>0, <2>1 DEF CountsInv, CountOf
<1>3. CASE Persist
  <2>1. sentRows' = sentRows \cup NewRows /\ notify' = Idle /\ notify.at # "none"
    BY <1>3 DEF Persist
  <2>2. ASSUME NEW d, d # notify.day PROVE CountOf(d)' = CountOf(d)
    <3>1. {r \in sentRows' : r.day = d} = {r \in sentRows : r.day = d}
      BY <2>1, <2>2, NewRowsAre
    <3> QED BY <3>1 DEF CountOf
  <2>3. \A d \in DOMAIN stats \ straddled : d # notify.day
    BY <2>1 DEF CountsInv
  <2>4. rollup.at = "writing" /\ rollup.day \notin straddled => rollup.day # notify.day
    BY <2>1 DEF CountsInv
  <2> QED BY <1>0, <2>1, <2>2, <2>3, <2>4 DEF CountsInv, Idle
<1>4. CASE PersistFails
  BY <1>0, <1>4 DEF PersistFails, CountsInv, CountOf, Idle
<1> QED BY <1>1, <1>2, <1>3, <1>4 DEF NotifyStep

LEMMA NotifyKeepsLoop ==
  ASSUME LoopTypes, RollupTypes, TickInv, LoopInv, NotifyStep, UNCHANGED rollupVars
  PROVE  LoopInv'
<1>0. /\ now' = now /\ up' = up /\ Today' = Today /\ Today \in Nat
      /\ UNCHANGED <<stats, rollup, wake, skipped>>
  BY TickRecord DEF NotifyStep, StartNotifications, Persist, PersistFails, Send, SendForbidden,
     SendFails, Fault, clockVars, Today, rollupVars
<1>1. CASE StartNotifications
  <2>1. up /\ notify'.day = Today
    BY <1>1, TickStarts
  <2> QED BY <1>0, <2>1 DEF LoopInv
<1>2. CASE \E p \in notify.picks : Send(p) \/ SendForbidden(p) \/ SendFails(p)
  <2>1. /\ notify'.day = notify.day /\ notify'.at = notify.at
    BY <1>2, SendIs, SendForbiddenIs, SendFailsIs
  <2>2. up
    BY <1>2 DEF LoopInv, Idle
  <2> QED BY <1>0, <2>1, <2>2 DEF LoopInv
<1>3. CASE Persist \/ PersistFails
  <2>1. notify' = Idle /\ notify'.at = "none"
    BY <1>3 DEF Persist, PersistFails, Idle
  <2> QED BY <1>0, <2>1 DEF LoopInv
<1> QED BY <1>1, <1>2, <1>3 DEF NotifyStep

\* Time passes while the loop sleeps, or while nothing runs.
LEMMA TimeKeepsRollup ==
  ASSUME LoopTypes, RollupTypes, TickInv, CountsInv, LoopInv, StraddleInv, NightIsServed,
         now' = now + 1, UNCHANGED <<up, notifyVars, rollupVars>>
  PROVE  CountsInv' /\ LoopInv' /\ StraddleInv'
<1>1. now \in Nat /\ Today \in Nat /\ Today' \in Nat /\ Today <= Today' /\ Days \subseteq Nat
  <2>1. now \in Nat /\ Days \subseteq Nat
    BY TickRecord
  <2> QED BY <2>1, DaySplits, DaysGrow DEF Today
<1>2. DOMAIN stats \subseteq Nat
  BY <1>1 DEF RollupTypes
<1>3. (rollup.at = "starting" /\ ~up) \/ (rollup.at = "sleeping" /\ now < wake)
  <2>1. CASE up
    BY <2>1 DEF NightIsServed
  <2>2. CASE ~up
    <3>1. rollup.at # "starting" => up
      BY DEF LoopInv
    <3> QED BY <2>2, <3>1
  <2> QED BY <2>1, <2>2
<1>4. CountsInv'
  BY <1>1, <1>2 DEF CountsInv, CountOf, notifyVars, rollupVars
<1>5. LoopInv'
  BY <1>1, <1>3 DEF LoopInv, notifyVars, rollupVars, RollupTypes, Idle
<1>6. StraddleInv'
  <2>1. \A d \in straddled : d \in Nat
    BY <1>1 DEF RollupTypes
  <2>2. \A d \in straddled \cap DOMAIN stats : PhasesPerDay * (d + 1) + 1 <= now'
    BY <1>1, <2>1 DEF StraddleInv, PhasesPerDay
  <2> QED BY <1>3, <2>2 DEF StraddleInv, rollupVars
<1> QED BY <1>4, <1>5, <1>6

LEMMA CrashKeepsRollup ==
  ASSUME LoopTypes, RollupTypes, TickInv, CountsInv, LoopInv, StraddleInv,
         RollupCrash, notify' = Idle, UNCHANGED <<now, sentRows>>, up' = FALSE
  PROVE  RollupTypes' /\ CountsInv' /\ LoopInv' /\ StraddleInv'
<1>1. /\ rollup' = Starting /\ rollup'.at = "starting" /\ skipped' = {} /\ Today' = Today
      /\ UNCHANGED <<stats, wake, straddled>> /\ 0 \in Days
      /\ notify'.at = "none"
  BY TickRecord DEF RollupCrash, Starting, Today, Idle
<1>2. RollupTypes'
  BY <1>1 DEF RollupTypes, Rollups, Starting
<1>3. CountsInv'
  BY <1>1 DEF CountsInv, CountOf
<1>4. LoopInv'
  BY <1>1 DEF LoopInv
<1>5. StraddleInv'
  BY <1>1 DEF StraddleInv
<1> QED BY <1>2, <1>3, <1>4, <1>5

-----------------------------------------------------------------------------
(***************************************************************************)
(* The nightly roll-up: its own steps.                                     *)
(***************************************************************************)

\* The loop goes to sleep, or to its next day.
LEMMA LoopSleeps ==
  ASSUME LoopTypes, Sleep
  PROVE  /\ rollup' = [at |-> "sleeping", day |-> 0, count |-> 0, days |-> {}]
         /\ rollup'.at = "sleeping" /\ rollup' \in Rollups({"sleeping"}, Days, Nat, SUBSET Days)
         /\ wake' \in Nat /\ wake' > now /\ wake' > PhasesPerDay /\ Phase(wake') = 1
         /\ \A d \in Days : PhasesPerDay * (d + 1) + 1 < wake' => d < Today
<1>1. rollup' = [at |-> "sleeping", day |-> 0, count |-> 0, days |-> {}]
  BY DEF Sleep, Starting
<1>2. 0 \in Days /\ Days \subseteq Nat /\ now \in Times /\ now > 0
  BY TickRecord DEF LoopTypes
<1>3. /\ NextRun \in Nat /\ NextRun > now /\ NextRun > 4 /\ Phase(NextRun) = 1
      /\ \A d \in Nat : 4 * (d + 1) + 1 < NextRun => d < Today
  BY <1>2, NightsToCome
<1>4. rollup' \in Rollups({"sleeping"}, Days, Nat, SUBSET Days)
  BY <1>1, <1>2 DEF Rollups
<1> QED BY <1>1, <1>2, <1>3, <1>4 DEF Sleep, PhasesPerDay

LEMMA LoopReads ==
  ASSUME NEW days \in SUBSET Days, days # {}, rollup' = Read(days), Days \subseteq Nat
  PROVE  /\ rollup'.at = "reading" /\ rollup'.count = 0
         /\ rollup'.day \in days /\ rollup'.days = days \ {rollup'.day}
         /\ rollup' \in Rollups({"reading"}, Days, Nat, SUBSET Days)
<1>1. First(days) \in days
  BY FirstIsSmallest
<1> QED BY <1>1 DEF Read, Rollups

\* Parts of the invariant that a step of the loop can disturb.
RollupPart == RollupTypes /\ CountsInv /\ LoopInv /\ StraddleInv

LEMMA NumbersOfDays ==
  ASSUME LoopTypes, RollupTypes
  PROVE  /\ Days \subseteq Nat /\ Today \in Days /\ Today \in Nat /\ 0 \in Days /\ now \in Nat
         /\ DOMAIN stats \subseteq Nat /\ straddled \subseteq Nat /\ skipped \subseteq Nat
         /\ rollup.day \in Nat /\ rollup.days \subseteq Nat /\ notify.day \in Nat
<1>1. Days \subseteq Nat /\ Today \in Days /\ 0 \in Days /\ now \in Nat /\ notify.day \in Days
  BY TickRecord
<1>2. rollup.day \in Days /\ rollup.days \subseteq Days
  BY RollupRecord
<1>3. DOMAIN stats \subseteq Days /\ straddled \subseteq Days /\ skipped \subseteq Days
  BY DEF RollupTypes
<1> QED BY <1>1, <1>2, <1>3

LEMMA BackfillStartsRight ==
  ASSUME LoopTypes, RollupPart, StartBackfill
  PROVE  RollupPart'
<1> USE DEF RollupPart
<1>0. /\ UNCHANGED <<now, up, notify, sentRows, stats, skipped, straddled>> /\ Today' = Today
      /\ up /\ rollup.at = "starting"
  BY DEF StartBackfill, clockVars, notifyVars, Today
<1>1. Days \subseteq Nat /\ Today \in Nat /\ now \in Nat /\ DOMAIN stats \subseteq Nat /\ straddled \subseteq Nat
  BY NumbersOfDays
<1>2. ~(notify.at # "none" /\ notify.day < Today)
  BY <1>0 DEF LoopInv
<1>3. rollup'.at \in {"sleeping", "reading"} => CountsInv'
  BY <1>0 DEF CountsInv, CountOf
<1>4. CASE Missing = {} /\ Sleep
  <2>1. /\ rollup'.at = "sleeping" /\ rollup' \in Rollups({"sleeping"}, Days, Nat, SUBSET Days)
        /\ wake' \in Nat /\ wake' > now /\ wake' > PhasesPerDay /\ Phase(wake') = 1
        /\ \A d \in Days : PhasesPerDay * (d + 1) + 1 < wake' => d < Today
    BY <1>4, LoopSleeps
  <2>2. RollupTypes'
    BY <1>0, <2>1 DEF RollupTypes, Rollups
  <2>3. LoopInv'
    BY <1>0, <1>1, <1>4, <2>1 DEF LoopInv, Missing, CompletedDays
  <2>4. StraddleInv'
    BY <1>0, <1>1, <2>1 DEF StraddleInv, PhasesPerDay
  <2> QED BY <1>3, <2>1, <2>2, <2>3, <2>4
<1>5. CASE Missing # {} /\ rollup' = Read(Missing) /\ wake' = wake
  <2>1. Missing \in SUBSET Days /\ \A d \in Missing : d < Today /\ d \notin DOMAIN stats
    BY DEF Missing, CompletedDays
  <2>2. /\ rollup'.at = "reading" /\ rollup'.day \in Missing /\ rollup'.days = Missing \ {rollup'.day}
        /\ rollup' \in Rollups({"reading"}, Days, Nat, SUBSET Days)
    BY <1>1, <1>5, <2>1, LoopReads
  <2>3. RollupTypes'
    BY <1>0, <1>5, <2>2 DEF RollupTypes, Rollups
  <2>4. \A d \in Days : d < Today => d \in DOMAIN stats \cup Missing
    BY DEF Missing, CompletedDays
  <2>5. LoopInv'
    BY <1>0, <1>2, <2>1, <2>2, <2>4 DEF LoopInv
  <2>6. StraddleInv'
    BY <1>0, <2>1, <2>2 DEF StraddleInv
  <2> QED BY <1>3, <2>2, <2>3, <2>5, <2>6
<1> QED BY <1>4, <1>5 DEF StartBackfill

\* The loop wakes at 00:10, not later.
LEMMA WakesAtTen ==
  ASSUME LoopTypes, RollupTypes, LoopInv, WakeAtNight
  PROVE  /\ now = wake /\ Phase(now) = 1 /\ now = 4 * Today + 1
         /\ Today > 0 /\ Today - 1 \in Days
<1>1. rollup.at = "sleeping" /\ now >= wake /\ wake \in Nat /\ now \in Nat /\ now \in Times
  BY TickRecord DEF WakeAtNight, RollupTypes
<1>2. now = wake /\ Phase(now) = 1 /\ now > 4
  BY <1>1 DEF LoopInv, PhasesPerDay
<1>3. DayKey(now) \in Nat /\ now = 4 * DayKey(now) + Phase(now)
  BY <1>1, DaySplits
<1>4. Today - 1 \in Nat /\ Today - 1 <= DayKey(now) /\ Today \in Nat
  BY <1>2, <1>3 DEF Today
<1>5. Today - 1 \in Days
  BY <1>1, <1>4, EarlierDays
<1> QED BY <1>2, <1>3, <1>4, <1>5 DEF Today

LEMMA NightStartsRight ==
  ASSUME LoopTypes, RollupPart, WakeAtNight
  PROVE  RollupPart'
<1> USE DEF RollupPart
<1>0. /\ UNCHANGED <<now, up, notify, sentRows, stats, wake, skipped, straddled>> /\ Today' = Today
      /\ up /\ rollup.at = "sleeping" /\ rollup' = Read({Today - 1})
  BY DEF WakeAtNight, clockVars, notifyVars, Today
<1>1. Days \subseteq Nat /\ Today \in Nat /\ now \in Nat /\ DOMAIN stats \subseteq Nat /\ straddled \subseteq Nat
  BY NumbersOfDays
<1>2. now = wake /\ Phase(now) = 1 /\ now = 4 * Today + 1 /\ Today > 0 /\ Today - 1 \in Days
  BY WakesAtTen
<1>3. /\ rollup'.at = "reading" /\ rollup'.day = Today - 1 /\ rollup'.days = {}
      /\ rollup' \in Rollups({"reading"}, Days, Nat, SUBSET Days)
  <2> DEFINE y == Today - 1
  <2>1. {y} \in SUBSET Days /\ {y} # {} /\ rollup' = Read({y})
    BY <1>0, <1>2
  <2> HIDE DEF y
  <2>2. /\ rollup'.at = "reading" /\ rollup'.day \in {y} /\ rollup'.days = {y} \ {rollup'.day}
        /\ rollup' \in Rollups({"reading"}, Days, Nat, SUBSET Days)
    BY <1>1, <2>1, LoopReads
  <2> QED BY <2>2 DEF y
<1>4. RollupTypes'
  BY <1>0, <1>3 DEF RollupTypes, Rollups
<1>5. CountsInv'
  BY <1>0, <1>3 DEF CountsInv, CountOf
<1>6. \A d \in Days : d < Today => d \in DOMAIN stats \cup skipped \cup {Today - 1}
  BY <1>0, <1>1, <1>2 DEF LoopInv, PhasesPerDay
<1>7. LoopInv'
  <2>1. Today - 1 < Today /\ (Today - 1) + 1 = Today
    BY <1>1, <1>2
  <2>2. ~up' => notify' = Idle
    BY <1>0
  <2> QED BY <1>0, <1>2, <1>3, <1>6, <2>1, <2>2 DEF LoopInv
<1>8. Today - 1 \notin straddled \cap DOMAIN stats
  BY <1>0, <1>1, <1>2 DEF StraddleInv, PhasesPerDay
<1>9. StraddleInv'
  BY <1>0, <1>3, <1>8 DEF StraddleInv
<1> QED BY <1>4, <1>5, <1>7, <1>9

LEMMA DayIsComputedRight ==
  ASSUME LoopTypes, RollupPart, ComputeDay
  PROVE  RollupPart'
<1> USE DEF RollupPart
<1> DEFINE day == rollup.day
<1>0. /\ UNCHANGED <<now, up, notify, sentRows, stats, wake, skipped>> /\ Today' = Today
      /\ rollup.at = "reading"
      /\ straddled' = IF notify.at # "none" /\ notify.day = day
                      THEN straddled \cup {day} ELSE straddled \ {day}
  BY DEF ComputeDay, clockVars, notifyVars, Today
<1>1. /\ Days \subseteq Nat /\ Today \in Nat /\ now \in Nat /\ DOMAIN stats \subseteq Nat
      /\ straddled \subseteq Nat /\ day \in Nat
  BY NumbersOfDays
<1>2. CountDay \in Nat /\ CountDay = CountOf(day)
  <2>1. {r \in sentRows : r.day = day} \in SUBSET sentRows /\ IsFiniteSet(sentRows)
    BY DEF LoopTypes
  <2> QED BY <2>1, FS_Subset, FS_CardinalityType DEF CountDay, CountOf
<1>3. rollup' = [at |-> "writing", day |-> day, count |-> CountDay, days |-> rollup.days]
  BY RollupRecord DEF ComputeDay
<1>4. RollupTypes'
  <2>1. rollup' \in Rollups({"writing"}, Days, Nat, SUBSET Days) /\ day \in Days
    BY <1>2, <1>3, RollupRecord DEF Rollups
  <2> QED BY <1>0, <2>1 DEF RollupTypes, Rollups
<1>5. notify.at # "none" /\ notify.day = day => PhasesPerDay * (day + 1) + 1 <= now
  <2>1. ASSUME notify.at # "none", notify.day = day PROVE Phase(now) = 1 /\ day + 1 = Today
    BY <2>1, <1>0 DEF LoopInv
  <2>2. now = 4 * Today + Phase(now)
    BY <1>1, DaySplits DEF Today
  <2> QED BY <2>1, <2>2, <1>1 DEF PhasesPerDay
<1>6. day \notin straddled \cap DOMAIN stats
  BY <1>0 DEF StraddleInv
<1>7. CountsInv'
  <2>1. \A d \in DOMAIN stats \ straddled' : stats[d] = CountOf(d)
    BY <1>0, <1>6 DEF CountsInv
  <2>2. \A d : CountOf(d)' = CountOf(d)
    BY <1>0 DEF CountOf
  <2> QED BY <1>0, <1>2, <1>3, <2>1, <2>2 DEF CountsInv
<1>8. LoopInv'
  BY <1>0, <1>3 DEF LoopInv
<1>9. StraddleInv'
  BY <1>0, <1>3, <1>5 DEF StraddleInv
<1> QED BY <1>4, <1>7, <1>8, <1>9

LEMMA DayIsWrittenRight ==
  ASSUME LoopTypes, RollupPart, UpsertDailyStats
  PROVE  RollupPart'
<1> USE DEF RollupPart
<1> DEFINE day == rollup.day
<1>0. /\ UNCHANGED <<now, up, notify, sentRows, straddled>> /\ Today' = Today
      /\ rollup.at = "writing" /\ skipped' = skipped \ {day}
      /\ stats' = [d \in DOMAIN stats \cup {day} |-> IF d = day THEN rollup.count ELSE stats[d]]
  BY DEF UpsertDailyStats, clockVars, notifyVars, Today
<1>1. /\ Days \subseteq Nat /\ Today \in Nat /\ now \in Nat /\ DOMAIN stats \subseteq Nat
      /\ straddled \subseteq Nat /\ day \in Nat /\ rollup.days \subseteq Days /\ day \in Days
      /\ rollup.count \in Nat
  BY NumbersOfDays, RollupRecord
<1>2. /\ DOMAIN stats' = DOMAIN stats \cup {day} /\ stats'[day] = rollup.count
      /\ \A d \in DOMAIN stats : d # day => stats'[d] = stats[d]
  BY <1>0
<1>3. DOMAIN stats' \subseteq Days /\ stats' \in [DOMAIN stats' -> Nat]
      /\ skipped' \subseteq Days /\ straddled' \subseteq Days
  BY <1>0, <1>1, <1>2 DEF RollupTypes
<1>4. rollup'.at \in {"sleeping", "reading"} => CountsInv'
  <2>1. \A d : CountOf(d)' = CountOf(d)
    BY <1>0 DEF CountOf
  <2>2. day < Today
    BY <1>0 DEF LoopInv
  <2>3. \A d \in DOMAIN stats' \ straddled : stats'[d] = CountOf(d)
    BY <1>0, <1>2 DEF CountsInv
  <2> QED BY <1>0, <1>2, <2>1, <2>2, <2>3 DEF CountsInv
<1>5. \A d \in straddled \cap DOMAIN stats' : PhasesPerDay * (d + 1) + 1 <= now
  BY <1>0, <1>2 DEF StraddleInv
<1>6. up
  BY <1>0 DEF LoopInv
<1>7. CASE rollup.days = {} /\ Sleep
  <2>1. /\ rollup'.at = "sleeping" /\ rollup' \in Rollups({"sleeping"}, Days, Nat, SUBSET Days)
        /\ wake' \in Nat /\ wake' > now /\ wake' > PhasesPerDay /\ Phase(wake') = 1
        /\ \A d \in Days : PhasesPerDay * (d + 1) + 1 < wake' => d < Today
    BY <1>7, LoopSleeps
  <2>2. RollupTypes'
    BY <1>3, <2>1 DEF RollupTypes, Rollups
  <2>3. \A d \in Days : d < Today => d \in DOMAIN stats' \cup skipped'
    BY <1>0, <1>2, <1>7 DEF LoopInv
  <2>4. LoopInv'
    BY <1>0, <1>1, <1>6, <2>1, <2>3 DEF LoopInv
  <2>5. StraddleInv'
    BY <1>0, <1>1, <1>5, <2>1 DEF StraddleInv, PhasesPerDay
  <2> QED BY <1>4, <2>1, <2>2, <2>4, <2>5
<1>8. CASE rollup.days # {} /\ rollup' = Read(rollup.days) /\ wake' = wake
  <2>1. /\ rollup'.at = "reading" /\ rollup'.day \in rollup.days
        /\ rollup'.days = rollup.days \ {rollup'.day}
        /\ rollup' \in Rollups({"reading"}, Days, Nat, SUBSET Days)
    BY <1>1, <1>8, LoopReads
  <2>2. RollupTypes'
    BY <1>3, <1>8, <2>1 DEF RollupTypes, Rollups
  <2>3. /\ \A d \in rollup.days : d < Today
        /\ day \notin rollup.days /\ rollup.days \cap DOMAIN stats = {}
        /\ \A d \in Days : d < Today => d \in DOMAIN stats \cup skipped \cup {day} \cup rollup.days
        /\ ~(notify.at # "none" /\ notify.day < Today)
    BY <1>0, <1>8 DEF LoopInv
  <2>4. LoopInv'
    <3>1. \A d \in Days : d < Today =>
             d \in DOMAIN stats' \cup skipped' \cup {rollup'.day} \cup rollup'.days
      BY <1>0, <1>2, <2>1, <2>3
    <3>2. rollup'.day \notin rollup'.days /\ rollup'.days \cap DOMAIN stats' = {}
      BY <1>2, <2>1, <2>3
    <3> QED BY <1>0, <1>6, <2>1, <2>3, <3>1, <3>2 DEF LoopInv
  <2>5. StraddleInv'
    BY <1>0, <1>2, <1>5, <2>1, <2>3 DEF StraddleInv
  <2> QED BY <1>4, <2>1, <2>2, <2>4, <2>5
<1> QED BY <1>7, <1>8 DEF UpsertDailyStats

LEMMA FailuresAreKept ==
  ASSUME LoopTypes, RollupPart, RollupFails
  PROVE  RollupPart'
<1> USE DEF RollupPart
<1>0. /\ UNCHANGED <<now, up, notify, sentRows, stats, straddled>> /\ Today' = Today
      /\ rollup.at \in {"reading", "writing"} /\ Sleep
      /\ skipped' = skipped \cup {rollup.day} \cup rollup.days
  BY DEF RollupFails, Fault, notifyVars, Today
<1>1. /\ Days \subseteq Nat /\ Today \in Nat /\ now \in Nat /\ straddled \subseteq Nat
      /\ rollup.days \subseteq Days /\ rollup.day \in Days
  BY NumbersOfDays, RollupRecord
<1>2. /\ rollup'.at = "sleeping" /\ rollup' \in Rollups({"sleeping"}, Days, Nat, SUBSET Days)
      /\ wake' \in Nat /\ wake' > now /\ wake' > PhasesPerDay /\ Phase(wake') = 1
      /\ \A d \in Days : PhasesPerDay * (d + 1) + 1 < wake' => d < Today
  BY <1>0, LoopSleeps
<1>3. RollupTypes'
  BY <1>0, <1>1, <1>2 DEF RollupTypes, Rollups
<1>4. CountsInv'
  BY <1>0, <1>2 DEF CountsInv, CountOf
<1>5. \A d \in Days : d < Today => d \in DOMAIN stats \cup skipped'
  BY <1>0 DEF LoopInv
<1>6. up
  BY <1>0 DEF LoopInv
<1>7. LoopInv'
  BY <1>0, <1>1, <1>2, <1>5, <1>6 DEF LoopInv
<1>8. StraddleInv'
  BY <1>0, <1>1, <1>2 DEF StraddleInv, PhasesPerDay
<1> QED BY <1>3, <1>4, <1>7, <1>8

LEMMA RollupHolds ==
  ASSUME LoopTypes, RollupPart, RollupStep
  PROVE  RollupPart'
BY BackfillStartsRight, NightStartsRight, DayIsComputedRight, DayIsWrittenRight, FailuresAreKept
   DEF RollupStep

-----------------------------------------------------------------------------
(***************************************************************************)
(* The loops together.                                                     *)
(***************************************************************************)

LEMMA LoopsStartRight == Init => LoopsInv
<1> SUFFICES ASSUME Init PROVE LoopsInv
  OBVIOUS
<1> USE DEF Init
<1>1. ClockTypeOK /\ now = 1 /\ up = TRUE
  BY ClockAssumption DEF ClockInit, ClockTypeOK, Times
<1>2. LoopTypes
  <2>1. 0 \in Days
    BY <1>1, TimeIsADay DEF ClockTypeOK
  <2>2. notify \in Ticks({"none", "sending"}, Days, SUBSET Pick, SUBSET InFlight, SUBSET Users)
    BY <2>1 DEF NotifyInit, Ticks, Idle
  <2>3. got \in [Users -> Seq(Arrival)] /\ lost \in [Users -> SUBSET Nat]
    BY DEF NotifyInit
  <2>4. IsFiniteSet(sentRows) /\ IsFiniteSet(notify.rows)
    BY FS_EmptySet DEF NotifyInit, Idle
  <2> QED BY <1>1, <2>2, <2>3, <2>4 DEF LoopTypes, NotifyInit, NoNews
<1>3. RollupTypes
  BY <1>2, TickRecord DEF RollupInit, RollupTypes, Rollups, Starting
<1>4. WeeklyTypes /\ WeekInv
  BY WeeklyStartsRight
<1>5. BlockInv
  BY DEF NotifyInit, BlockInv, OnlyBlockersAreMarked, NoNews, Idle
<1>6. TickInv
  BY DEF NotifyInit, TickInv, Idle
<1>7. ArrivalsInv
  BY DEF NotifyInit, ArrivalsInv, Idle
<1>8. SlotsInv
  <2>1. ASSUME NEW u, NEW day PROVE Room(u, day) = 0
    <3>1. RowsOf(u, day) = {} /\ ~Served(u)
      BY DEF NotifyInit, RowsOf, Served, Idle
    <3> QED BY <3>1, FS_EmptySet DEF Room
  <2> QED BY <2>1, <1>1, SlotsAreNumbers DEF SlotsInv, NotifyInit
<1>9. CountsInv /\ LoopInv /\ StraddleInv
  BY <1>1 DEF NotifyInit, RollupInit, CountsInv, LoopInv, StraddleInv, Starting, Idle
<1> QED BY <1>2, <1>3, <1>4, <1>5, <1>6, <1>7, <1>8, <1>9 DEF LoopsInv

\* What a step does not touch stands.
LEMMA TicksStand ==
  ASSUME LoopTypes, TickInv, ArrivalsInv, SlotsInv, UNCHANGED <<now, notify, sentRows, got, lost>>
  PROVE  TickInv' /\ ArrivalsInv' /\ SlotsInv'
<1>1. TickInv'
  BY DEF TickInv, Today
<1>2. ArrivalsInv'
  BY DEF ArrivalsInv, Told
<1>3. SlotsInv'
  BY SlotsStand DEF Served
<1> QED BY <1>1, <1>2, <1>3

LEMMA RollupStands ==
  ASSUME RollupPart, UNCHANGED <<now, up, notify, sentRows>>, UNCHANGED rollupVars
  PROVE  RollupPart'
BY DEF RollupPart, RollupTypes, CountsInv, CountOf, LoopInv, StraddleInv, rollupVars, Today

LEMMA StraddlesStand ==
  ASSUME RollupTypes, StraddleInv, UNCHANGED now, UNCHANGED rollupVars
  PROVE  RollupTypes' /\ StraddleInv'
BY DEF RollupTypes, StraddleInv, rollupVars

LEMMA TypesStand ==
  ASSUME LoopTypes, ClockTypeOK', now' > 0, UNCHANGED notifyVars
  PROVE  LoopTypes'
BY DEF LoopTypes, notifyVars

LEMMA BlocksStand ==
  ASSUME BlockInv, UNCHANGED <<blocked, refuses, news, raced>>, notify'.forbidden \subseteq notify.forbidden
  PROVE  BlockInv'
BY DEF BlockInv, OnlyBlockersAreMarked

LEMMA LoopsInvHolds == LoopsInv /\ [Next]_vars => LoopsInv'
<1> SUFFICES ASSUME LoopsInv, [Next]_vars PROVE LoopsInv'
  OBVIOUS
<1>0. /\ LoopTypes /\ RollupTypes /\ WeeklyTypes /\ WeekInv /\ BlockInv /\ TickInv
      /\ ArrivalsInv /\ SlotsInv /\ CountsInv /\ LoopInv /\ StraddleInv /\ RollupPart
      /\ ClockTypeOK /\ now \in Nat /\ now > 0
  BY TickRecord DEF LoopsInv, RollupPart, LoopTypes
<1>1. CASE Advance
  <2>1. now' = now + 1 /\ NightIsServed /\ UNCHANGED <<up, faults, moves>>
        /\ UNCHANGED notifyVars /\ UNCHANGED rollupVars /\ UNCHANGED weeklyVars
    BY <1>1 DEF Advance
  <2>2. ClockTypeOK' /\ now' > 0 /\ now' \in Nat /\ now <= now'
    BY <1>0, <1>1, Bounds DEF Advance, ClockTypeOK, Times
  <2>3. LoopTypes' /\ WeekInv' /\ WeeklyTypes'
    BY <1>0, <2>1, <2>2, TypesStand, WeekStands
  <2>4. BlockInv'
    BY <1>0, <2>1, BlocksStand DEF notifyVars
  <2>5. SlotsInv'
    BY <1>0, <2>1, SlotsGrow
  <2>6. TickInv' /\ ArrivalsInv'
    <3>1. Today \in Nat /\ Today' \in Nat /\ Today <= Today' /\ notify.day \in Nat
      BY <1>0, <2>1, <2>2, DaySplits, DaysGrow, NumbersOfDays DEF Today
    <3> QED BY <1>0, <2>1, <3>1 DEF TickInv, ArrivalsInv, Told, notifyVars
  <2>7. CountsInv' /\ LoopInv' /\ StraddleInv'
    BY <1>0, <2>1, TimeKeepsRollup
  <2>8. RollupTypes'
    BY <1>0, <2>1 DEF RollupTypes, rollupVars
  <2> QED BY <2>3, <2>4, <2>5, <2>6, <2>7, <2>8 DEF LoopsInv
<1>2. CASE Crash
  <2>1. /\ up' = FALSE /\ NotifyCrash /\ RollupCrash /\ WeeklyCrash
        /\ UNCHANGED now /\ UNCHANGED moves /\ faults' \in 0..MaxFaults /\ up' \in BOOLEAN
    <3>1. /\ up' = FALSE /\ faults' = faults + 1 /\ faults < MaxFaults
          /\ UNCHANGED now /\ UNCHANGED moves
      BY <1>2 DEF Crash
    <3>2. NotifyCrash /\ RollupCrash /\ WeeklyCrash
      BY <1>2 DEF Crash
    <3>3. faults \in 0..MaxFaults
      BY <1>0 DEF ClockTypeOK, LoopsInv, LoopTypes
    <3>4. faults' \in 0..MaxFaults
      BY <3>1, <3>3, Bounds
    <3>5. up' \in BOOLEAN
      BY <3>1
    <3> QED BY <3>1, <3>2, <3>4, <3>5
  <2>2. /\ notify' = Idle /\ UNCHANGED <<blocked, refuses, news, sentRows, raced>>
    BY <2>1 DEF NotifyCrash
  <2>3. LoopTypes'
    BY <1>0, <2>1, TickTypesHold
  <2>4. BlockInv'
    BY <1>0, <2>2, BlocksStand DEF Idle
  <2>5. TickInv' /\ ArrivalsInv' /\ SlotsInv'
    BY <1>0, <2>1, <2>2, IdleIsRight, ArrivalsHold, SlotsHold
  <2>6. RollupTypes' /\ CountsInv' /\ LoopInv' /\ StraddleInv'
    BY <1>0, <2>1, <2>2, CrashKeepsRollup
  <2>7. WeeklyTypes' /\ WeekInv'
    BY <1>0, <2>1, WeeklyTypesHold, WeekHolds
  <2> QED BY <2>3, <2>4, <2>5, <2>6, <2>7 DEF LoopsInv
<1>3. CASE Restart
  <2>1. /\ ~up /\ up' = TRUE /\ UNCHANGED <<now, faults, moves>>
        /\ UNCHANGED notifyVars /\ UNCHANGED rollupVars /\ UNCHANGED weeklyVars
    BY <1>3 DEF Restart
  <2>2. ClockTypeOK' /\ now' > 0 /\ now' \in Nat /\ now <= now'
    BY <1>0, <2>1 DEF ClockTypeOK
  <2>3. LoopTypes' /\ WeekInv' /\ WeeklyTypes' /\ BlockInv'
    BY <1>0, <2>1, <2>2, TypesStand, WeekStands, BlocksStand DEF notifyVars
  <2>4. TickInv' /\ ArrivalsInv' /\ SlotsInv'
    BY <1>0, <2>1, TicksStand DEF notifyVars
  <2>5. RollupTypes' /\ StraddleInv'
    BY <1>0, <2>1, StraddlesStand
  <2>6. CountsInv'
    BY <1>0, <2>1 DEF CountsInv, CountOf, notifyVars, rollupVars, Today
  <2>7. LoopInv'
    <3>1. notify = Idle /\ rollup.at = "starting"
      BY <1>0, <2>1 DEF LoopInv
    <3> QED BY <2>1, <3>1 DEF LoopInv, Idle, notifyVars, rollupVars
  <2> QED BY <2>3, <2>4, <2>5, <2>6, <2>7 DEF LoopsInv
<1>4. CASE UserStep /\ UNCHANGED <<rollupVars, weeklyVars>>
  <2>1. UNCHANGED <<now, up, notify, sentRows, got, lost>> /\ UNCHANGED rollupVars /\ UNCHANGED weeklyVars
    BY <1>4 DEF UserStep, ToggleSubscription, BlockBot, UnblockBot, OnMyChatMember, UserWrites,
       Move, clockVars
  <2>2. LoopTypes' /\ BlockInv'
    BY <1>0, <1>4, UserTypesHold, BlocksHold
  <2>3. WeekInv' /\ WeeklyTypes'
    BY <1>0, <2>1, WeekStands
  <2>4. TickInv' /\ ArrivalsInv' /\ SlotsInv'
    BY <1>0, <2>1, TicksStand
  <2>5. RollupPart'
    BY <1>0, <2>1, RollupStands
  <2> QED BY <2>2, <2>3, <2>4, <2>5 DEF LoopsInv, RollupPart
<1>5. CASE NotifyStep /\ UNCHANGED <<rollupVars, weeklyVars>>
  <2>1. UNCHANGED now /\ UNCHANGED rollupVars /\ UNCHANGED weeklyVars
    BY <1>5 DEF NotifyStep, StartNotifications, Persist, PersistFails, Send, SendForbidden,
       SendFails, Fault, clockVars
  <2>2. LoopTypes' /\ BlockInv' /\ TickInv' /\ ArrivalsInv' /\ SlotsInv'
    BY <1>0, <1>5, TickTypesHold, BlocksAreTicked, TicksHold, ArrivalsHold, SlotsHold
  <2>3. WeekInv' /\ WeeklyTypes'
    BY <1>0, <2>1, WeekStands
  <2>4. CountsInv' /\ LoopInv'
    BY <1>0, <1>5, <2>1, NotifyKeepsCounts, NotifyKeepsLoop
  <2>5. RollupTypes' /\ StraddleInv'
    BY <1>0, <2>1, StraddlesStand
  <2> QED BY <2>2, <2>3, <2>4, <2>5 DEF LoopsInv
<1>6. CASE RollupStep /\ UNCHANGED weeklyVars
  <2>1. UNCHANGED <<now, up, moves>> /\ UNCHANGED notifyVars /\ UNCHANGED weeklyVars /\ faults' \in 0..MaxFaults
    BY <1>0, <1>6, Bounds DEF RollupStep, StartBackfill, WakeAtNight, ComputeDay, UpsertDailyStats,
       RollupFails, Fault, clockVars, ClockTypeOK
  <2>2. ClockTypeOK' /\ now' > 0
    BY <1>0, <2>1 DEF ClockTypeOK
  <2>3. LoopTypes' /\ BlockInv'
    BY <1>0, <2>1, <2>2, TypesStand, BlocksStand DEF notifyVars
  <2>4. TickInv' /\ ArrivalsInv' /\ SlotsInv'
    BY <1>0, <2>1, TicksStand DEF notifyVars
  <2>5. RollupPart'
    BY <1>0, <1>6, RollupHolds
  <2>6. WeekInv' /\ WeeklyTypes'
    BY <1>0, <2>1, WeekStands
  <2> QED BY <2>3, <2>4, <2>5, <2>6 DEF LoopsInv, RollupPart
<1>7. CASE (ToggleChannel \/ WeeklyStep) /\ UNCHANGED <<notifyVars, rollupVars>>
  <2>1. /\ UNCHANGED <<now, up>> /\ UNCHANGED notifyVars /\ UNCHANGED rollupVars
        /\ faults' \in 0..MaxFaults /\ moves' \in 0..MaxMoves
    BY <1>0, <1>7, Bounds DEF ToggleChannel, WeeklyStep, StartWeekly, SendWeekly, SendWeeklyFails,
       MarkWeek, MarkWeekFails, Fault, Move, clockVars, ClockTypeOK
  <2>2. ClockTypeOK' /\ now' > 0
    BY <1>0, <2>1 DEF ClockTypeOK
  <2>3. LoopTypes' /\ BlockInv'
    BY <1>0, <2>1, <2>2, TypesStand, BlocksStand DEF notifyVars
  <2>4. TickInv' /\ ArrivalsInv' /\ SlotsInv'
    BY <1>0, <2>1, TicksStand DEF notifyVars
  <2>5. RollupPart'
    BY <1>0, <2>1, RollupStands DEF notifyVars
  <2>6. WeeklyTypes' /\ WeekInv'
    BY <1>0, <1>7, <2>1, WeeklyTypesHold, WeekHolds
  <2> QED BY <2>3, <2>4, <2>5, <2>6 DEF LoopsInv, RollupPart
<1>8. CASE UNCHANGED vars
  <2>1. UNCHANGED clockVars /\ UNCHANGED notifyVars /\ UNCHANGED rollupVars /\ UNCHANGED weeklyVars
    BY <1>8 DEF vars
  <2>2. ClockTypeOK' /\ now' > 0 /\ now' = now /\ up' = up /\ now' \in Nat /\ now <= now'
    BY <1>0, <2>1 DEF ClockTypeOK, clockVars
  <2>3. LoopTypes' /\ BlockInv' /\ WeekInv' /\ WeeklyTypes'
    BY <1>0, <2>1, <2>2, TypesStand, BlocksStand, WeekStands DEF notifyVars
  <2>4. TickInv' /\ ArrivalsInv' /\ SlotsInv'
    BY <1>0, <2>1, <2>2, TicksStand DEF notifyVars
  <2>5. RollupPart'
    BY <1>0, <2>1, <2>2, RollupStands DEF notifyVars
  <2> QED BY <2>3, <2>4, <2>5 DEF LoopsInv, RollupPart
<1> QED BY <1>1, <1>2, <1>3, <1>4, <1>5, <1>6, <1>7, <1>8 DEF Next

THEOREM LoopsAreSound == Spec => []LoopsInv
<1>1. Init => LoopsInv
  BY LoopsStartRight
<1>2. LoopsInv /\ [Next]_vars => LoopsInv'
  BY LoopsInvHolds
<1> QED BY <1>1, <1>2, PTL DEF Spec

\* A vacancy is sent to a user once and on a day as often as slots have come, the
\* weekly post goes out once, and only who refuses the bot is marked, up to the
\* faults that the histories name: whatever ticks, crashes, blocks of users,
\* nights and changes of the channel come between two sends.
THEOREM SendsRecorded == Spec => []SendingIsRecorded
<1>1. LoopsInv => SendingIsRecorded
  BY ArrivalsAreRationed DEF LoopsInv, SendingIsRecorded, WeekInv, BlockInv
<1> QED BY <1>1, LoopsAreSound, PTL

\* A computed day of daily_stats stands for the rows of sent_notifications for
\* good, and no completed day is left out, whenever the process was down.
THEOREM StatsTrue == Spec => []StatsTellTheRows
<1>1. LoopsInv => StatsTellTheRows
  <2> SUFFICES ASSUME LoopsInv PROVE StatsTellTheRows
    OBVIOUS
  <2>1. \A d \in DOMAIN stats \ straddled : stats[d] = Cardinality({r \in sentRows : r.day = d})
    BY DEF LoopsInv, CountsInv, CountOf
  <2>2. up /\ rollup.at = "sleeping" /\ now < wake =>
          \A d \in Days : PhasesPerDay * (d + 1) + 1 < wake => d \in DOMAIN stats \cup skipped
    BY DEF LoopsInv, LoopInv
  <2> QED BY <2>1, <2>2 DEF StatsTellTheRows
<1> QED BY <1>1, LoopsAreSound, PTL

-----------------------------------------------------------------------------
(***************************************************************************)
(* The ingest loop.  Its transactions go through duplicate groups one after *)
(* the other, so the invariant within one is weaker than between two: a row *)
(* waits for its group to be gone through (Waits, Settled), until after the *)
(* last group every open row is found (Finds).                              *)
(***************************************************************************)

\* A row within a transaction: it may have no group yet.
LooseRow ==
  [job : Jobs, open : BOOLEAN, gone : BOOLEAN, grp : Uids \cup {None},
   dup : Uids \cup {None}, fresh : BOOLEAN, failures : 0..GiveUp]
Tables == UNION {[S -> LooseRow] : S \in SUBSET Uids}

\* Grouping writes grp and dup and nothing else.
SameRow(r, t) ==
  /\ t.job = r.job /\ t.open = r.open /\ t.gone = r.gone
  /\ t.fresh = r.fresh /\ t.failures = r.failures
Alike(V, T) == Present(T) = Present(V) /\ \A u \in Present(V) : SameRow(V[u], T[u])

Members(V, g) == {u \in Present(V) : V[u].grp = g \/ u = g}

\* A table is a function from uids to rows.
LEMMA TablesAre ==
  ASSUME NEW V
  PROVE  V \in Tables <=> /\ V = [u \in Present(V) |-> V[u]]
                          /\ Present(V) \subseteq Uids
                          /\ \A u \in Present(V) : V[u] \in LooseRow
BY DEF Tables, Present

WithGroup(r, g, d) == [r EXCEPT !.grp = g, !.dup = d]

\* A row with another group and leading row is otherwise as it was.
LEMMA RegroupedRow ==
  ASSUME NEW r \in LooseRow, NEW g \in Uids \cup {None}, NEW d \in Uids \cup {None},
         NEW t, t = WithGroup(r, g, d)
  PROVE  t \in LooseRow /\ SameRow(r, t) /\ t.grp = g /\ t.dup = d
BY DEF WithGroup, LooseRow, SameRow

\* The same of a row whose group alone changes.
LEMMA MovedRow ==
  ASSUME NEW r \in LooseRow, NEW g \in Uids \cup {None}
  PROVE  LET t == [r EXCEPT !.grp = g] IN
         t \in LooseRow /\ SameRow(r, t) /\ t.grp = g /\ t.dup = r.dup
BY DEF LooseRow, SameRow

\* The canonical row of some rows is one of them, and open when any of them is.
LEMMA CanonicalIsBest ==
  ASSUME NEW V \in Tables, NEW M \in SUBSET Present(V), M # {}
  PROVE  /\ Canonical(V, M) \in M
         /\ (\E u \in M : V[u].open) => V[Canonical(V, M)].open
<1> DEFINE first == IF \E u \in M : V[u].open THEN {u \in M : V[u].open} ELSE M
           ranks == {Rank[u] : u \in first}
<1>1. M \subseteq Uids /\ first \subseteq M /\ first # {}
  BY TablesAre
<1>2. \A u \in Uids : Rank[u] \in Nat
  BY GroupAssumption
<1>3. ranks \in SUBSET Nat /\ ranks # {}
  BY <1>1, <1>2
<1>4. PICK d \in ranks : \A e \in ranks : d <= e
  BY <1>3, SmallestExists
<1>5. PICK b \in first : d = Rank[b]
  OBVIOUS
<1>6. \A w \in first \ {b} : Rank[b] < Rank[w]
  BY <1>1, <1>2, <1>4, <1>5, GroupAssumption
<1>7. \A w \in M : V[w].open \in BOOLEAN
  BY TablesAre DEF LooseRow
<1>8. ASSUME NEW w \in M \ {b} PROVE Better(V, b, w)
  <2>1. CASE \E u \in M : V[u].open
    BY <2>1, <1>6, <1>7 DEF Better
  <2>2. CASE ~\E u \in M : V[u].open
    BY <2>2, <1>6, <1>7 DEF Better
  <2> QED BY <2>1, <2>2
<1>9. b \in M /\ \A w \in M \ {b} : Better(V, b, w)
  BY <1>1, <1>8
<1>10. Canonical(V, M) \in M /\ \A w \in M \ {Canonical(V, M)} : Better(V, Canonical(V, M), w)
  BY <1>9 DEF Canonical
<1>11. ASSUME NEW u \in M, V[u].open, ~V[Canonical(V, M)].open PROVE FALSE
  BY <1>10, <1>11 DEF Better
<1> QED BY <1>10, <1>11

\* What regroup leaves: the members point to their canonical row, the other
\* rows are as they were.
LEMMA RegroupRows ==
  ASSUME NEW V \in Tables, NEW g, NEW T, T = Regroup(V, g),
         NEW M, M = Members(V, g), NEW best, best = Canonical(V, M)
  PROVE  /\ T \in Tables /\ Alike(V, T)
         /\ \A u \in Present(V) \ M : T[u] = V[u]
         /\ M # {} => best \in M
         /\ \A u \in M : T[u].grp = best /\ T[u].dup = (IF u = best THEN None ELSE best)
         /\ (\E u \in M : T[u].open) => T[best].open
<1>1. M \subseteq Present(V) /\ Present(V) \subseteq Uids
  BY TablesAre DEF Members
<1>2. M # {} => best \in M /\ best \in Uids /\ ((\E u \in M : V[u].open) => V[best].open)
  BY <1>1, CanonicalIsBest
<1>3. T = [u \in Present(V) |->
             IF u \in M THEN [V[u] EXCEPT !.grp = best, !.dup = IF u = best THEN None ELSE best]
             ELSE V[u]]
  BY DEF Regroup, Members
<1>4. \A u \in Present(V) : V[u] \in LooseRow
  BY TablesAre
<1>5. \A u \in M : /\ T[u] \in LooseRow /\ SameRow(V[u], T[u])
                   /\ T[u].grp = best /\ T[u].dup = (IF u = best THEN None ELSE best)
  <2> SUFFICES ASSUME NEW u \in M
               PROVE  /\ T[u] \in LooseRow /\ SameRow(V[u], T[u])
                      /\ T[u].grp = best /\ T[u].dup = (IF u = best THEN None ELSE best)
    OBVIOUS
  <2>1. V[u] \in LooseRow /\ best \in Uids \cup {None}
    BY <1>1, <1>2, <1>4
  <2>2. PICK d \in Uids \cup {None} : d = (IF u = best THEN None ELSE best)
    BY <2>1
  <2>3. PICK t : t = T[u]
    OBVIOUS
  <2>4. PICK r \in LooseRow : r = V[u]
    BY <2>1
  <2>5. t = WithGroup(r, best, d)
    BY <1>1, <1>3, <2>2, <2>3, <2>4 DEF WithGroup
  <2>6. t \in LooseRow /\ SameRow(r, t) /\ t.grp = best /\ t.dup = d
    BY <2>1, <2>5, RegroupedRow
  <2> QED BY <2>2, <2>3, <2>4, <2>6
<1>6. \A u \in Present(V) \ M : T[u] = V[u]
  BY <1>3
<1>7. Present(T) = Present(V)
  BY <1>3 DEF Present
<1>8. T \in Tables
  <2>1. \A u \in Present(T) : T[u] \in LooseRow
    BY <1>4, <1>5, <1>6, <1>7
  <2>2. T = [u \in Present(T) |-> T[u]]
    BY <1>3, <1>7
  <2> QED BY <2>1, <2>2, <1>1, <1>7, TablesAre
<1>9. Alike(V, T)
  BY <1>5, <1>6, <1>7 DEF Alike, SameRow
<1>10. (\E u \in M : T[u].open) => T[best].open
  BY <1>1, <1>2, <1>9 DEF Alike, SameRow
<1> QED BY <1>2, <1>5, <1>6, <1>8, <1>9, <1>10

-----------------------------------------------------------------------------
Leads(V, h) == h \in Present(V) /\ V[h].grp = h

\* The row shown for an open row is open, not hidden itself, and its group.
Found(V, u) ==
  LET h == V[u].grp IN
  /\ Leads(V, h) /\ V[h].open /\ V[h].dup = None
  /\ V[u].dup = (IF u = h THEN None ELSE h)

\* A row whose group will be gone through again: it or its leading row is
\* among those whose status changed.
Waits(V, u, moved) == u \in moved \/ (Leads(V, V[u].grp) /\ V[u].grp \in moved)

Sound(V, u, moved) == V[u].open /\ V[u].grp # None => Found(V, u) \/ Waits(V, u, moved)

Settled(V, moved) == \A u \in Present(V) : Sound(V, u, moved)

SettledBut(V, M, moved) == \A u \in Present(V) \ M : Sound(V, u, moved)

Ungrouped(V) == {u \in Present(V) : V[u].grp = None}

\* A row is sound as before when it and its leading row are as before.
LEMMA SoundElsewhere ==
  ASSUME NEW V, NEW W, Present(W) = Present(V), NEW u \in Present(V), NEW moved,
         Sound(V, u, moved), W[u] = V[u],
         Leads(V, V[u].grp) => W[V[u].grp] = V[V[u].grp]
  PROVE  Sound(W, u, moved)
BY DEF Sound, Found, Waits, Leads

\* A row that is a group of its own is sound.
LEMMA AloneIsSound ==
  ASSUME NEW W, NEW u \in Present(W), NEW moved, W[u].grp = u, W[u].dup = None
  PROVE  Sound(W, u, moved)
BY DEF Sound, Found, Leads

\* regroup makes its members sound and leaves the others so.
LEMMA RegroupSettles ==
  ASSUME NEW V \in Tables, NEW g, NEW moved, NEW T, T = Regroup(V, g),
         SettledBut(V, Members(V, g), moved)
  PROVE  /\ T \in Tables /\ Alike(V, T) /\ Settled(T, moved)
         /\ \A u \in Members(V, g) : T[u].open => Found(T, u)
         /\ \A u \in Present(V) \ Members(V, g) : T[u] = V[u]
         /\ Ungrouped(T) = Ungrouped(V) \ Members(V, g)
<1> DEFINE M == Members(V, g)
           best == Canonical(V, M)
<1>1. /\ T \in Tables /\ Alike(V, T)
      /\ \A u \in Present(V) \ M : T[u] = V[u]
      /\ M # {} => best \in M
      /\ \A u \in M : T[u].grp = best /\ T[u].dup = (IF u = best THEN None ELSE best)
      /\ (\E u \in M : T[u].open) => T[best].open
  BY RegroupRows
<1>2. Present(T) = Present(V) /\ M \subseteq Present(V) /\ M \subseteq Uids
  BY <1>1, TablesAre DEF Alike, Members
<1>3. \A u \in M : T[u].open => Found(T, u)
  <2> HIDE DEF M, best
  <2> QED BY <1>1, <1>2 DEF Found, Leads
<1>4. ASSUME NEW w \in Present(V) \ M PROVE Sound(T, w, moved)
  <2>1. Leads(V, V[w].grp) => V[w].grp \notin M
    BY <1>4 DEF Leads, Members
  <2>2. Leads(V, V[w].grp) => T[V[w].grp] = V[V[w].grp]
    BY <2>1, <1>1 DEF Leads
  <2> HIDE DEF M, best
  <2> QED BY <2>2, <1>1, <1>2, <1>4, SoundElsewhere DEF M, SettledBut
<1>5. Settled(T, moved)
  <2> HIDE DEF M, best
  <2> QED BY <1>2, <1>3, <1>4 DEF Settled, Sound
<1>6. None \notin Uids
  BY GroupAssumption
<1>7. Ungrouped(T) = Ungrouped(V) \ M
  <2> HIDE DEF M, best
  <2> QED BY <1>1, <1>2, <1>6 DEF Ungrouped
<1> QED BY <1>1, <1>3, <1>5, <1>7

-----------------------------------------------------------------------------
SingleOut(V, u) == [V EXCEPT ![u].grp = u, ![u].dup = None]
MoveOver(V, A, g) == [w \in Present(V) |-> IF w \in A THEN [V[w] EXCEPT !.grp = g] ELSE V[w]]

\* A table whose row u is a group of its own.
LEMMA SingledOut ==
  ASSUME NEW V \in Tables, NEW u \in Present(V), NEW W,
         W = SingleOut(V, u)
  PROVE  /\ W \in Tables /\ Alike(V, W)
         /\ W[u].grp = u /\ W[u].dup = None
         /\ \A w \in Present(V) \ {u} : W[w] = V[w]
<1>1. u \in Uids /\ V[u] \in LooseRow
  BY TablesAre
<1>2. W = [w \in Present(V) |-> IF w = u THEN [V[u] EXCEPT !.grp = u, !.dup = None] ELSE V[w]]
  BY TablesAre DEF Present, SingleOut
<1>3. /\ W[u] \in LooseRow /\ SameRow(V[u], W[u])
      /\ W[u].grp = u /\ W[u].dup = None
  <2> DEFINE r == V[u]
             t == W[u]
  <2>1. r \in LooseRow /\ t = WithGroup(r, u, None) /\ u \in Uids
    BY <1>1, <1>2 DEF WithGroup
  <2> HIDE DEF r, t
  <2>2. t \in LooseRow /\ SameRow(r, t) /\ t.grp = u /\ t.dup = None
    BY <2>1, RegroupedRow
  <2> QED BY <2>2 DEF r, t
<1>4. \A w \in Present(V) \ {u} : W[w] = V[w]
  BY <1>2
<1>5. Present(W) = Present(V)
  BY <1>2 DEF Present
<1>6. W \in Tables
  <2>1. \A w \in Present(W) : W[w] \in LooseRow
    BY <1>3, <1>4, <1>5, TablesAre
  <2>2. W = [w \in Present(W) |-> W[w]]
    BY <1>2, <1>5
  <2> QED BY <2>1, <2>2, <1>5, TablesAre
<1>7. Alike(V, W)
  BY <1>3, <1>4, <1>5 DEF Alike, SameRow
<1> QED BY <1>3, <1>4, <1>6, <1>7

HasMoved(V, A, g, W) ==
  /\ W \in Tables /\ Alike(V, W)
  /\ \A w \in A : W[w].grp = g
  /\ \A w \in Present(V) \ A : W[w] = V[w]

\* Some rows are given another group.
LEMMA MovedOver ==
  ASSUME NEW V \in Tables, NEW A, A \subseteq Present(V), NEW g \in Uids, NEW W,
         W = MoveOver(V, A, g)
  PROVE  HasMoved(V, A, g, W)
<1>1. \A w \in A : W[w] \in LooseRow /\ SameRow(V[w], W[w]) /\ W[w].grp = g
  <2> SUFFICES ASSUME NEW w \in A
               PROVE  W[w] \in LooseRow /\ SameRow(V[w], W[w]) /\ W[w].grp = g
    OBVIOUS
  <2>1. V[w] \in LooseRow /\ W[w] = [V[w] EXCEPT !.grp = g]
    BY TablesAre DEF MoveOver
  <2> QED BY <2>1, MovedRow
<1>2. \A w \in Present(V) \ A : W[w] = V[w]
  BY DEF MoveOver
<1>3. Present(W) = Present(V)
  BY DEF Present, MoveOver
<1>4. W \in Tables
  <2>1. \A w \in Present(W) : W[w] \in LooseRow
    BY <1>1, <1>2, <1>3, TablesAre
  <2>2. W = [w \in Present(W) |-> W[w]]
    BY <1>3 DEF MoveOver
  <2> QED BY <2>1, <2>2, <1>3, TablesAre
<1>5. Alike(V, W)
  BY <1>1, <1>2, <1>3 DEF Alike, SameRow
<1> QED BY <1>1, <1>2, <1>4, <1>5 DEF HasMoved

\* Two regroupings in a row are one.
LEMMA AlikeIsTransitive ==
  ASSUME NEW V, NEW W, NEW T, Alike(V, W), Alike(W, T)
  PROVE  Alike(V, T)
BY DEF Alike, SameRow

\* What grouping row u anew keeps.
Regrouped(V, T, u, moved) ==
  /\ T \in Tables /\ Alike(V, T) /\ Settled(T, moved)
  /\ Ungrouped(T) \subseteq Ungrouped(V) \ {u}

\* _detach: u is a group of its own, and the rest of its group has a new leader.
LEMMA DetachRegroups ==
  ASSUME NEW V \in Tables, NEW u \in Present(V), V[u].grp # None,
         NEW moved, Settled(V, moved), NEW T, T = Detach(V, u)
  PROVE  Regrouped(V, T, u, moved)
<1> DEFINE g == V[u].grp
           others == {w \in Present(V) \ {u} : V[w].grp = u}
<1>1. PICK W : W = SingleOut(V, u)
  OBVIOUS
<1>2. /\ W \in Tables /\ Alike(V, W)
      /\ W[u].grp = u /\ W[u].dup = None
      /\ \A w \in Present(V) \ {u} : W[w] = V[w]
  BY <1>1, SingledOut
<1>3. Present(W) = Present(V) /\ u \in Uids /\ None \notin Uids
  BY <1>2, TablesAre, GroupAssumption DEF Alike
<1>4. Ungrouped(W) \subseteq Ungrouped(V) \ {u}
  BY <1>2, <1>3 DEF Ungrouped
<1>5. ASSUME NEW w \in Present(V), g # u \/ others = {}
      PROVE  Sound(W, w, moved)
  <2>1. CASE w = u
    BY <2>1, <1>2, <1>3, AloneIsSound
  <2>2. CASE w # u
    <3>1. Leads(V, V[w].grp) => V[w].grp # u
      BY <1>5, <2>2 DEF Leads
    <3>2. Leads(V, V[w].grp) => W[V[w].grp] = V[V[w].grp]
      BY <3>1, <1>2 DEF Leads
    <3> QED BY <3>2, <2>2, <1>2, <1>3, SoundElsewhere DEF Settled
  <2> QED BY <2>1, <2>2
<1>6. CASE g # u
  <2>1. T = Regroup(W, g)
    BY <1>6, <1>1 DEF Detach, SingleOut
  <2>2. SettledBut(W, Members(W, g), moved)
    BY <1>3, <1>5, <1>6 DEF SettledBut
  <2>3. T \in Tables /\ Alike(W, T) /\ Settled(T, moved) /\ Ungrouped(T) \subseteq Ungrouped(W)
    BY <2>1, <2>2, <1>2, RegroupSettles
  <2> QED BY <2>3, <1>2, <1>4, AlikeIsTransitive DEF Regrouped
<1>7. CASE g = u /\ others = {}
  <2>1. T = W
    BY <1>7, <1>1 DEF Detach, SingleOut
  <2> QED BY <2>1, <1>2, <1>3, <1>4, <1>5, <1>7 DEF Regrouped, Settled
<1>8. CASE g = u /\ others # {}
  <2>1. others \in SUBSET Present(W) /\ others # {}
    BY <1>3, <1>8
  <2>2. PICK heir \in others : heir = Canonical(W, others)
    BY <2>1, <1>2, CanonicalIsBest
  <2>3. heir \in Uids /\ heir # u
    BY <1>2, <1>3, TablesAre
  <2>4. PICK X : X = MoveOver(W, others, heir)
    OBVIOUS
  <2>5. T = Regroup(X, heir)
    BY <1>1, <1>3, <1>8, <2>2, <2>4 DEF Detach, SingleOut, MoveOver
  <2>6. /\ X \in Tables /\ Alike(W, X)
        /\ \A w \in others : X[w].grp = heir
        /\ \A w \in Present(W) \ others : X[w] = W[w]
    <3>1. others \subseteq Present(W)
      BY <2>1
    <3> HIDE DEF others
    <3>2. HasMoved(W, others, heir, X)
      BY <3>1, <2>3, <2>4, <1>2, MovedOver
    <3> QED BY <3>2 DEF HasMoved
  <2>7. Present(X) = Present(V)
    BY <2>6, <1>3 DEF Alike
  <2>8. ASSUME NEW w \in Present(X) \ Members(X, heir)
        PROVE  Sound(X, w, moved)
    <3>1. w \in Present(V) \ others
      BY <2>6, <2>7, <2>8 DEF Members
    <3>2. CASE w = u
      BY <3>1, <3>2, <2>6, <2>7, <1>2, <1>3, AloneIsSound
    <3>3. CASE w # u
      <4>1. X[w] = V[w]
        BY <3>1, <3>3, <2>6, <1>2, <1>3
      <4>2. Leads(V, V[w].grp) => V[w].grp \in Present(V) \ others /\ V[w].grp # u
        BY <3>1, <3>3 DEF Leads
      <4>3. Leads(V, V[w].grp) => X[V[w].grp] = V[V[w].grp]
        BY <4>2, <2>6, <1>2, <1>3
      <4> QED BY <3>1, <4>1, <4>3, <2>7, SoundElsewhere DEF Settled
    <3> QED BY <3>2, <3>3
  <2>12. SettledBut(X, Members(X, heir), moved)
    BY <2>8 DEF SettledBut
  <2>9. T \in Tables /\ Alike(X, T) /\ Settled(T, moved) /\ Ungrouped(T) \subseteq Ungrouped(X)
    BY <2>5, <2>6, <2>12, RegroupSettles
  <2>10. Ungrouped(X) \subseteq Ungrouped(W)
    BY <2>3, <2>6, <2>7, <1>3 DEF Ungrouped
  <2>11. Alike(V, T)
    BY <2>6, <2>9, <1>2, AlikeIsTransitive
  <2> QED BY <2>9, <2>10, <2>11, <1>4 DEF Regrouped
<1> QED BY <1>6, <1>7, <1>8

\* A merge: u and the rows it leads join group g.
LEMMA JoinRegroups ==
  ASSUME NEW V \in Tables, NEW u \in Present(V), NEW g \in Uids,
         NEW moved, Settled(V, moved), NEW T, T = Join(V, u, g)
  PROVE  Regrouped(V, T, u, moved)
<1> DEFINE joining == {w \in Present(V) : w = u \/ V[w].grp = u}
<1>1. PICK W : W = MoveOver(V, joining, g)
  OBVIOUS
<1>2. T = Regroup(W, g)
  BY <1>1 DEF Join, MoveOver
<1>3. /\ W \in Tables /\ Alike(V, W)
      /\ \A w \in joining : W[w].grp = g
      /\ \A w \in Present(V) \ joining : W[w] = V[w]
  <2>1. joining \subseteq Present(V)
    OBVIOUS
  <2> HIDE DEF joining
  <2>2. HasMoved(V, joining, g, W)
    BY <2>1, <1>1, MovedOver
  <2> QED BY <2>2 DEF HasMoved
<1>4. Present(W) = Present(V) /\ None \notin Uids
  BY <1>3, GroupAssumption DEF Alike
<1>5. ASSUME NEW w \in Present(W) \ Members(W, g) PROVE Sound(W, w, moved)
  <2>1. w \in Present(V) \ joining
    BY <1>3, <1>4, <1>5 DEF Members
  <2>2. Leads(V, V[w].grp) => V[w].grp \in Present(V) \ joining
    BY <2>1 DEF Leads
  <2>3. Leads(V, V[w].grp) => W[V[w].grp] = V[V[w].grp]
    BY <2>2, <1>3
  <2> QED BY <2>1, <2>3, <1>3, <1>4, SoundElsewhere DEF Settled
<1>6. T \in Tables /\ Alike(W, T) /\ Settled(T, moved) /\ Ungrouped(T) \subseteq Ungrouped(W)
  <2>1. SettledBut(W, Members(W, g), moved)
    BY <1>5 DEF SettledBut
  <2> QED BY <2>1, <1>2, <1>3, RegroupSettles
<1>7. Ungrouped(W) \subseteq Ungrouped(V) \ {u}
  BY <1>3, <1>4 DEF Ungrouped
<1> QED BY <1>3, <1>6, <1>7, AlikeIsTransitive DEF Regrouped

\* assign for one row.
LEMMA AssignRegroups ==
  ASSUME NEW V \in Tables, NEW u \in Present(V),
         NEW moved, Settled(V, moved), NEW T \in Assign(V, u)
  PROVE  Regrouped(V, T, u, moved)
<1>1. CASE V[u].grp # None /\ StillGrouped(V, u)
  <2>1. T = V
    BY <1>1 DEF Assign
  <2> QED BY <2>1, <1>1 DEF Regrouped, Alike, SameRow, Ungrouped
<1>2. CASE ~(V[u].grp # None /\ StillGrouped(V, u))
  <2>1. PICK W : W = (IF V[u].grp = None THEN V ELSE Detach(V, u))
    OBVIOUS
  <2>2. /\ W \in Tables /\ Alike(V, W) /\ Settled(W, moved)
        /\ Ungrouped(W) \subseteq Ungrouped(V)
        /\ V[u].grp # None => u \notin Ungrouped(W)
    <3>1. CASE V[u].grp = None
      BY <2>1, <3>1 DEF Alike, SameRow
    <3>2. CASE V[u].grp # None
      <4>1. W = Detach(V, u)
        BY <2>1, <3>2
      <4>2. Regrouped(V, W, u, moved)
        BY <4>1, <3>2, DetachRegroups
      <4> QED BY <4>2 DEF Regrouped
    <3> QED BY <3>1, <3>2
  <2>3. u \in Present(W) /\ Present(W) = Present(V)
    BY <2>2 DEF Alike
  <2>4. CASE Matches(W, u) = {}
    <3>1. T = Alone(W, u)
      BY <1>2, <2>1, <2>4 DEF Assign
    <3>2. CASE W[u].grp = None
      <4>1. T = SingleOut(W, u)
        BY <3>1, <3>2 DEF Alone, SingleOut
      <4>2. /\ T \in Tables /\ Alike(W, T)
            /\ T[u].grp = u /\ T[u].dup = None
            /\ \A w \in Present(W) \ {u} : T[w] = W[w]
        BY <4>1, <2>2, <2>3, SingledOut
      <4>3. Present(T) = Present(W) /\ u # None
        BY <4>2, <2>2, <2>3, TablesAre, GroupAssumption DEF Alike
      <4>4. ASSUME NEW w \in Present(W) PROVE Sound(T, w, moved)
        <5>1. CASE w = u
          BY <5>1, <4>2, <4>3, AloneIsSound
        <5>2. CASE w # u
          <6>1. Leads(W, W[w].grp) => W[w].grp # u
            BY <3>2, <4>3 DEF Leads
          <6>2. Leads(W, W[w].grp) => T[W[w].grp] = W[W[w].grp]
            BY <6>1, <4>2 DEF Leads
          <6> QED BY <6>2, <5>2, <4>2, <4>3, <2>2, SoundElsewhere DEF Settled
        <5> QED BY <5>1, <5>2
      <4>5. Ungrouped(T) \subseteq Ungrouped(W) \ {u}
        BY <4>2, <4>3 DEF Ungrouped
      <4>6. Alike(V, T)
        BY <4>2, <2>2, AlikeIsTransitive
      <4> QED BY <4>2, <4>3, <4>4, <4>5, <4>6, <2>2 DEF Regrouped, Settled
    <3>3. CASE W[u].grp # None
      <4>1. T = W
        BY <3>1, <3>3 DEF Alone
      <4> QED BY <4>1, <3>3, <2>2 DEF Regrouped, Ungrouped
    <3> QED BY <3>2, <3>3
  <2>5. CASE Matches(W, u) # {}
    <3>1. PICK g \in Matches(W, u) : T = Join(W, u, g)
      BY <1>2, <2>1, <2>5 DEF Assign
    <3>2. PICK w \in Present(W) : g = Group(W, w)
      BY <3>1 DEF Matches
    <3>3. w \in Uids /\ W[w] \in LooseRow
      BY <2>2, <3>2, TablesAre
    <3>4. g \in Uids
      BY <3>2, <3>3 DEF Group, LooseRow
    <3>5. Regrouped(W, T, u, moved)
      BY <3>1, <3>4, <2>2, <2>3, JoinRegroups
    <3>6. Alike(V, T)
      BY <3>5, <2>2, AlikeIsTransitive DEF Regrouped
    <3> QED BY <3>5, <3>6, <2>2 DEF Regrouped
  <2> QED BY <2>4, <2>5
<1> QED BY <1>1, <1>2

-----------------------------------------------------------------------------
\* Counting up to a number reaches it.
LEMMA CountsUp ==
  ASSUME NEW n \in Nat, NEW S, 0 \in S, \A i \in 1..n : i - 1 \in S => i \in S
  PROVE  0..n \subseteq S
<1> SUFFICES ASSUME ~(0..n \subseteq S) PROVE FALSE
  OBVIOUS
<1> DEFINE rest == {i \in 0..n : i \notin S}
<1>1. rest \in SUBSET Nat /\ rest # {}
  OBVIOUS
<1>2. PICK d \in rest : \A e \in rest : d <= e
  <2> HIDE DEF rest
  <2> QED BY <1>1, SmallestExists
<1>3. d \in 1..n /\ d \notin S /\ d - 1 \in 0..n
  BY <1>2
<1>4. d - 1 \notin rest
  <2>1. d - 1 \in rest => d <= d - 1
    BY <1>2
  <2> QED BY <2>1, <1>3
<1>5. d - 1 \in S
  BY <1>3, <1>4
<1> QED BY <1>3, <1>5

\* The recursion of RegroupEach has a solution: what is done is what was done
\* before and one group more.
LEMMA RegroupEachRuns ==
  ASSUME NEW V, NEW gs, NEW n \in Nat, n = Len(gs)
  PROVE  \E done : /\ done[0] = V
                   /\ \A i \in 1..n : done[i] = Regroup(done[i - 1], gs[i])
                   /\ done[n] = RegroupEach(V, gs)
<1> DEFINE Upto(f, k) == [i \in 0..k |-> IF i = 0 THEN V ELSE Regroup(f[i - 1], gs[i])]
           Some == {k \in Nat : \E f : f = Upto(f, k)}
<1>1. 0 \in Some
  <2>1. PICK f : f = [i \in 0..0 |-> V]
    OBVIOUS
  <2>2. f = Upto(f, 0)
    BY <2>1
  <2> QED BY <2>2
<1>2. ASSUME NEW k \in 1..n, k - 1 \in Some PROVE k \in Some
  <2>1. PICK f : f = Upto(f, k - 1)
    BY <1>2
  <2>2. PICK h : h = [i \in 0..k |-> IF i < k THEN f[i] ELSE Regroup(f[k - 1], gs[k])]
    OBVIOUS
  <2>3. \A i \in 0..k : h[i] = IF i = 0 THEN V ELSE Regroup(h[i - 1], gs[i])
    <3> SUFFICES ASSUME NEW i \in 0..k
                 PROVE  h[i] = IF i = 0 THEN V ELSE Regroup(h[i - 1], gs[i])
      OBVIOUS
    <3>1. CASE i = 0
      BY <3>1, <2>1, <2>2
    <3>2. CASE i # 0 /\ i < k
      <4>1. i \in 0..(k - 1) /\ i - 1 \in 0..k /\ i - 1 < k
        BY <3>2
      <4>2. h[i] = f[i] /\ h[i - 1] = f[i - 1]
        BY <4>1, <3>2, <2>2
      <4>3. f[i] = Regroup(f[i - 1], gs[i])
        BY <4>1, <3>2, <2>1
      <4> QED BY <4>2, <4>3, <3>2
    <3>3. CASE i = k
      <4>1. k - 1 \in 0..k /\ k - 1 < k /\ k \in 0..k /\ k # 0
        OBVIOUS
      <4> QED BY <4>1, <3>3, <2>2
    <3> QED BY <3>1, <3>2, <3>3
  <2>4. h = Upto(h, k)
    BY <2>2, <2>3
  <2> QED BY <2>4
<1>3. n \in Some
  <2>1. n \in 0..n
    OBVIOUS
  <2> HIDE DEF Some
  <2> QED BY <2>1, <1>1, <1>2, CountsUp
<1> DEFINE F == CHOOSE f : f = Upto(f, n)
<1>4. F = Upto(F, n)
  BY <1>3
<1>5. RegroupEach(V, gs) = F[n]
  BY DEF RegroupEach
<1> HIDE DEF F
<1>6. F[0] = V /\ \A i \in 1..n : F[i] = Regroup(F[i - 1], gs[i])
  BY <1>4
<1> QED BY <1>5, <1>6

AssignTo(Ts, u, changed) ==
  IF u \in changed THEN UNION {Assign(T, u) : T \in Ts} ELSE Ts

Assigns(done, V, us, changed, n) ==
  /\ done[0] = {V}
  /\ \A i \in 1..n : done[i] = AssignTo(done[i - 1], us[i], changed)
  /\ done[n] = AssignAll(V, us, changed)

\* The same of AssignAll, whose solution is the set of tables so far.
LEMMA AssignAllRuns ==
  ASSUME NEW V, NEW us, NEW changed, NEW n \in Nat, n = Len(us)
  PROVE  \E done : Assigns(done, V, us, changed, n)
<1> DEFINE Upto(f, k) == [i \in 0..k |-> IF i = 0 THEN {V} ELSE AssignTo(f[i - 1], us[i], changed)]
           Some == {k \in Nat : \E f : f = Upto(f, k)}
<1>0. AssignAll(V, us, changed) = (CHOOSE f : f = Upto(f, n))[n]
  BY DEF AssignAll, AssignTo
<1>1. 0 \in Some
  <2>1. PICK f : f = [i \in 0..0 |-> {V}]
    OBVIOUS
  <2>2. f = Upto(f, 0)
    BY <2>1
  <2> QED BY <2>2
<1>2. ASSUME NEW k \in 1..n, k - 1 \in Some PROVE k \in Some
  <2>1. PICK f : f = Upto(f, k - 1)
    BY <1>2
  <2>2. PICK h : h = [i \in 0..k |-> IF i < k THEN f[i] ELSE AssignTo(f[k - 1], us[k], changed)]
    OBVIOUS
  <2>3. \A i \in 0..k : h[i] = IF i = 0 THEN {V} ELSE AssignTo(h[i - 1], us[i], changed)
    <3> SUFFICES ASSUME NEW i \in 0..k
                 PROVE  h[i] = IF i = 0 THEN {V} ELSE AssignTo(h[i - 1], us[i], changed)
      OBVIOUS
    <3>1. CASE i = 0
      BY <3>1, <2>1, <2>2
    <3>2. CASE i # 0 /\ i < k
      <4>1. i \in 0..(k - 1) /\ i - 1 \in 0..k /\ i - 1 < k
        BY <3>2
      <4>2. h[i] = f[i] /\ h[i - 1] = f[i - 1]
        BY <4>1, <3>2, <2>2
      <4>3. f[i] = AssignTo(f[i - 1], us[i], changed)
        BY <4>1, <3>2, <2>1
      <4> QED BY <4>2, <4>3, <3>2
    <3>3. CASE i = k
      <4>1. k - 1 \in 0..k /\ k - 1 < k /\ k \in 0..k /\ k # 0
        OBVIOUS
      <4> QED BY <4>1, <3>3, <2>2
    <3> QED BY <3>1, <3>2, <3>3
  <2>4. h = Upto(h, k)
    BY <2>2, <2>3
  <2> QED BY <2>4
<1>3. n \in Some
  <2>1. n \in 0..n
    OBVIOUS
  <2> HIDE DEF Some
  <2> QED BY <2>1, <1>1, <1>2, CountsUp
<1> DEFINE F == CHOOSE f : f = Upto(f, n)
<1>4. F = Upto(F, n)
  BY <1>3
<1>5. AssignAll(V, us, changed) = F[n]
  BY <1>0
<1> HIDE DEF F
<1>6. F[0] = {V} /\ \A i \in 1..n : F[i] = AssignTo(F[i - 1], us[i], changed)
  <2>1. \A i \in 0..n : F[i] = IF i = 0 THEN {V} ELSE AssignTo(F[i - 1], us[i], changed)
    BY <1>4
  <2>2. 0 \in 0..n /\ \A i \in 1..n : i \in 0..n /\ i # 0
    OBVIOUS
  <2> QED BY <2>1, <2>2
<1> QED BY <1>5, <1>6 DEF Assigns

-----------------------------------------------------------------------------
\* assign for a list of rows: those that changed have a group.
LEMMA AssignAllRegroups ==
  ASSUME NEW V \in Tables, NEW us, NEW n \in Nat, n = Len(us), NEW changed,
         \A i \in 1..n : us[i] \in Present(V),
         NEW moved, Settled(V, moved), NEW T \in AssignAll(V, us, changed)
  PROVE  /\ T \in Tables /\ Alike(V, T) /\ Settled(T, moved)
         /\ \A u \in Ungrouped(T) :
              u \in Ungrouped(V) /\ \A j \in 1..n : us[j] \in changed => u # us[j]
<1> DEFINE Fine(W, i) ==
             /\ W \in Tables /\ Alike(V, W) /\ Settled(W, moved)
             /\ \A u \in Ungrouped(W) :
                  u \in Ungrouped(V) /\ \A j \in 1..i : us[j] \in changed => u # us[j]
<1>0. PICK done : Assigns(done, V, us, changed, n)
  BY AssignAllRuns
<1>1. /\ done[0] = {V}
      /\ \A i \in 1..n : done[i] = AssignTo(done[i - 1], us[i], changed)
      /\ done[n] = AssignAll(V, us, changed)
  BY <1>0 DEF Assigns
<1> DEFINE S == {i \in Nat : \A W \in done[i] : Fine(W, i)}
<1>2. 0 \in S
  <2>1. Fine(V, 0)
    BY DEF Alike, SameRow
  <2> HIDE DEF Fine
  <2> QED BY <2>1, <1>1
<1>3. ASSUME NEW i \in 1..n, i - 1 \in S PROVE i \in S
  <2> SUFFICES ASSUME NEW X \in done[i] PROVE Fine(X, i)
    OBVIOUS
  <2>0. \A j \in 1..i : j \in 1..(i - 1) \/ j = i
    OBVIOUS
  <2>1. CASE us[i] \notin changed
    <3>1. X \in done[i - 1]
      BY <2>1, <1>1 DEF AssignTo
    <3>2. Fine(X, i - 1)
      BY <3>1, <1>3
    <3> QED BY <3>2, <2>0, <2>1
  <2>2. CASE us[i] \in changed
    <3>0. X \in UNION {Assign(W, us[i]) : W \in done[i - 1]}
      BY <2>2, <1>1 DEF AssignTo
    <3>1. PICK W \in done[i - 1] : X \in Assign(W, us[i])
      BY <3>0
    <3>2. Fine(W, i - 1)
      BY <3>1, <1>3
    <3>3. us[i] \in Present(W)
      BY <3>2 DEF Alike
    <3>4. Regrouped(W, X, us[i], moved)
      BY <3>1, <3>2, <3>3, AssignRegroups
    <3>5. X \in Tables /\ Alike(V, X) /\ Settled(X, moved)
      BY <3>2, <3>4, AlikeIsTransitive DEF Regrouped
    <3>6. \A u \in Ungrouped(X) : u \in Ungrouped(W) /\ u # us[i]
      BY <3>4 DEF Regrouped
    <3>7. \A u \in Ungrouped(X) :
            u \in Ungrouped(V) /\ \A j \in 1..i : us[j] \in changed => u # us[j]
      BY <3>2, <3>6, <2>0
    <3> QED BY <3>5, <3>7
  <2> QED BY <2>1, <2>2
<1>4. n \in S
  <2>1. n \in 0..n
    OBVIOUS
  <2> HIDE DEF S
  <2> QED BY <2>1, <1>2, <1>3, CountsUp
<1>5. Fine(T, n)
  BY <1>1, <1>4
<1> QED BY <1>5

\* Every open row is found, or its group will still be gone through.
Finds(V, groups) == \A u \in Present(V) : V[u].open => Found(V, u) \/ V[u].grp \in groups

\* One group less waits: its open rows are found, and those found stay so.
LEMMA RegroupFinds ==
  ASSUME NEW V \in Tables, NEW g, NEW left, Ungrouped(V) = {},
         \A u \in Present(V) : V[u].open => Found(V, u) \/ V[u].grp = g \/ V[u].grp \in left,
         NEW T, T = Regroup(V, g)
  PROVE  T \in Tables /\ Alike(V, T) /\ Ungrouped(T) = {} /\ Finds(T, left)
<1>1. SettledBut(V, Members(V, g), Present(V))
  BY DEF SettledBut, Sound, Waits
<1>2. /\ T \in Tables /\ Alike(V, T) /\ Ungrouped(T) = Ungrouped(V) \ Members(V, g)
      /\ \A u \in Members(V, g) : T[u].open => Found(T, u)
      /\ \A u \in Present(V) \ Members(V, g) : T[u] = V[u]
  BY <1>1, RegroupSettles
<1>3. Present(T) = Present(V)
  BY <1>2 DEF Alike
<1>4. ASSUME NEW u \in Present(V) \ Members(V, g), V[u].open
      PROVE  Found(T, u) \/ T[u].grp \in left
  <2>1. CASE Found(V, u)
    <3>1. Leads(V, V[u].grp) /\ V[u].grp \notin Members(V, g)
      BY <1>4, <2>1 DEF Found, Leads, Members
    <3>2. T[V[u].grp] = V[V[u].grp] /\ T[u] = V[u]
      BY <3>1, <1>2, <1>4 DEF Leads
    <3> QED BY <3>2, <2>1, <1>3 DEF Found, Leads
  <2>2. CASE V[u].grp \in left
    BY <2>2, <1>2, <1>4
  <2> QED BY <2>1, <2>2, <1>4 DEF Members
<1> QED BY <1>2, <1>3, <1>4 DEF Finds

\* The groups of the rows whose status changed are all that wait.
LEMMA WaitingIsListed ==
  ASSUME NEW X \in Tables, NEW moved, Settled(X, moved), Ungrouped(X) = {}
  PROVE  IsFiniteSet(GroupsOf(X, moved)) /\ Finds(X, GroupsOf(X, moved))
<1>1. IsFiniteSet(GroupsOf(X, moved))
  <2>1. GroupsOf(X, moved) \subseteq Uids
    BY TablesAre DEF GroupsOf, LooseRow
  <2> QED BY <2>1, GroupAssumption, FS_Subset
<1>2. ASSUME NEW u \in Present(X), X[u].open
      PROVE  Found(X, u) \/ X[u].grp \in GroupsOf(X, moved)
  <2>1. X[u].grp # None
    BY DEF Ungrouped
  <2>2. Found(X, u) \/ Waits(X, u, moved)
    BY <2>1, <1>2 DEF Settled, Sound
  <2>3. Waits(X, u, moved) => \E w \in moved \cap Present(X) : X[w].grp = X[u].grp
    BY DEF Waits, Leads
  <2> QED BY <2>1, <2>2, <2>3 DEF GroupsOf
<1> QED BY <1>1, <1>2 DEF Finds

\* Whatever the order, going through the groups makes every open row found.
LEMMA RegroupAllFinds ==
  ASSUME NEW V \in Tables, NEW groups, IsFiniteSet(groups), Ungrouped(V) = {},
         Finds(V, groups), NEW T \in RegroupAll(V, groups)
  PROVE  T \in Tables /\ Alike(V, T) /\ Ungrouped(T) = {} /\ Finds(T, {})
<1> DEFINE n == Cardinality(groups)
<1>1. n \in Nat /\ IsFiniteSet(1..n) /\ Cardinality(1..n) = n
  BY FS_CardinalityType, FS_Interval
<1>2. PICK gs \in SetToSeqs(groups) : T = RegroupEach(V, gs)
  BY DEF RegroupAll
<1>3. gs \in Injection(1..n, groups)
  BY <1>2 DEF SetToSeqs, Injection, IsInjective
<1>4. gs \in Surjection(1..n, groups)
  BY <1>1, <1>3, FS_Injection
<1>5. \A g \in groups : \E i \in 1..n : gs[i] = g
  BY <1>4 DEF Surjection
<1>6. n = Len(gs)
  <2> HIDE DEF n
  <2> QED BY <1>1, <1>3 DEF Injection
<1>7. PICK done : /\ done[0] = V
                  /\ \A i \in 1..n : done[i] = Regroup(done[i - 1], gs[i])
                  /\ done[n] = T
  BY <1>1, <1>2, <1>6, RegroupEachRuns
<1> HIDE DEF n
<1> DEFINE Left(i) == {gs[k] : k \in (i + 1)..n}
           Fine(W, i) == W \in Tables /\ Alike(V, W) /\ Ungrouped(W) = {} /\ Finds(W, Left(i))
           S == {i \in Nat : Fine(done[i], i)}
<1>8. 0 \in S
  <2>1. \A g \in groups : g \in Left(0)
    BY <1>5
  <2>2. Finds(V, Left(0))
    BY <2>1 DEF Finds
  <2>3. Alike(V, V)
    BY DEF Alike, SameRow
  <2> HIDE DEF Left
  <2> QED BY <2>2, <2>3, <1>7
<1>9. ASSUME NEW i \in 1..n, i - 1 \in S PROVE i \in S
  <2>1. PICK W : W = done[i - 1]
    OBVIOUS
  <2>2. W \in Tables /\ Alike(V, W) /\ Ungrouped(W) = {} /\ Finds(W, Left(i - 1))
    BY <2>1, <1>9
  <2>3. \A g \in Left(i - 1) : g = gs[i] \/ g \in Left(i)
    <3>1. \A k \in (i - 1 + 1)..n : k = i \/ k \in (i + 1)..n
      BY <1>1
    <3> QED BY <3>1
  <2>4. \A u \in Present(W) : W[u].open => Found(W, u) \/ W[u].grp = gs[i] \/ W[u].grp \in Left(i)
    <3> HIDE DEF Left
    <3> QED BY <2>2, <2>3 DEF Finds
  <2>5. PICK X : X = done[i]
    OBVIOUS
  <2>6. X = Regroup(W, gs[i])
    BY <2>1, <2>5, <1>7
  <2>7. X \in Tables /\ Alike(W, X) /\ Ungrouped(X) = {} /\ Finds(X, Left(i))
    <3> HIDE DEF Left
    <3> QED BY <2>2, <2>4, <2>6, RegroupFinds
  <2>8. Fine(X, i)
    BY <2>2, <2>7, AlikeIsTransitive
  <2> HIDE DEF Fine
  <2> QED BY <2>5, <2>8
<1>10. n \in S
  <2>1. n \in 0..n
    BY <1>1
  <2> HIDE DEF S
  <2> QED BY <2>1, <1>1, <1>8, <1>9, CountsUp
<1>11. Fine(T, n)
  BY <1>7, <1>10
<1>12. Left(n) = {}
  BY <1>1
<1> QED BY <1>11, <1>12

-----------------------------------------------------------------------------
(***************************************************************************)
(* The store between transactions: every row has a group, every open row is *)
(* found, and a row that is gone is closed.                                *)
(***************************************************************************)
StoreOK(V) ==
  /\ V \in Tables /\ Ungrouped(V) = {} /\ Finds(V, {})
  /\ \A u \in Present(V) : V[u].gone => ~V[u].open

IsSighting(s) == s.uid \in Uids /\ s.job \in Jobs /\ s.open \in BOOLEAN

Resighted(r, s) ==
  [r EXCEPT !.job = s.job, !.fresh = TRUE, !.open = IF r.gone THEN @ ELSE s.open]

\* A row listed again keeps its group, and its status when it is gone.
LEMMA ResightedRow ==
  ASSUME NEW r \in LooseRow, NEW s, IsSighting(s), NEW t, t = Resighted(r, s)
  PROVE  /\ t \in LooseRow /\ t.grp = r.grp /\ t.dup = r.dup /\ t.gone = r.gone
         /\ t.open = IF r.gone THEN r.open ELSE s.open
BY DEF Resighted, LooseRow, IsSighting

\* A row listed for the first time has no group and is not gone.
LEMMA NewRowIsLoose ==
  ASSUME NEW s, IsSighting(s)
  PROVE  /\ NewRow(s) \in LooseRow /\ NewRow(s).grp = None
         /\ ~NewRow(s).gone /\ NewRow(s).open = s.open
BY IngestAssumption DEF NewRow, LooseRow, IsSighting

\* A page is a sequence of sightings, one for each vacancy it names.
LEMMA PageIs ==
  ASSUME NEW source, NEW page \in Pages(source)
  PROVE  /\ Len(page) \in Nat /\ DOMAIN page = 1..Len(page)
         /\ \A s \in ToSet(page) : IsSighting(s)
         /\ \A s \in ToSet(page) : SightingOf(page, s.uid) = s
<1>1. PICK m \in Nat : page \in [1..m -> Sightings(source)]
  <2>1. page \in UNION {[1..m -> Sightings(source)] : m \in 0..PageSize}
    BY DEF Pages, BoundedSeq, SeqOf
  <2>2. PICK m \in 0..PageSize : page \in [1..m -> Sightings(source)]
    BY <2>1
  <2> QED BY <2>2, IngestAssumption
<1>2. m = Len(page) /\ DOMAIN page = 1..m
  BY <1>1
<1>3. \A s \in Sightings(source) : IsSighting(s)
  <2> SUFFICES ASSUME NEW s \in Sightings(source) PROVE IsSighting(s)
    OBVIOUS
  <2>1. PICK u \in Mine(source) : s \in {[uid |-> u, job |-> j, open |-> o] : j \in JobsOf[u], o \in BOOLEAN}
    BY DEF Sightings
  <2>2. PICK j \in JobsOf[u], o \in BOOLEAN : s = [uid |-> u, job |-> j, open |-> o]
    BY <2>1
  <2>3. u \in Uids /\ j \in Jobs
    BY IngestAssumption DEF Mine
  <2> QED BY <2>2, <2>3 DEF IsSighting
<1>4. \A s \in ToSet(page) : s \in Sightings(source)
  BY <1>1 DEF ToSet
<1>5. \A i, k \in DOMAIN page : page[i].uid = page[k].uid => i = k
  BY DEF Pages
<1>6. \A s, t \in ToSet(page) : s.uid = t.uid => s = t
  BY <1>5 DEF ToSet
<1>7. \A s \in ToSet(page) : SightingOf(page, s.uid) = s
  BY <1>6 DEF SightingOf
<1> QED BY <1>1, <1>2, <1>3, <1>4, <1>7

\* What a page leaves before its rows are grouped.
LEMMA SightLeaves ==
  ASSUME NEW V \in Tables, NEW source, NEW page \in Pages(source), NEW W, W = Sight(V, page)
  PROVE  /\ W \in Tables
         /\ \A u \in Present(V) : u \in Present(W)
         /\ \A u \in Present(W) : u \in Present(V) \/ \E s \in ToSet(page) : s.uid = u
         /\ \A s \in ToSet(page) : s.uid \in Present(W)
         /\ \A u \in Present(V) : (\A s \in ToSet(page) : s.uid # u) => W[u] = V[u]
         /\ \A s \in ToSet(page) :
              IF s.uid \in Present(V)
              THEN /\ W[s.uid].grp = V[s.uid].grp /\ W[s.uid].dup = V[s.uid].dup
                   /\ W[s.uid].gone = V[s.uid].gone
                   /\ W[s.uid].open = IF V[s.uid].gone THEN V[s.uid].open ELSE s.open
              ELSE W[s.uid].grp = None /\ ~W[s.uid].gone
<1> DEFINE named == {s.uid : s \in ToSet(page)}
<1>1. W = [u \in Present(V) \cup named |->
             IF u \in named THEN SightedRow(V, SightingOf(page, u)) ELSE V[u]]
  BY DEF Sight
<1>2. Present(W) = Present(V) \cup named
  BY <1>1 DEF Present
<1>3. \A s \in ToSet(page) : IsSighting(s) /\ W[s.uid] = SightedRow(V, s)
  BY <1>1, PageIs
<1>4. \A u \in Present(V) : (\A s \in ToSet(page) : s.uid # u) => W[u] = V[u]
  BY <1>1
<1>5. ASSUME NEW s \in ToSet(page), s.uid \in Present(V)
      PROVE  /\ W[s.uid] \in LooseRow
             /\ W[s.uid].grp = V[s.uid].grp /\ W[s.uid].dup = V[s.uid].dup
             /\ W[s.uid].gone = V[s.uid].gone
             /\ W[s.uid].open = IF V[s.uid].gone THEN V[s.uid].open ELSE s.open
  <2>1. PICK r : r = V[s.uid]
    OBVIOUS
  <2>2. PICK t : t = W[s.uid]
    OBVIOUS
  <2>3. r \in LooseRow
    BY <2>1, <1>5, TablesAre
  <2>4. t = Resighted(r, s)
    BY <2>1, <2>2, <1>3, <1>5 DEF SightedRow, Resighted
  <2>5. /\ t \in LooseRow /\ t.grp = r.grp /\ t.dup = r.dup /\ t.gone = r.gone
        /\ t.open = IF r.gone THEN r.open ELSE s.open
    BY <2>3, <2>4, <1>3, ResightedRow
  <2> QED BY <2>1, <2>2, <2>5
<1>6. ASSUME NEW s \in ToSet(page), s.uid \notin Present(V)
      PROVE  W[s.uid] \in LooseRow /\ W[s.uid].grp = None /\ ~W[s.uid].gone
  <2>1. W[s.uid] = NewRow(s)
    BY <1>3, <1>6 DEF SightedRow
  <2> QED BY <2>1, <1>3, NewRowIsLoose
<1>7. W \in Tables
  <2>1. \A u \in Present(W) : W[u] \in LooseRow
    BY <1>2, <1>4, <1>5, <1>6, TablesAre
  <2>2. W = [u \in Present(W) |-> W[u]]
    BY <1>1, <1>2
  <2>3. Present(W) \subseteq Uids
    BY <1>2, <1>3, TablesAre DEF IsSighting
  <2> QED BY <2>1, <2>2, <2>3, TablesAre
<1> QED BY <1>2, <1>4, <1>5, <1>6, <1>7

\* A page stored: every open row is still found, and no row that is gone came back.
LEMMA PagesKeepTheStore ==
  ASSUME StoreOK(table), NEW source, NEW page \in Pages(source), NEW T \in UpsertBatch(page)
  PROVE  /\ StoreOK(T)
         /\ \A u \in Present(table) : u \in Present(T) /\ (table[u].gone => ~T[u].open)
<1> DEFINE uids == [i \in DOMAIN page |-> page[i].uid]
           changed == {s.uid : s \in {x \in ToSet(page) : Changed(x)}}
           moved == {s.uid : s \in {x \in ToSet(page) : StatusChanged(x)}}
           n == Len(page)
<1>1. PICK W : W = Sight(table, page)
  OBVIOUS
<1>2. /\ W \in Tables
      /\ \A u \in Present(table) : u \in Present(W)
      /\ \A u \in Present(W) : u \in Present(table) \/ \E s \in ToSet(page) : s.uid = u
      /\ \A s \in ToSet(page) : s.uid \in Present(W)
      /\ \A u \in Present(table) : (\A s \in ToSet(page) : s.uid # u) => W[u] = table[u]
      /\ \A s \in ToSet(page) :
           IF s.uid \in Present(table)
           THEN /\ W[s.uid].grp = table[s.uid].grp /\ W[s.uid].dup = table[s.uid].dup
                /\ W[s.uid].gone = table[s.uid].gone
                /\ W[s.uid].open = IF table[s.uid].gone THEN table[s.uid].open ELSE s.open
           ELSE W[s.uid].grp = None /\ ~W[s.uid].gone
  BY <1>1, SightLeaves DEF StoreOK
<1>3. /\ table \in Tables /\ Ungrouped(table) = {} /\ None \notin Uids
      /\ \A u \in Present(table) : table[u].open => Found(table, u)
      /\ \A u \in Present(table) : table[u].gone => ~table[u].open
  BY GroupAssumption DEF StoreOK, Finds
<1>4. /\ n \in Nat /\ DOMAIN page = 1..n /\ DOMAIN uids = 1..n
      /\ \A s \in ToSet(page) : IsSighting(s)
  BY PageIs
<1>5. \A s \in ToSet(page) : s.uid \notin Present(table) => s.uid \in changed
  BY DEF Changed
<1>6. \A s \in ToSet(page) :
        ~s.open \/ (s.uid \in Present(table) /\ ~table[s.uid].open) => s.uid \in moved
  BY DEF StatusChanged
<1>7. PICK X \in AssignAll(W, uids, changed) : T \in RegroupAll(X, GroupsOf(X, moved))
  <2>1. T \in UNION {RegroupAll(V, GroupsOf(V, moved)) : V \in AssignAll(W, uids, changed)}
    BY <1>1 DEF UpsertBatch
  <2> QED BY <2>1
<1>8. Len(uids) = n /\ \A i \in 1..n : uids[i] \in Present(W)
  BY <1>2, <1>4 DEF ToSet
<1>9. \A u \in Ungrouped(W) : \E i \in 1..n : uids[i] = u /\ uids[i] \in changed
  <2>1. \A u \in Ungrouped(W) : \E s \in ToSet(page) : s.uid = u /\ s.uid \notin Present(table)
    <3> HIDE DEF uids, changed, moved, n
    <3> QED BY <1>2, <1>3 DEF Ungrouped
  <2>2. \A s \in ToSet(page) : \E i \in 1..n : uids[i] = s.uid
    BY <1>4 DEF ToSet
  <2> HIDE DEF uids, changed, moved, n
  <2> QED BY <2>1, <2>2, <1>5
<1> HIDE DEF uids, changed, moved, n
<1>10. ASSUME NEW u \in Present(W), W[u].open, W[u].grp # None
       PROVE  Found(W, u) \/ Waits(W, u, moved)
  <2>1. u \in Present(table)
    BY <1>2, <1>10
  <2>2. CASE ~table[u].open
    <3>1. PICK s \in ToSet(page) : s.uid = u
      BY <2>1, <2>2, <1>2, <1>10
    <3> QED BY <3>1, <2>1, <2>2, <1>6 DEF Waits
  <2>3. CASE table[u].open
    <3>1. Found(table, u) /\ W[u].grp = table[u].grp /\ W[u].dup = table[u].dup
      BY <2>1, <2>3, <1>2, <1>3
    <3>2. PICK h : h = table[u].grp
      OBVIOUS
    <3>3. /\ h \in Present(table) /\ table[h].grp = h /\ table[h].open /\ table[h].dup = None
          /\ ~table[h].gone /\ h \in Present(W)
      BY <3>1, <3>2, <1>2, <1>3 DEF Found, Leads
    <3>4. W[h].grp = h /\ W[h].dup = None
      BY <3>3, <1>2
    <3>5. W[h].open \/ h \in moved
      BY <3>3, <1>2, <1>6
    <3> QED BY <3>1, <3>2, <3>3, <3>4, <3>5 DEF Found, Leads, Waits
  <2> QED BY <2>2, <2>3
<1>11. Settled(W, moved)
  BY <1>10 DEF Settled, Sound
<1>12. /\ X \in Tables /\ Alike(W, X) /\ Settled(X, moved)
       /\ \A u \in Ungrouped(X) :
            u \in Ungrouped(W) /\ \A j \in 1..n : uids[j] \in changed => u # uids[j]
  BY <1>2, <1>4, <1>7, <1>8, <1>11, AssignAllRegroups
<1>13. Ungrouped(X) = {}
  BY <1>9, <1>12
<1>14. IsFiniteSet(GroupsOf(X, moved)) /\ Finds(X, GroupsOf(X, moved))
  BY <1>12, <1>13, WaitingIsListed
<1>16. T \in Tables /\ Alike(X, T) /\ Ungrouped(T) = {} /\ Finds(T, {})
  BY <1>7, <1>12, <1>13, <1>14, RegroupAllFinds
<1>17. Alike(W, T)
  BY <1>12, <1>16, AlikeIsTransitive
<1>18. \A u \in Present(W) : W[u].gone => ~W[u].open
  BY <1>2, <1>3
<1>19. \A u \in Present(table) : table[u].gone => ~W[u].open
  BY <1>2, <1>3
<1> QED BY <1>2, <1>16, <1>17, <1>18, <1>19 DEF StoreOK, Alike, SameRow

-----------------------------------------------------------------------------
\* Rows whose group and status stay, with the open ones among them: what
\* recording a failure, growing stale and the purge do.
LEMMA OpenRowsStay ==
  ASSUME NEW V, StoreOK(V), NEW T \in Tables, Present(T) \subseteq Present(V),
         \A u \in Present(V) : V[u].open => u \in Present(T),
         \A u \in Present(T) : /\ T[u].grp = V[u].grp /\ T[u].dup = V[u].dup
                               /\ T[u].open = V[u].open /\ T[u].gone = V[u].gone
  PROVE  StoreOK(T)
BY DEF StoreOK, Finds, Found, Leads, Ungrouped

Shut(r, gone) == [r EXCEPT !.open = FALSE, !.gone = gone]

\* A closed row keeps its group.
LEMMA ShutRow ==
  ASSUME NEW r \in LooseRow, NEW gone \in BOOLEAN, NEW t, t = Shut(r, gone)
  PROVE  t \in LooseRow /\ t.grp = r.grp /\ t.dup = r.dup /\ ~t.open
BY DEF Shut, LooseRow

\* The rows closed, before their groups have a new canonical row.
LEMMA ClosedLeaves ==
  ASSUME NEW V \in Tables, NEW us, NEW gone \in BOOLEAN, NEW C, C = Closed(V, us, gone)
  PROVE  /\ C \in Tables /\ Present(C) = Present(V)
         /\ \A u \in Present(V) :
              IF u \in us /\ V[u].open
              THEN C[u].grp = V[u].grp /\ C[u].dup = V[u].dup /\ ~C[u].open
              ELSE C[u] = V[u]
<1>1. C = [u \in Present(V) |-> IF u \in us /\ V[u].open THEN Shut(V[u], gone) ELSE V[u]]
  BY DEF Closed, Shut
<1>2. Present(C) = Present(V)
  BY <1>1 DEF Present
<1>3. ASSUME NEW u \in Present(V), u \in us, V[u].open
      PROVE  C[u] \in LooseRow /\ C[u].grp = V[u].grp /\ C[u].dup = V[u].dup /\ ~C[u].open
  <2>1. PICK r : r = V[u]
    OBVIOUS
  <2>2. PICK t : t = C[u]
    OBVIOUS
  <2>3. r \in LooseRow /\ t = Shut(r, gone)
    BY <2>1, <2>2, <1>1, <1>3, TablesAre
  <2>4. t \in LooseRow /\ t.grp = r.grp /\ t.dup = r.dup /\ ~t.open
    BY <2>3, ShutRow
  <2> QED BY <2>1, <2>2, <2>4
<1>4. ASSUME NEW u \in Present(V), ~(u \in us /\ V[u].open) PROVE C[u] = V[u]
  BY <1>1, <1>4
<1>5. C \in Tables
  <2>1. \A u \in Present(C) : C[u] \in LooseRow
    BY <1>2, <1>3, <1>4, TablesAre
  <2>2. C = [u \in Present(C) |-> C[u]]
    BY <1>1, <1>2
  <2> QED BY <2>1, <2>2, <1>2, TablesAre
<1> QED BY <1>2, <1>3, <1>4, <1>5

\* close: the listed rows are closed, no other, and what is open is found.
LEMMA ClosingKeepsTheStore ==
  ASSUME NEW V, StoreOK(V), NEW us, NEW gone \in BOOLEAN, NEW T \in CloseRows(V, us, gone)
  PROVE  /\ StoreOK(T) /\ Present(T) = Present(V)
         /\ \A u \in Present(V) : T[u].open <=> V[u].open /\ u \notin us
<1>1. PICK C : C = Closed(V, us, gone)
  OBVIOUS
<1>2. /\ V \in Tables /\ Ungrouped(V) = {}
      /\ \A u \in Present(V) : V[u].open => Found(V, u)
      /\ \A u \in Present(V) : V[u].gone => ~V[u].open
  BY DEF StoreOK, Finds
<1>3. /\ C \in Tables /\ Present(C) = Present(V)
      /\ \A u \in Present(V) :
           IF u \in us /\ V[u].open
           THEN C[u].grp = V[u].grp /\ C[u].dup = V[u].dup /\ ~C[u].open
           ELSE C[u] = V[u]
  BY <1>1, <1>2, ClosedLeaves
<1>4. \A u \in Present(V) : /\ C[u].grp = V[u].grp /\ C[u].dup = V[u].dup
                            /\ C[u].open <=> V[u].open /\ u \notin us
                            /\ C[u].gone => ~C[u].open
  BY <1>2, <1>3
<1>5. Ungrouped(C) = {}
  BY <1>2, <1>3, <1>4 DEF Ungrouped
<1>6. Settled(C, us)
  <2> SUFFICES ASSUME NEW u \in Present(C), C[u].open PROVE Found(C, u) \/ Waits(C, u, us)
    BY DEF Settled, Sound
  <2>1. V[u].open /\ Found(V, u) /\ C[u].grp = V[u].grp /\ C[u].dup = V[u].dup
    BY <1>2, <1>3, <1>4
  <2>2. PICK h : h = V[u].grp
    OBVIOUS
  <2>3. /\ h \in Present(C) /\ C[h].grp = h /\ C[h].dup = None
        /\ C[h].open \/ h \in us
    BY <2>1, <2>2, <1>3, <1>4 DEF Found, Leads
  <2> QED BY <2>1, <2>2, <2>3 DEF Found, Leads, Waits
<1>7. IsFiniteSet(GroupsOf(C, us)) /\ Finds(C, GroupsOf(C, us))
  BY <1>3, <1>5, <1>6, WaitingIsListed
<1>8. T \in RegroupAll(C, GroupsOf(C, us))
  BY <1>1 DEF CloseRows
<1>9. T \in Tables /\ Alike(C, T) /\ Ungrouped(T) = {} /\ Finds(T, {})
  BY <1>3, <1>5, <1>7, <1>8, RegroupAllFinds
<1>10. Present(T) = Present(V) /\ \A u \in Present(V) : T[u].open = C[u].open /\ T[u].gone = C[u].gone
  BY <1>3, <1>9 DEF Alike, SameRow
<1> QED BY <1>4, <1>9, <1>10 DEF StoreOK

DetailedRow(r, s) ==
  [r EXCEPT !.job = s.job, !.open = s.open, !.gone = FALSE, !.fresh = TRUE, !.failures = 0]

\* A row with its detail answer keeps its group and is not gone.
LEMMA DetailedIs ==
  ASSUME NEW r \in LooseRow, NEW s, IsSighting(s), NEW t, t = DetailedRow(r, s)
  PROVE  t \in LooseRow /\ t.grp = r.grp /\ t.dup = r.dup /\ t.open = s.open /\ ~t.gone
<1>1. 0 \in 0..GiveUp
  BY IngestAssumption
<1>2. t = [job |-> s.job, open |-> s.open, gone |-> FALSE, grp |-> r.grp, dup |-> r.dup,
           fresh |-> TRUE, failures |-> 0]
  BY DEF DetailedRow, LooseRow
<1>3. r.grp \in Uids \cup {None} /\ r.dup \in Uids \cup {None}
  BY DEF LooseRow
<1> QED BY <1>1, <1>2, <1>3 DEF LooseRow, IsSighting

\* A detail answer about an open row: what is open is found, and only its own
\* row may have closed.
LEMMA DetailsKeepTheStore ==
  ASSUME StoreOK(table), NEW s, IsSighting(s), s.uid \in Present(table), table[s.uid].open,
         NEW T \in ApplyDetail(s)
  PROVE  /\ StoreOK(T) /\ Present(T) = Present(table)
         /\ \A w \in Present(table) \ {s.uid} : T[w].open <=> table[w].open
<1> DEFINE moved == IF s.open THEN {} ELSE {s.uid}
<1>1. PICK D : D = Detailed(s)
  OBVIOUS
<1>2. PICK u : u = s.uid
  OBVIOUS
<1>3. /\ table \in Tables /\ Ungrouped(table) = {}
      /\ \A w \in Present(table) : table[w].open => Found(table, w)
      /\ \A w \in Present(table) : table[w].gone => ~table[w].open
  BY DEF StoreOK, Finds
<1>4. D = [w \in Present(table) |-> IF w = u THEN DetailedRow(table[u], s) ELSE table[w]]
  BY <1>1, <1>2, <1>3, TablesAre DEF Detailed, DetailedRow, Present
<1>5. Present(D) = Present(table) /\ \A w \in Present(table) \ {u} : D[w] = table[w]
  BY <1>4 DEF Present
<1>6. /\ D[u] \in LooseRow /\ D[u].grp = table[u].grp /\ D[u].dup = table[u].dup
      /\ D[u].open = s.open /\ ~D[u].gone
  <2>1. PICK r : r = table[u]
    OBVIOUS
  <2>2. PICK t : t = D[u]
    OBVIOUS
  <2>3. r \in LooseRow /\ t = DetailedRow(r, s)
    BY <2>1, <2>2, <1>2, <1>3, <1>4, TablesAre
  <2>4. t \in LooseRow /\ t.grp = r.grp /\ t.dup = r.dup /\ t.open = s.open /\ ~t.gone
    BY <2>3, DetailedIs
  <2> QED BY <2>1, <2>2, <2>4
<1>7. D \in Tables
  <2>1. \A w \in Present(D) : D[w] \in LooseRow
    BY <1>3, <1>5, <1>6, TablesAre
  <2>2. D = [w \in Present(D) |-> D[w]]
    BY <1>4, <1>5
  <2> QED BY <2>1, <2>2, <1>3, <1>5, TablesAre
<1>8. Ungrouped(D) = {}
  BY <1>2, <1>3, <1>5, <1>6 DEF Ungrouped
<1>9. Settled(D, moved)
  <2> SUFFICES ASSUME NEW w \in Present(D), D[w].open PROVE Found(D, w) \/ Waits(D, w, moved)
    BY DEF Settled, Sound
  <2>1. Found(table, w) /\ D[w].grp = table[w].grp /\ D[w].dup = table[w].dup
    BY <1>2, <1>3, <1>5, <1>6
  <2>2. PICK h : h = table[w].grp
    OBVIOUS
  <2>3. /\ h \in Present(D) /\ D[h].grp = h /\ D[h].dup = None
        /\ D[h].open \/ h \in moved
    BY <2>1, <2>2, <1>2, <1>5, <1>6 DEF Found, Leads
  <2> HIDE DEF moved
  <2> QED BY <2>1, <2>2, <2>3 DEF Found, Leads, Waits
<1>10. PICK X \in Assign(D, u) : T \in IF s.open THEN {X} ELSE RegroupAll(X, GroupsOf(X, {u}))
  <2>1. T \in UNION {IF s.open THEN {V} ELSE RegroupAll(V, GroupsOf(V, {s.uid})) : V \in Assign(D, s.uid)}
    BY <1>1 DEF ApplyDetail
  <2> QED BY <2>1, <1>2
<1>11. X \in Tables /\ Alike(D, X) /\ Settled(X, moved) /\ Ungrouped(X) = {}
  <2>1. u \in Present(D)
    BY <1>2, <1>5
  <2> HIDE DEF moved
  <2>2. Regrouped(D, X, u, moved)
    BY <2>1, <1>7, <1>9, <1>10, AssignRegroups
  <2> QED BY <2>2, <1>8 DEF Regrouped
<1>12. T \in Tables /\ Alike(D, T) /\ Ungrouped(T) = {} /\ Finds(T, {})
  <2>1. CASE s.open
    <3>1. T = X /\ Settled(X, {})
      BY <2>1, <1>10, <1>11
    <3>2. GroupsOf(X, {}) = {}
      BY DEF GroupsOf
    <3> QED BY <3>1, <3>2, <1>11, WaitingIsListed
  <2>2. CASE ~s.open
    <3>1. T \in RegroupAll(X, GroupsOf(X, {u})) /\ Settled(X, {u})
      BY <2>2, <1>2, <1>10, <1>11
    <3>2. IsFiniteSet(GroupsOf(X, {u})) /\ Finds(X, GroupsOf(X, {u}))
      BY <3>1, <1>11, WaitingIsListed
    <3>3. T \in Tables /\ Alike(X, T) /\ Ungrouped(T) = {} /\ Finds(T, {})
      BY <3>1, <3>2, <1>11, RegroupAllFinds
    <3> QED BY <3>3, <1>11, AlikeIsTransitive
  <2> QED BY <2>1, <2>2
<1>13. /\ Present(T) = Present(table)
       /\ \A w \in Present(table) : T[w].open = D[w].open /\ T[w].gone = D[w].gone
  BY <1>5, <1>12 DEF Alike, SameRow
<1>14. \A w \in Present(T) : T[w].gone => ~T[w].open
  BY <1>3, <1>5, <1>6, <1>13
<1> QED BY <1>2, <1>5, <1>12, <1>13, <1>14 DEF StoreOK

-----------------------------------------------------------------------------
\* The run of one source: what is being checked is open, a source that is down
\* answered nothing, and a run that comes to closing had no outage, so that in
\* one nothing was there to be asked for but rows whose check failed before.
RunInv ==
  /\ run \in [at : {"none", "next", "listing", "checking", "closing", "purging"},
              source : {run.source}, down : BOOLEAN, picked : SUBSET Uids,
              answered : Nat, failed : Nat, consecutive : Nat, spent : BOOLEAN]
  /\ run.at = "listing" => run.answered = 0
  /\ run.at = "checking" => \A u \in run.picked : Open(u)
  /\ run.at \in {"checking", "closing"} /\ run.down => run.answered = 0
  /\ run.at = "closing" => run.picked = {} /\ ~SkipStale
  /\ run.at \in {"checking", "closing"} /\ run.down /\ ~run.spent
        /\ run.failed = 0 /\ run.picked = {}
       => \A u \in Mine(run.source) : Open(u) => table[u].failures > 0

IngestInv == StoreOK(table) /\ RunInv

\* A row closed for good stays closed.
GoneStays ==
  \A u \in Present(table) \cap Present(table') :
    table[u].gone /\ ~table[u].open => ~table'[u].open

\* In an outage only rows given up are closed.
OutageCloses ==
  \A u \in Uids :
    run.at = "closing" /\ run.down /\ ~run.spent /\ Open(u) /\ ~table'[u].open
      => table[u].failures = GiveUp

Keeps == IngestInv' /\ GoneStays /\ OutageCloses

\* The invariant holds of the empty store.
LEMMA IngestStarts == IngestInit => IngestInv
<1> SUFFICES ASSUME IngestInit PROVE IngestInv
  OBVIOUS
<1>1. Present(table) = {} /\ table \in Tables
  <2>1. table = [u \in {} |-> None]
    BY DEF IngestInit
  <2> QED BY <2>1, TablesAre DEF Present
<1>2. StoreOK(table)
  BY <1>1 DEF StoreOK, Ungrouped, Finds
<1>3. RunInv
  BY DEF IngestInit, RunInv, NoRun
<1> QED BY <1>2, <1>3 DEF IngestInv

\* Steps that leave the rows alone disturb only the run.
LEMMA QuietStepsKeep ==
  ASSUME IngestInv, UNCHANGED table, RunInv'
  PROVE  Keeps
BY DEF Keeps, IngestInv, GoneStays, OutageCloses, Open, Present

\* Between the runs of two sources nothing is asked of the run.
LEMMA IdleRun ==
  ASSUME NEW at \in {"none", "next", "purging"}, run' = [NoRun EXCEPT !.at = at]
  PROVE  RunInv'
BY DEF RunInv, NoRun

\* A run starts with nothing asked.
LEMMA StartRunKeeps == IngestInv /\ StartRun => Keeps
<1> SUFFICES ASSUME IngestInv, StartRun PROVE Keeps
  OBVIOUS
<1>1. PICK down \in BOOLEAN :
        run' = [NoRun EXCEPT !.at = "listing", !.source = Head(tick), !.down = down]
  BY DEF StartRun
<1>2. RunInv'
  BY <1>1 DEF RunInv, NoRun
<1> QED BY <1>2, QuietStepsKeep DEF StartRun

\* What is picked for re-checks is open, and nothing picked means all is backed off.
LEMMA PickKeeps == IngestInv /\ PickForRecheck => Keeps
<1> SUFFICES ASSUME IngestInv, PickForRecheck PROVE Keeps
  OBVIOUS
<1>1. PICK picked \in SUBSET {u \in Mine(run.source) : Open(u)} :
        /\ picked = {} => \A u \in Mine(run.source) : Open(u) => BackedOff(u)
        /\ run' = [run EXCEPT !.at = "checking", !.picked = picked]
  BY DEF PickForRecheck
<1>2. run.at = "listing" /\ RunInv /\ table' = table
  BY DEF PickForRecheck, IngestInv
<1>3. picked \subseteq Uids /\ \A u \in picked : Open(u)
  BY DEF Mine
<1>4. /\ run'.at = "checking" /\ run'.picked = picked /\ run'.source = run.source
      /\ run'.down = run.down /\ run'.answered = run.answered /\ run'.failed = run.failed
      /\ run'.consecutive = run.consecutive /\ run'.spent = run.spent
  BY <1>1, <1>2 DEF RunInv
<1>5. run' \in [at : {"none", "next", "listing", "checking", "closing", "purging"},
                source : {run'.source}, down : BOOLEAN, picked : SUBSET Uids,
                answered : Nat, failed : Nat, consecutive : Nat, spent : BOOLEAN]
  BY <1>1, <1>2, <1>3 DEF RunInv
<1>6. RunInv'
  BY <1>1, <1>2, <1>3, <1>4, <1>5 DEF RunInv, Open, BackedOff, Mine, Present
<1> QED BY <1>2, <1>6, QuietStepsKeep

\* A run whose budget is spent is marked.
LEMMA BudgetKeeps == IngestInv /\ BudgetExhausted => Keeps
<1> SUFFICES ASSUME IngestInv, BudgetExhausted PROVE Keeps
  OBVIOUS
<1>1. RunInv'
  BY DEF IngestInv, BudgetExhausted, RunInv, Open, Present
<1> QED BY <1>1, QuietStepsKeep DEF BudgetExhausted

\* Only a run without an outage goes on to close.
LEMMA ChecksEndKeeps == IngestInv /\ ChecksEnd => Keeps
<1> SUFFICES ASSUME IngestInv, ChecksEnd PROVE Keeps
  OBVIOUS
<1>1. CASE SkipStale
  <2>1. RunInv'
    BY <1>1, IdleRun DEF ChecksEnd
  <2> QED BY <2>1, QuietStepsKeep DEF ChecksEnd
<1>2. CASE ~SkipStale
  <2>1. RunInv'
    BY <1>2 DEF IngestInv, ChecksEnd, RunInv, SkipStale, Open, Mine, Present
  <2> QED BY <2>1, QuietStepsKeep DEF ChecksEnd
<1> QED BY <1>1, <1>2

\* An answer of any kind: the rest of what is picked is open as before.
LEMMA AnsweredKeepsRun ==
  ASSUME RunInv, NEW u, Checking(u), ~run.down, Answered(u),
         \A w \in run.picked \ {u} : Open(w)'
  PROVE  RunInv'
<1>1. PICK rest \in SUBSET Uids, n \in Nat :
        /\ rest = run.picked \ {u}
        /\ run' = [run EXCEPT !.picked = rest, !.answered = n, !.consecutive = 0]
  <2>1. run.picked \ {u} \in SUBSET Uids /\ run.answered + 1 \in Nat
    BY DEF RunInv
  <2> QED BY <2>1 DEF Answered
<1>2. /\ run'.at = "checking" /\ run'.picked = rest /\ run'.down = FALSE
      /\ run' \in [at : {"none", "next", "listing", "checking", "closing", "purging"},
                   source : {run'.source}, down : BOOLEAN, picked : SUBSET Uids,
                   answered : Nat, failed : Nat, consecutive : Nat, spent : BOOLEAN]
  BY <1>1 DEF RunInv, Checking
<1> QED BY <1>1, <1>2 DEF RunInv

\* An unusable answer leaves the rows alone.
LEMMA UnusableKeeps == ASSUME NEW u \in Uids PROVE IngestInv /\ DetailUnusable(u) => Keeps
<1> SUFFICES ASSUME IngestInv, DetailUnusable(u) PROVE Keeps
  OBVIOUS
<1>1. Checking(u) /\ ~run.down /\ Answered(u) /\ RunInv /\ table' = table
  BY DEF DetailUnusable, IngestInv
<1>2. \A w \in run.picked \ {u} : Open(w)'
  BY <1>1 DEF RunInv, Checking, Open, Present
<1>3. RunInv'
  BY <1>1, <1>2, AnsweredKeepsRun
<1> QED BY <1>1, <1>3, QuietStepsKeep

\* A detail answer is about an open row, so it opens none that is gone.
LEMMA ArrivesKeeps == ASSUME NEW u \in Uids PROVE IngestInv /\ DetailArrives(u) => Keeps
<1> SUFFICES ASSUME IngestInv, DetailArrives(u) PROVE Keeps
  OBVIOUS
<1>1. Checking(u) /\ ~run.down /\ Answered(u) /\ RunInv /\ StoreOK(table)
  BY DEF DetailArrives, IngestInv
<1>2. Open(u)
  BY <1>1 DEF RunInv, Checking
<1>3. PICK s : IsSighting(s) /\ s.uid = u /\ table' \in ApplyDetail(s)
  <2>1. PICK job \in JobsOf[u], open \in BOOLEAN :
          table' \in ApplyDetail([uid |-> u, job |-> job, open |-> open])
    BY DEF DetailArrives
  <2>2. IsSighting([uid |-> u, job |-> job, open |-> open])
    BY IngestAssumption DEF IsSighting
  <2> QED BY <2>1, <2>2
<1>4. /\ StoreOK(table') /\ Present(table') = Present(table)
      /\ \A w \in Present(table) \ {u} : table'[w].open <=> table[w].open
  BY <1>1, <1>2, <1>3, DetailsKeepTheStore DEF Open
<1>5. \A w \in run.picked \ {u} : Open(w)'
  BY <1>1, <1>4 DEF RunInv, Checking, Open
<1>6. RunInv'
  BY <1>1, <1>5, AnsweredKeepsRun
<1>7. GoneStays
  BY <1>1, <1>2, <1>4 DEF GoneStays, StoreOK, Open
<1>8. OutageCloses
  BY <1>1 DEF OutageCloses, Checking
<1> QED BY <1>4, <1>6, <1>7, <1>8 DEF Keeps, IngestInv

\* A row the source calls gone is closed.
LEMMA GoneKeeps == ASSUME NEW u \in Uids PROVE IngestInv /\ DetailGone(u) => Keeps
<1> SUFFICES ASSUME IngestInv, DetailGone(u) PROVE Keeps
  OBVIOUS
<1>1. Checking(u) /\ ~run.down /\ Answered(u) /\ RunInv /\ StoreOK(table)
      /\ table' \in CloseRows(table, {u}, TRUE)
  BY DEF DetailGone, IngestInv
<1>2. /\ StoreOK(table') /\ Present(table') = Present(table)
      /\ \A w \in Present(table) : table'[w].open <=> table[w].open /\ w \notin {u}
  BY <1>1, ClosingKeepsTheStore
<1>3. \A w \in run.picked \ {u} : Open(w)'
  BY <1>1, <1>2 DEF RunInv, Checking, Open
<1>4. RunInv'
  BY <1>1, <1>3, AnsweredKeepsRun
<1>5. GoneStays
  BY <1>2 DEF GoneStays
<1>6. OutageCloses
  BY <1>1 DEF OutageCloses, Checking
<1> QED BY <1>2, <1>4, <1>5, <1>6 DEF Keeps, IngestInv

Failed(r, n) == [r EXCEPT !.failures = n]
Older(r) == [r EXCEPT !.fresh = FALSE]
IsNoted(t, r) == t = Older(r) \/ \E n \in 0..GiveUp : t = Failed(r, n)
WithRow(V, u, t) == [V EXCEPT ![u] = t]

\* A note leaves group and status alone.
LEMMA NotedRow ==
  ASSUME NEW r \in LooseRow, NEW t, IsNoted(t, r)
  PROVE  /\ t \in LooseRow /\ t.grp = r.grp /\ t.dup = r.dup
         /\ t.open = r.open /\ t.gone = r.gone
BY DEF IsNoted, Failed, Older, LooseRow

\* A note on one row, of a failure or of its age, keeps the store.
LEMMA NotesKeepTheStore ==
  ASSUME NEW V, StoreOK(V), NEW u \in Present(V), NEW t, IsNoted(t, V[u]),
         NEW T, T = WithRow(V, u, t)
  PROVE  /\ StoreOK(T) /\ Present(T) = Present(V)
         /\ \A w \in Present(V) : T[w].open = V[w].open
<1>1. V \in Tables
  BY DEF StoreOK
<1>2. T = [w \in Present(V) |-> IF w = u THEN t ELSE V[w]]
  BY <1>1, TablesAre DEF Present, WithRow
<1>3. Present(T) = Present(V) /\ T[u] = t /\ \A w \in Present(V) \ {u} : T[w] = V[w]
  BY <1>2 DEF Present
<1>4. /\ t \in LooseRow /\ t.grp = V[u].grp /\ t.dup = V[u].dup
      /\ t.open = V[u].open /\ t.gone = V[u].gone
  <2>1. PICK r : r = V[u]
    OBVIOUS
  <2>2. r \in LooseRow
    BY <2>1, <1>1, TablesAre
  <2>3. IsNoted(t, r)
    BY <2>1
  <2> QED BY <2>1, <2>2, <2>3, NotedRow
<1>5. T \in Tables
  <2>1. \A w \in Present(T) : T[w] \in LooseRow
    BY <1>1, <1>3, <1>4, TablesAre
  <2>2. T = [w \in Present(T) |-> T[w]]
    BY <1>2, <1>3
  <2> QED BY <2>1, <2>2, <1>1, <1>3, TablesAre
<1>6. \A w \in Present(T) : /\ T[w].grp = V[w].grp /\ T[w].dup = V[w].dup
                            /\ T[w].open = V[w].open /\ T[w].gone = V[w].gone
  BY <1>3, <1>4
<1>7. StoreOK(T)
  BY <1>3, <1>5, <1>6, OpenRowsStay
<1> QED BY <1>3, <1>6, <1>7

\* A failed check leaves a mark on its row and on the run.
LEMMA FailsKeeps == ASSUME NEW u \in Uids PROVE IngestInv /\ DetailFails(u) => Keeps
<1> SUFFICES ASSUME IngestInv, DetailFails(u) PROVE Keeps
  OBVIOUS
<1>1. Checking(u) /\ RunInv /\ StoreOK(table)
  BY DEF DetailFails, IngestInv
<1>2. Open(u)
  BY <1>1 DEF RunInv, Checking
<1>3. PICK r : r = table[u]
  OBVIOUS
<1>4. r.failures \in 0..GiveUp
  BY <1>1, <1>2, <1>3, TablesAre DEF StoreOK, LooseRow, Open
<1>5. PICK n \in 0..GiveUp : n = IF r.failures < GiveUp THEN r.failures + 1 ELSE r.failures
  BY <1>4, IngestAssumption
<1>6. PICK t : t = Failed(r, n)
  OBVIOUS
<1>7. table' = WithRow(table, u, t)
  BY <1>3, <1>5, <1>6 DEF DetailFails, Failed, WithRow
<1>8. /\ StoreOK(table') /\ Present(table') = Present(table)
      /\ \A w \in Present(table) : table'[w].open = table[w].open
  <2>1. IsNoted(t, table[u])
    BY <1>3, <1>6 DEF IsNoted
  <2> QED BY <2>1, <1>1, <1>2, <1>7, NotesKeepTheStore DEF Open
<1>9. PICK picked \in SUBSET run.picked, k \in Nat \ {0}, m \in Nat :
        run' = [run EXCEPT !.failed = k, !.consecutive = m, !.picked = picked]
  <2>1. run.failed + 1 \in Nat \ {0} /\ run.consecutive + 1 \in Nat
    BY <1>1 DEF RunInv
  <2>2. PICK picked \in SUBSET run.picked :
          picked = IF run.consecutive + 1 >= MaxConsecutive THEN {} ELSE run.picked \ {u}
    OBVIOUS
  <2>3. run' = [run EXCEPT !.failed = run.failed + 1, !.consecutive = run.consecutive + 1,
                           !.picked = picked]
    BY <2>2 DEF DetailFails
  <2> QED BY <2>1, <2>3
<1>10. /\ run'.at = "checking" /\ run'.picked = picked /\ run'.down = run.down
       /\ run'.answered = run.answered /\ run'.failed # 0
       /\ run' \in [at : {"none", "next", "listing", "checking", "closing", "purging"},
                    source : {run'.source}, down : BOOLEAN, picked : SUBSET Uids,
                    answered : Nat, failed : Nat, consecutive : Nat, spent : BOOLEAN]
  BY <1>1, <1>9 DEF RunInv, Checking
<1>11. \A w \in picked : Open(w)'
  BY <1>1, <1>8, <1>9 DEF RunInv, Checking, Open
<1>12. RunInv'
  BY <1>1, <1>10, <1>11 DEF RunInv, Checking
<1>13. GoneStays
  BY <1>8 DEF GoneStays
<1>14. OutageCloses
  BY <1>1 DEF OutageCloses, Checking
<1> QED BY <1>8, <1>12, <1>13, <1>14 DEF Keeps, IngestInv

\* A page of the list.
LEMMA ListPageKeeps == IngestInv /\ ListPage => Keeps
<1> SUFFICES ASSUME IngestInv, ListPage PROVE Keeps
  OBVIOUS
<1>1. run.at = "listing" /\ run' = run /\ StoreOK(table) /\ RunInv
  BY DEF ListPage, IngestInv
<1>2. PICK page \in Pages(run.source) : table' \in UpsertBatch(page)
  BY DEF ListPage
<1>3. /\ StoreOK(table')
      /\ \A u \in Present(table) : u \in Present(table') /\ (table[u].gone => ~table'[u].open)
  BY <1>1, <1>2, PagesKeepTheStore
<1>4. RunInv'
  BY <1>1 DEF RunInv
<1>5. GoneStays /\ OutageCloses
  BY <1>1, <1>3 DEF GoneStays, OutageCloses
<1> QED BY <1>3, <1>4, <1>5 DEF Keeps, IngestInv

\* Closing what is stale: in an outage nothing was answered, so nothing had failed
\* either, and the stale rows had a failure before the run.
LEMMA CloseStaleKeeps == IngestInv /\ CloseStale => Keeps
<1> SUFFICES ASSUME IngestInv, CloseStale PROVE Keeps
  OBVIOUS
<1>1. /\ run.at = "closing" /\ table' \in CloseRows(table, StaleRows(run.source), FALSE)
      /\ run' = [NoRun EXCEPT !.at = "next"] /\ StoreOK(table) /\ RunInv
  BY DEF CloseStale, IngestInv
<1>2. /\ StoreOK(table')
      /\ \A w \in Present(table) :
           table'[w].open <=> table[w].open /\ w \notin StaleRows(run.source)
  BY <1>1, ClosingKeepsTheStore
<1>3. RunInv'
  BY <1>1, IdleRun
<1>4. GoneStays
  BY <1>2 DEF GoneStays
<1>5. OutageCloses
  <2> SUFFICES ASSUME NEW u \in Uids, run.down, ~run.spent, Open(u), ~table'[u].open
               PROVE  table[u].failures = GiveUp
    BY DEF OutageCloses
  <2>1. u \in StaleRows(run.source)
    BY <1>2 DEF Open
  <2>2. run.answered = 0 /\ run.picked = {} /\ ~SkipStale /\ run.failed \in Nat
    BY <1>1 DEF RunInv
  <2>3. run.failed = 0
    BY <2>2 DEF SkipStale
  <2>4. table[u].failures > 0
    BY <2>1, <2>2, <2>3, <1>1 DEF RunInv, StaleRows
  <2> QED BY <2>1, <2>4 DEF StaleRows
<1> QED BY <1>2, <1>3, <1>4, <1>5 DEF Keeps, IngestInv

\* The purge takes closed rows only, and the leading row of an open one is open.
LEMMA PurgeKeeps == IngestInv /\ Purge => Keeps
<1> SUFFICES ASSUME IngestInv, Purge PROVE Keeps
  OBVIOUS
<1>1. run.at = "purging" /\ run' = NoRun /\ StoreOK(table)
  BY DEF Purge, IngestInv
<1>2. PICK old \in SUBSET {u \in Present(table) : ~table[u].open} :
        table' = [u \in Present(table) \ old |-> table[u]]
  BY DEF Purge
<1>3. Present(table') = Present(table) \ old /\ \A u \in Present(table') : table'[u] = table[u]
  BY <1>2 DEF Present
<1>4. table' \in Tables
  <2>1. \A u \in Present(table') : table'[u] \in LooseRow
    BY <1>1, <1>3, TablesAre DEF StoreOK
  <2>2. table' = [u \in Present(table') |-> table'[u]]
    BY <1>2, <1>3
  <2> QED BY <2>1, <2>2, <1>1, <1>3, TablesAre DEF StoreOK
<1>5. StoreOK(table')
  BY <1>1, <1>2, <1>3, <1>4, OpenRowsStay
<1>6. RunInv'
  BY <1>1 DEF RunInv, NoRun
<1>7. GoneStays /\ OutageCloses
  BY <1>1, <1>3 DEF GoneStays, OutageCloses
<1> QED BY <1>5, <1>6, <1>7 DEF Keeps, IngestInv

\* Time passing marks rows and closes none.
LEMMA GrowStaleKeeps == IngestInv /\ GrowStale => Keeps
<1> SUFFICES ASSUME IngestInv, GrowStale PROVE Keeps
  OBVIOUS
<1>1. run.at = "none" /\ run' = run /\ StoreOK(table) /\ RunInv
  BY DEF GrowStale, IngestInv
<1>2. PICK u \in Present(table) : table' = [table EXCEPT ![u].fresh = FALSE]
  BY DEF GrowStale
<1>3. PICK t : t = Older(table[u])
  OBVIOUS
<1>4. table' = WithRow(table, u, t) /\ IsNoted(t, table[u])
  BY <1>2, <1>3 DEF Older, WithRow, IsNoted
<1>5. /\ StoreOK(table') /\ Present(table') = Present(table)
      /\ \A w \in Present(table) : table'[w].open = table[w].open
  BY <1>1, <1>4, NotesKeepTheStore
<1>6. RunInv'
  BY <1>1 DEF RunInv
<1>7. GoneStays /\ OutageCloses
  BY <1>1, <1>5 DEF GoneStays, OutageCloses
<1> QED BY <1>5, <1>6, <1>7 DEF Keeps, IngestInv

\* Every step keeps the invariant and closes and opens for a reason.
LEMMA IngestStepsKeep == IngestInv /\ [IngestNext]_ingestVars => Keeps
<1> SUFFICES ASSUME IngestInv, [IngestNext]_ingestVars PROVE Keeps
  OBVIOUS
<1>1. CASE StartTick \/ RunFails \/ EndTick \/ IngestCrash
  <2>1. NoRun = [NoRun EXCEPT !.at = "none"]
    <3> DEFINE r == NoRun
    <3>1. r = [r EXCEPT !.at = r.at] /\ r.at = "none"
      BY DEF NoRun
    <3> QED BY <3>1
  <2>2. table' = table /\ \E at \in {"none", "next", "purging"} : run' = [NoRun EXCEPT !.at = at]
    BY <2>1, <1>1 DEF StartTick, RunFails, EndTick, IngestCrash
  <2> QED BY <2>2, IdleRun, QuietStepsKeep
<1>2. CASE PassOver \/ UNCHANGED ingestVars
  <2>1. table' = table /\ run' = run
    BY <1>2 DEF PassOver, ingestVars
  <2>2. RunInv'
    BY <2>1 DEF IngestInv, RunInv, SkipStale, Open, Mine, Present
  <2> QED BY <2>1, <2>2, QuietStepsKeep
<1>3. CASE StartRun
  BY <1>3, StartRunKeeps
<1>4. CASE ListPage
  BY <1>4, ListPageKeeps
<1>5. CASE PickForRecheck
  BY <1>5, PickKeeps
<1>6. CASE \E u \in Uids : DetailStep(u)
  <2>1. PICK u \in Uids :
          DetailArrives(u) \/ DetailGone(u) \/ DetailUnusable(u) \/ DetailFails(u)
    BY <1>6 DEF DetailStep
  <2> QED BY <2>1, ArrivesKeeps, GoneKeeps, UnusableKeeps, FailsKeeps
<1>7. CASE BudgetExhausted
  BY <1>7, BudgetKeeps
<1>8. CASE ChecksEnd
  BY <1>8, ChecksEndKeeps
<1>9. CASE CloseStale
  BY <1>9, CloseStaleKeeps
<1>10. CASE Purge
  BY <1>10, PurgeKeeps
<1>11. CASE GrowStale
  BY <1>11, GrowStaleKeeps
<1> QED BY <1>1, <1>2, <1>3, <1>4, <1>5, <1>6, <1>7, <1>8, <1>9, <1>10, <1>11 DEF IngestNext

\* The store and the run of one source are sound in every reachable state.
THEOREM StoreIsSound == IngestSpec => []IngestInv
<1>1. IngestInv /\ [IngestNext]_ingestVars => IngestInv'
  BY IngestStepsKeep DEF Keeps
<1> QED BY <1>1, IngestStarts, PTL DEF IngestSpec

\* In every state between two transactions every open row is found: it is
\* shown, or the one row of its group that is shown is open and found.
THEOREM VacanciesAreShown == IngestSpec => []OpenVacanciesAreShown
<1>1. IngestInv => OpenVacanciesAreShown
  <2> SUFFICES ASSUME IngestInv, NEW u \in Uids, Open(u), NEW g, g = table[u].grp
               PROVE  /\ Shown(g) /\ table[g].grp = g
                      /\ table[u].dup = (IF u = g THEN None ELSE g)
    BY DEF OpenVacanciesAreShown
  <2>1. Found(table, u)
    BY DEF IngestInv, StoreOK, Finds, Open
  <2> QED BY <2>1 DEF Found, Leads, Shown, Open
<1> QED BY <1>1, StoreIsSound, PTL

\* No step closes a row because its source was down, and none opens a row the
\* detail endpoint called gone.
THEOREM ClosedForAReason == IngestSpec => RowsCloseForAReason
<1>1. IngestInv /\ [IngestNext]_ingestVars => IngestInv' /\ GoneStays /\ OutageCloses
  BY IngestStepsKeep DEF Keeps
<1> QED BY <1>1, IngestStarts, PTL
      DEF IngestSpec, RowsCloseForAReason, OutagesCloseNothing, GoneRowsStayClosed,
          GoneStays, OutageCloses
=============================================================================
