---------------------------- MODULE Notifications ----------------------------
(***************************************************************************)
(* Vacancy notifications (src/src/functions/notification_scheduler.py): a    *)
(* tick picks one unsent vacancy for every user with an open slot, sends     *)
(* all of them, and records them in one transaction at the end.              *)
(*                                                                         *)
(* The reads at the start of a tick are one step: only this loop writes      *)
(* what they have to agree on.  A user may block the bot at any moment;      *)
(* Telegram tells the bot (membership.py), and a send to him answers 403.    *)
(***************************************************************************)
EXTENDS BotClock, FiniteSets, Sequences

CONSTANTS
  Users,
  Vacancies,
  Wanted,       \* user -> the vacancies his filters accept
  MaxPerDay     \* MAX_PER_DAY

ASSUME NotifyAssumption ==
  /\ IsFiniteSet(Users) /\ Wanted \in [Users -> SUBSET Vacancies]
  /\ MaxPerDay \in Nat \ {0}

\* Filters that accept everything.
WideFilters == [u \in Users |-> Vacancies]

VARIABLES
  subscribed,   \* users with Pro, the switch on and no ban
  blocked,      \* users.blocked
  refuses,      \* users that blocked the bot in Telegram
  news,         \* the membership update on its way to the bot
  sentRows,     \* sent_notifications
  notify,       \* the tick in progress
  got,          \* history: per user, what arrived
  lost,         \* history: per user, the arrivals whose record was lost
  raced         \* history: users that unblocked while a tick held their 403

notifyVars == <<subscribed, blocked, refuses, news, sentRows, notify, got, lost, raced>>

NoNews == "none"
Idle == [at |-> "none", day |-> 0, picks |-> {}, rows |-> {}, forbidden |-> {}]

SentRow == [user : Users, vacancy : Vacancies, day : Days]
\* What a tick still has to send, and what it has sent: the latter with the
\* place of the arrival in the user's history.
Pick == [user : Users, vacancy : Vacancies]

NotifyTypeOK ==
  /\ subscribed \subseteq Users /\ blocked \subseteq Users
  /\ refuses \subseteq Users /\ raced \subseteq Users
  /\ news \in [Users -> {NoNews, "kicked", "member"}]
  /\ sentRows \subseteq SentRow
  /\ notify.at \in {"none", "sending"} /\ notify.day \in Days
  /\ notify.picks \subseteq Pick /\ notify.forbidden \subseteq Users
  /\ \A r \in notify.rows : r.pick \in Pick /\ r.nth \in DOMAIN got[r.pick.user]
  /\ \A u \in Users : lost[u] \subseteq DOMAIN got[u]

NotifyInit ==
  /\ subscribed \in SUBSET Users
  /\ blocked = {} /\ refuses = {} /\ raced = {}
  /\ news = [u \in Users |-> NoNews]
  /\ sentRows = {} /\ notify = Idle
  /\ got = [u \in Users |-> <<>>] /\ lost = [u \in Users |-> {}]

-----------------------------------------------------------------------------
\* The users.

\* Pro, the switch or a ban changes.
ToggleSubscription(u) ==
  /\ Move
  /\ subscribed' = IF u \in subscribed THEN subscribed \ {u} ELSE subscribed \cup {u}
  /\ UNCHANGED <<blocked, refuses, news, sentRows, notify, got, lost, raced>>

BlockBot(u) ==
  /\ Move
  /\ u \notin refuses /\ news[u] = NoNews
  /\ refuses' = refuses \cup {u}
  /\ news' = [news EXCEPT ![u] = "kicked"]
  /\ UNCHANGED <<subscribed, blocked, sentRows, notify, got, lost, raced>>

UnblockBot(u) ==
  /\ Move
  /\ u \in refuses /\ news[u] = NoNews
  /\ refuses' = refuses \ {u}
  /\ news' = [news EXCEPT ![u] = "member"]
  /\ raced' = IF u \in notify.forbidden THEN raced \cup {u} ELSE raced \ {u}
  /\ UNCHANGED <<subscribed, blocked, sentRows, notify, got, lost>>

\* Mutant: the handler only knows users that leave.
OnKickedOnly(u) ==
  /\ up /\ news[u] # NoNews
  /\ blocked' = IF news[u] = "kicked" THEN blocked \cup {u} ELSE blocked
  /\ news' = [news EXCEPT ![u] = NoNews]
  /\ UNCHANGED <<clockVars, subscribed, refuses, sentRows, notify, got, lost, raced>>

\* on_my_chat_member and set_blocked.
OnMyChatMember(u) ==
  /\ up /\ news[u] # NoNews
  /\ blocked' = IF news[u] = "kicked" THEN blocked \cup {u} ELSE blocked \ {u}
  /\ news' = [news EXCEPT ![u] = NoNews]
  /\ UNCHANGED <<clockVars, subscribed, refuses, sentRows, notify, got, lost, raced>>

\* A message of the user shows that he does not block the bot.
UserWrites(u) ==
  /\ up /\ u \notin refuses /\ u \in blocked
  /\ blocked' = blocked \ {u}
  /\ raced' = IF u \in notify.forbidden THEN raced ELSE raced \ {u}
  /\ UNCHANGED <<clockVars, subscribed, refuses, news, sentRows, notify, got, lost>>

-----------------------------------------------------------------------------
\* _run_notifications.

\* Mutant: every slot of the day is due from the first one on.
AllSlotsDue(t) == IF Phase(t) >= 2 THEN MaxPerDay ELSE 0

\* due_slot_count
DueSlots(t) == SlotsPassed(t)

\* Mutant: the count has no time bound.
RowsEver(u, day) == {r \in sentRows : r.user = u}

RowsOf(u, day) == {r \in sentRows : r.user = u /\ r.day = day}
Due(u) ==
  /\ Cardinality(RowsOf(u, Today)) < DueSlots(now)
  /\ Cardinality(RowsOf(u, Today)) < MaxPerDay

\* Mutant: only what was sent today is left out.
UnsentToday(u) == {v \in Wanted[u] : \A r \in RowsOf(u, Today) : r.vacancy # v}

\* _choose_vacancy: candidates the user was never sent.
Unsent(u) == {v \in Wanted[u] : \A r \in sentRows : r.user = u => r.vacancy # v}

Eligible == {u \in subscribed \ blocked : Due(u) /\ Unsent(u) # {}}

StartNotifications ==
  /\ up /\ notify.at = "none" /\ Eligible # {}
  /\ \E choice \in [Eligible -> Vacancies] :
       /\ \A u \in Eligible : choice[u] \in Unsent(u)
       /\ notify' = [Idle EXCEPT !.at = "sending", !.day = Today,
                                 !.picks = {[user |-> u, vacancy |-> choice[u]] : u \in Eligible}]
  /\ UNCHANGED <<clockVars, subscribed, blocked, refuses, news, sentRows, got, lost, raced>>

Arrives(p) == got' = [got EXCEPT ![p.user] = Append(@, [vacancy |-> p.vacancy, day |-> notify.day])]

Send(p) ==
  /\ p \in notify.picks /\ p.user \notin refuses
  /\ Arrives(p)
  /\ notify' = [notify EXCEPT !.picks = @ \ {p},
                              !.rows = @ \cup {[pick |-> p, nth |-> Len(got'[p.user])]}]
  /\ UNCHANGED <<clockVars, subscribed, blocked, refuses, news, sentRows, lost, raced>>

\* 403
SendForbidden(p) ==
  /\ p \in notify.picks /\ p.user \in refuses
  /\ notify' = [notify EXCEPT !.picks = @ \ {p}, !.forbidden = @ \cup {p.user}]
  /\ UNCHANGED <<clockVars, subscribed, blocked, refuses, news, sentRows, got, lost, raced>>

\* An error, a long flood wait, or a lost answer of a message that arrived.
SendFails(p) ==
  /\ p \in notify.picks /\ Fault
  /\ \/ UNCHANGED <<got, lost>>
     \/ /\ p.user \notin refuses
        /\ Arrives(p)
        /\ lost' = [lost EXCEPT ![p.user] = @ \cup {Len(got'[p.user])}]
  /\ notify' = [notify EXCEPT !.picks = @ \ {p}]
  /\ UNCHANGED <<subscribed, blocked, refuses, news, sentRows, raced>>

\* INSERT OR IGNORE on (user, vacancy); the rows carry the time the tick started.
NewRows ==
  {[user |-> r.pick.user, vacancy |-> r.pick.vacancy, day |-> notify.day] :
     r \in {q \in notify.rows :
             ~\E s \in sentRows : s.user = q.pick.user /\ s.vacancy = q.pick.vacancy}}

Persist ==
  /\ notify.at = "sending" /\ notify.picks = {}
  /\ sentRows' = sentRows \cup NewRows
  /\ blocked' = blocked \cup notify.forbidden
  /\ notify' = Idle
  /\ UNCHANGED <<clockVars, subscribed, refuses, news, got, lost, raced>>

Forget == lost' = [u \in Users |-> lost[u] \cup {r.nth : r \in {q \in notify.rows : q.pick.user = u}}]

\* The error is logged; the next tick does not know of the sends.
PersistFails ==
  /\ notify.at = "sending" /\ notify.picks = {} /\ Fault
  /\ Forget
  /\ notify' = Idle
  /\ UNCHANGED <<subscribed, blocked, refuses, news, sentRows, got, raced>>

NotifyCrash ==
  /\ Forget
  /\ notify' = Idle
  /\ UNCHANGED <<subscribed, blocked, refuses, news, sentRows, got, raced>>

-----------------------------------------------------------------------------
UserStep ==
  \E u \in Users : \/ ToggleSubscription(u) \/ BlockBot(u) \/ UnblockBot(u)
                   \/ OnMyChatMember(u) \/ UserWrites(u)

NotifyStep ==
  \/ StartNotifications \/ Persist \/ PersistFails
  \/ \E p \in notify.picks : Send(p) \/ SendForbidden(p) \/ SendFails(p)

-----------------------------------------------------------------------------
SlotsOf(day) == IF day < Today THEN MaxPerDay ELSE SlotsPassed(now)

\* A user is sent a vacancy once, and on a day no more than the slots that have
\* come, but for messages whose record was lost with a crash, a failed write or
\* an unclear answer: each of those costs one repetition and no more.
NotificationsAreNotRepeated ==
  /\ \A u \in Users : \A i, j \in DOMAIN got[u] :
       i < j /\ got[u][i].vacancy = got[u][j].vacancy => i \in lost[u]
  /\ \A u \in Users, day \in Days :
       Cardinality({i \in DOMAIN got[u] \ lost[u] : got[u][i].day = day}) <= SlotsOf(day)

\* A user who does not block the bot and whose updates have arrived is not
\* marked as blocked, unless he unblocked between a tick's 403 and its write.
OnlyBlockersAreMarked ==
  \A u \in Users : u \in blocked /\ u \notin refuses /\ news[u] = NoNews => u \in raced

=============================================================================
