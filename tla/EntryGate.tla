----------------------------- MODULE EntryGate ------------------------------
(***************************************************************************)
(* Who gets into the Mini App: the entry gate (webapp/core/entry_gate.py)  *)
(* and the per-user cache of subscription verdicts it asks                 *)
(* (webapp/core/subscription.py), with everybody who changes what a        *)
(* verdict was made of: users joining and leaving channels on Telegram and *)
(* the bot hearing of it (src/handlers/membership.py), and admins adding,  *)
(* switching and deleting channels (webapp/routers/admin_channels.py,      *)
(* src/handlers/admin.py).                                                 *)
(*                                                                         *)
(* The first write of a gate request opens a transaction that stays open   *)
(* over its calls to Telegram and ends with the request's commit: others   *)
(* read what was committed before and wait with their writes (`writer`).   *)
(* The age of a verdict is counted in ticks; a shorter life is an older    *)
(* start, as in store_verdict.                                             *)
(***************************************************************************)
EXTENDS Integers, FiniteSets

CONSTANTS Users, Channels,
          Requests,     \* gate requests served at the same time
          Nobody,       \* no user, no channel, no writer
          OkTTL, MissingTTL, DegradedTTL,   \* CACHE_TTL_*, in ticks
          Required,     \* referral_required_count, 0 when the referral gate is off
          MaxMoves      \* bound on what users and admins change

ASSUME EntryGateAssumption ==
    /\ Nobody \notin Users \cup Channels \cup Requests
    /\ DegradedTTL \in 1..MissingTTL /\ MissingTTL \in 1..OkTTL /\ OkTTL \in Nat
    /\ Required \in Nat /\ MaxMoves \in Nat

VARIABLES channels,     \* the table channels: absent, off or on
          verdicts,     \* subscription_checks
          started, banned, invited,     \* columns of users
          admins,       \* users with an admin role
          gate,         \* gate[r]: the request r
          writer,       \* who holds SQLite's write lock
          answer,       \* what a user was told last
          member,       \* Telegram: the channels a user is in
          news,         \* Telegram: changes of membership not yet delivered
          moves, calm   \* bound and end of the changes from outside

gateVars == <<channels, verdicts, started, banned, invited, admins, gate, writer,
              answer, member, news, moves, calm>>
table == <<channels, started, banned, invited, admins>>
outside == <<member, news, moves, calm>>

\* What Telegram said, channel by channel: the user is in, is out, or it did
\* not say (an error that is neither an outage nor the bot's lack of access,
\* which counts as out). `missed`: channels of which a change was heard, or
\* which were deleted, too late for this verdict.
Findings == [in: SUBSET Channels, out: SUBSET Channels, refused: SUBSET Channels,
             missed: SUBSET Channels]
NoFindings == [in |-> {}, out |-> {}, refused |-> {}, missed |-> {}]

NoVerdict == [age |-> 0, stored |-> FALSE, found |-> NoFindings]

Replies == {"none", "in", "out", "outage", "no_access", "refused"}

GateRequest == [pc: {"idle", "ask", "reply", "end"}, user: Users \cup {Nobody},
                todo: SUBSET Channels, asked: Channels \cup {Nobody},
                reply: Replies, degraded: BOOLEAN, found: Findings,
                cached: {"no", "ok", "missing"}]

NoCheck == [pc |-> "idle", user |-> Nobody, todo |-> {}, asked |-> Nobody,
         reply |-> "none", degraded |-> FALSE, found |-> NoFindings, cached |-> "no"]

EntryTypeOK ==
    /\ channels \in [Channels -> {"absent", "off", "on"}]
    /\ verdicts \in [Users -> [age: 0..OkTTL, stored: BOOLEAN, found: Findings]]
    /\ started \in [Users -> BOOLEAN] /\ banned \in [Users -> BOOLEAN]
    /\ invited \in [Users -> 0..Required]
    /\ admins \subseteq Users
    /\ gate \in [Requests -> GateRequest] /\ writer \in Requests \cup {Nobody}
    /\ answer \in [Users -> {"none", "open", "locked"}]
    /\ member \in [Users -> SUBSET Channels] /\ news \subseteq Users \X Channels
    /\ moves \in 0..MaxMoves /\ calm \in BOOLEAN

-----------------------------------------------------------------------------
Missing(found) == found.out \cup found.refused
Ok(found) == Missing(found) = {}
TTL(found) == IF Ok(found) THEN OkTTL ELSE MissingTTL

On == {c \in Channels : channels[c] = "on"}

Unlocked(u) == Required <= invited[u]

CanWrite(r) == writer \in {Nobody, r}

Answer(u, open) == answer' = [answer EXCEPT ![u] = IF open THEN "open" ELSE "locked"]

\* evaluate_entry reads the role and the flags. An admin skips the checks, and
\* a banned user or one who never pressed /start is locked out without them.
AnswerAtOnce(r, u) ==
    /\ gate[r].pc = "idle"
    /\ \/ banned[u] /\ Answer(u, FALSE)
       \/ ~banned[u] /\ u \in admins /\ Answer(u, TRUE)
       \/ ~banned[u] /\ u \notin admins /\ ~started[u] /\ Answer(u, FALSE)
    /\ UNCHANGED <<table, verdicts, gate, writer, outside>>

Checked(u) == ~banned[u] /\ started[u] /\ u \notin admins

\* The enabled channels are loaded, to be asked about one by one.
Loaded(u) == [NoCheck EXCEPT !.user = u, !.todo = On, !.pc = IF On = {} THEN "end" ELSE "ask"]

\* check_subscription: a forced check deletes the verdict, which others see
\* when the request commits ...
Recheck(r, u) ==
    /\ gate[r].pc = "idle" /\ Checked(u)
    /\ CanWrite(r) /\ writer' = r
    /\ gate' = [gate EXCEPT ![r] = Loaded(u)]
    /\ UNCHANGED <<table, verdicts, answer, outside>>

\* ... and otherwise a verdict in force is the answer.
Check(r, u) ==
    LET v == verdicts[u] IN
    /\ gate[r].pc = "idle" /\ Checked(u)
    /\ gate' = [gate EXCEPT ![r] =
                   IF ~v.stored THEN Loaded(u)
                   ELSE [NoCheck EXCEPT !.user = u, !.pc = "end",
                                     !.cached = IF Ok(v.found) THEN "ok" ELSE "missing"]]
    /\ UNCHANGED <<table, verdicts, writer, answer, outside>>

\* What getChatMember may come back with: the truth, or a failure.
Told(u, c) == {IF c \in member[u] THEN "in" ELSE "out"}
              \cup IF calm THEN {} ELSE {"outage", "no_access", "refused"}

\* Telegram answers. A channel deleted since it was loaded is asked all the
\* same.
AskTelegram(r) ==
    LET q == gate[r] IN
    /\ q.pc = "ask"
    /\ \E c \in q.todo : \E reply \in Told(q.user, c) :
          LET missed == IF channels[c] = "absent" THEN q.found.missed \cup {c}
                                                  ELSE q.found.missed \ {c} IN
          gate' = [gate EXCEPT ![r] =
                      [q EXCEPT !.asked = c, !.reply = reply, !.pc = "reply",
                                !.todo = q.todo \ {c},
                                !.found = [q.found EXCEPT !.missed = missed]]]
    /\ UNCHANGED <<table, verdicts, writer, answer, outside>>

\* What a reply adds to the findings.
Found(found, c, reply) ==
    [found EXCEPT !.in = IF reply = "in" THEN found.in \cup {c} ELSE found.in,
                  !.out = IF reply = "out" THEN found.out \cup {c} ELSE found.out,
                  !.refused = IF reply = "refused" THEN found.refused \cup {c}
                                                   ELSE found.refused]

\* The reply is taken in. All but an outage and a refusal mark the channel's
\* row, and so take the write lock if the request does not have it yet.
TakeReply(r) ==
    LET q == gate[r] IN
    /\ q.pc = "reply"
    /\ IF q.reply \in {"outage", "refused"} THEN UNCHANGED writer
       ELSE CanWrite(r) /\ writer' = r
    /\ gate' = [gate EXCEPT ![r] =
                   [q EXCEPT !.found = Found(q.found, q.asked, q.reply),
                             !.degraded = q.degraded \/ q.reply = "outage",
                             !.asked = Nobody, !.reply = "none",
                             !.pc = IF q.todo = {} THEN "end" ELSE "ask"]]
    /\ UNCHANGED <<table, verdicts, answer, outside>>

\* store_verdict: an outage leaves a short life, by back-dating.
Verdict(r) ==
    LET found == gate[r].found IN
    [age |-> IF gate[r].degraded THEN TTL(found) - DegradedTTL ELSE 0,
     stored |-> TRUE, found |-> found]

\* Mutant: to use a cached verdict is to renew it.
Renewed(v) == [v EXCEPT !.age = 0]

Reused(v) == v

\* The verdict is stored, the referral gate read, the request commits and
\* raise_for_state decides.
Finish(r) ==
    LET u == gate[r].user  cached == gate[r].cached IN
    /\ gate[r].pc = "end"
    /\ IF cached = "no"
       THEN CanWrite(r) /\ verdicts' = [verdicts EXCEPT ![u] = Verdict(r)]
       ELSE verdicts' = [verdicts EXCEPT ![u] = Reused(@)]
    /\ Answer(u, /\ IF cached = "no" THEN Ok(gate[r].found) ELSE cached = "ok"
                 /\ Unlocked(u))
    /\ gate' = [gate EXCEPT ![r] = NoCheck]
    /\ writer' = IF writer = r THEN Nobody ELSE writer
    /\ UNCHANGED <<table, outside>>

\* The request is cancelled, or a write waits too long for the lock: its
\* transaction is rolled back.
AbandonCheck(r) ==
    /\ ~calm
    /\ gate[r].pc # "idle"
    /\ gate' = [gate EXCEPT ![r] = NoCheck]
    /\ writer' = IF writer = r THEN Nobody ELSE writer
    /\ UNCHANGED <<table, verdicts, answer, outside>>

-----------------------------------------------------------------------------
\* A change that the verdicts and checks of the user did not get to know of.
Miss(S, u, c) == [r \in Requests |-> IF gate[r].pc # "idle" /\ gate[r].user \in S
                                     THEN [gate[r] EXCEPT !.found.missed = @ \cup {c}]
                                     ELSE gate[r]]

\* Mutant: only enabled channels' leavers are looked at, by their old verdict.
DropIfMissing(u, c) ==
    /\ verdicts' = [verdicts EXCEPT ![u] = IF Ok(@.found) THEN @ ELSE NoVerdict]
    /\ gate' = Miss({u}, u, c)

\* The user's row goes, whatever it says; checks under way do not notice.
DropVerdict(u, c) ==
    /\ verdicts' = [verdicts EXCEPT ![u] = NoVerdict]
    /\ gate' = Miss({u}, u, c)

\* The row stays: the channel is not required now, or the database was locked
\* for too long and on_chat_member gave up.
KeepVerdict(u, c) ==
    /\ verdicts' = [verdicts EXCEPT ![u].found.missed =
                       IF verdicts[u].stored THEN @ \cup {c} ELSE @]
    /\ gate' = Miss({u}, u, c)

\* on_chat_member. is_required_channel and the DELETE are one step.
OnChatMember(u, c) ==
    /\ <<u, c>> \in news
    /\ news' = news \ {<<u, c>>}
    /\ \/ writer = Nobody /\ channels[c] = "on" /\ DropVerdict(u, c)
       \/ channels[c] # "on" /\ KeepVerdict(u, c)
       \/ writer # Nobody /\ ~calm /\ KeepVerdict(u, c)
    /\ UNCHANGED <<table, writer, answer, member, moves, calm>>

-----------------------------------------------------------------------------
(* What changes from outside. *)

Move == ~calm /\ moves < MaxMoves /\ moves' = moves + 1 /\ UNCHANGED calm

\* A user joins or leaves a channel on Telegram.
JoinOrLeave(u, c) ==
    /\ Move
    /\ member' = [member EXCEPT ![u] = IF c \in @ THEN @ \ {c} ELSE @ \cup {c}]
    /\ news' = news \cup {<<u, c>>}
    /\ UNCHANGED <<table, verdicts, gate, writer, answer>>

\* add_channel and patch_channel leave the verdicts alone.
SetChannel(c, state) ==
    /\ Move /\ writer = Nobody
    /\ channels[c] # state
    /\ channels' = [channels EXCEPT ![c] = state]
    /\ UNCHANGED <<verdicts, started, banned, invited, admins, gate, writer,
                   answer, member, news>>

AddChannel(c) == channels[c] = "absent" /\ SetChannel(c, "on")

\* The bot looks for the channel first and writes later: what another admin has
\* added and switched off in between is switched on.
InsertChannel(c) == SetChannel(c, "on")

PatchChannel(c) ==
    channels[c] # "absent" /\ \E state \in {"on", "off"} : SetChannel(c, state)

\* Mutant: as in patch_channel, the verdicts stay.
ForgetChannel(c) == UNCHANGED verdicts

ForgetVerdicts(c) == verdicts' = [u \in Users |-> NoVerdict]

\* All verdicts go with the channel, or with one that has gone since it was
\* looked for.
RemoveChannel(c) ==
    /\ Move /\ writer = Nobody
    /\ channels' = [channels EXCEPT ![c] = "absent"]
    /\ ForgetVerdicts(c)
    /\ gate' = Miss(Users, Nobody, c)
    /\ UNCHANGED <<started, banned, invited, admins, writer, answer, member, news>>

DeleteChannel(c) == RemoveChannel(c)

DeleteFromBot(c) == RemoveChannel(c)

\* The first /start.
PressStart(u) ==
    /\ ~started[u]
    /\ started' = [started EXCEPT ![u] = TRUE]
    /\ UNCHANGED <<banned, invited, admins>>

\* The first /start, a ban or its end, a friend who came by invitation, the
\* end of an admin's role.
ChangeUser(u) ==
    /\ Move /\ writer = Nobody
    /\ \/ PressStart(u)
       \/ banned' = [banned EXCEPT ![u] = ~@] /\ UNCHANGED <<started, invited, admins>>
       \/ /\ invited[u] < Required
          /\ invited' = [invited EXCEPT ![u] = @ + 1]
          /\ UNCHANGED <<started, banned, admins>>
       \/ u \in admins /\ admins' = admins \ {u} /\ UNCHANGED <<started, banned, invited>>
    /\ UNCHANGED <<channels, verdicts, gate, writer, answer, member, news>>

\* From here on nothing changes and Telegram is up.
CalmDown ==
    /\ ~calm
    /\ calm' = TRUE /\ moves' = MaxMoves
    /\ UNCHANGED <<table, verdicts, gate, writer, answer, member, news>>

\* A verdict past its life is as good as none, and is written as none.
Age(v) == IF v.stored /\ v.age + 1 < TTL(v.found) THEN [v EXCEPT !.age = @ + 1] ELSE NoVerdict

Tick ==
    /\ verdicts' = [u \in Users |-> Age(verdicts[u])]
    /\ UNCHANGED <<table, gate, writer, answer, outside>>

-----------------------------------------------------------------------------
\* Channels are set, and no user has both the first /start and the invitations
\* to come.
EntryInit ==
    /\ channels = [c \in Channels |-> "on"]
    /\ verdicts = [u \in Users |-> NoVerdict]
    /\ started \in [Users -> BOOLEAN] /\ banned = [u \in Users |-> FALSE]
    /\ invited \in [Users -> 0..Required]
    /\ \A u \in Users : started[u] \/ invited[u] = Required
    /\ admins \in SUBSET Users
    /\ gate = [r \in Requests |-> NoCheck] /\ writer = Nobody
    /\ answer = [u \in Users |-> "none"]
    /\ member \in [Users -> SUBSET Channels] /\ news = {}
    /\ moves = 0 /\ calm = FALSE

Serve(r) == AskTelegram(r) \/ TakeReply(r) \/ Finish(r)

EntryNext ==
    \/ \E r \in Requests :
          \/ \E u \in Users : AnswerAtOnce(r, u) \/ Recheck(r, u) \/ Check(r, u)
          \/ Serve(r) \/ AbandonCheck(r)
    \/ \E u \in Users, c \in Channels : OnChatMember(u, c) \/ JoinOrLeave(u, c)
    \/ \E c \in Channels : AddChannel(c) \/ InsertChannel(c) \/ PatchChannel(c)
                           \/ DeleteChannel(c) \/ DeleteFromBot(c)
    \/ \E u \in Users : ChangeUser(u)
    \/ Tick \/ CalmDown

EntrySpec == EntryInit /\ [][EntryNext]_gateVars

\* Every request goes on, time passes, every user keeps opening the app, and
\* the bot hears of every change in the end.
EntryFairSpec ==
    /\ EntrySpec
    /\ \A r \in Requests : WF_gateVars(Serve(r))
    /\ \A u \in Users : WF_gateVars(\E r \in Requests : AnswerAtOnce(r, u) \/ Check(r, u))
    /\ WF_gateVars(Tick) /\ WF_gateVars(CalmDown)

-----------------------------------------------------------------------------
\* A verdict in force says what is so: a channel it was made of is still in
\* the table, and the user is in it exactly if Telegram said so, unless the
\* bot has yet to hear of the change, could not act on it, or heard of it (or
\* the channel was deleted) while the check was under way.
VerdictsAreTrue ==
    \A u \in Users : LET v == verdicts[u] IN
       v.stored => \A c \in (v.found.in \cup v.found.out) \ v.found.missed :
          <<u, c>> \notin news => /\ channels[c] # "absent"
                                  /\ (c \in v.found.in) = (c \in member[u])

Entitled(u) ==
    /\ ~banned[u]
    /\ \/ u \in admins
       \/ started[u] /\ On \subseteq member[u] /\ Unlocked(u)

\* Once nothing changes and Telegram is up, the gate comes to tell every user
\* the truth and stays with it, whatever stale, degraded or wrong verdicts and
\* half-done checks are left: no member is locked out and nobody who left is
\* let in for ever.
AnswersSettle ==
    <>[](\A u \in Users : answer[u] = IF Entitled(u) THEN "open" ELSE "locked")
=============================================================================
