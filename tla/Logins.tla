------------------------------- MODULE Logins -------------------------------
(***************************************************************************)
(* Sessions of the Mini App: how a user signs in with Telegram's initData  *)
(* or with a signed link of the bot's keyboard (webapp/routers/auth.py),   *)
(* what a session row is good for (webapp/core/session.py), and how an     *)
(* admin signs a user out (webapp/routers/admin_users.py).                 *)
(*                                                                         *)
(* A login is one request and the session row it inserts. A link is the    *)
(* user it is for and the second it was issued in; signatures are taken to *)
(* be valid. The bot signs a link whenever it shows a keyboard, so one of  *)
(* every second may be presented.                                          *)
(***************************************************************************)
EXTENDS Integers, FiniteSets

CONSTANTS Users,
          Sessions,     \* logins, each with the session it opens
          NoUser,
          LinkTTL,      \* BOT_LINK_TTL_SECONDS
          SessionTTL,   \* SESSION_TTL_SECONDS
          MaxTime       \* bound of the clock

ASSUME LoginsAssumption ==
    /\ NoUser \notin Users
    /\ LinkTTL \in Nat \ {0} /\ SessionTTL \in Nat \ {0} /\ MaxTime \in Nat

VARIABLES now,
          logins,       \* logins[s]: the request, then the row of webapp_sessions
          linksBefore   \* users.bot_links_before

loginVars == <<now, logins, linksBefore>>

Never == -1
NoLink == -1            \* a login with initData

\* `late`: the user was signed out between the login's check and its insert.
Login == [pc: {"idle", "checked", "open", "gone"}, user: Users \cup {NoUser},
          link: -1..MaxTime, made: 0..MaxTime, late: BOOLEAN]

NoLogin == [pc |-> "idle", user |-> NoUser, link |-> NoLink, made |-> 0, late |-> FALSE]

LoginsTypeOK ==
    /\ now \in 0..MaxTime
    /\ logins \in [Sessions -> Login]
    /\ linksBefore \in [Users -> -1..MaxTime]

Gone == [NoLogin EXCEPT !.pc = "gone"]

Put(s, login) == logins' = [logins EXCEPT ![s] = login]

OpenLogin(u) == [NoLogin EXCEPT !.pc = "open", !.user = u]

-----------------------------------------------------------------------------
\* POST /auth/tg-webapp: nothing is read that a revocation could change, so
\* check and insert are one step.
SignInWithInitData(s, u) ==
    /\ logins[s].pc = "idle"
    /\ Put(s, [OpenLogin(u) EXCEPT !.made = now])
    /\ UNCHANGED <<now, linksBefore>>

\* Mutant: a link issued in the very second of the revocation lives on.
IssuedBefore(link, watermark) == watermark # Never /\ link < watermark

IsRevoked(link, watermark) == watermark # Never /\ link <= watermark

\* verify_bot_link: signed links carry the second they were issued in.
VerifyBotLink(link) == now < link + LinkTTL

\* POST /auth/bot-link verifies the link against the user's watermark ...
CheckLink(s, u, link) ==
    /\ logins[s].pc = "idle"
    /\ VerifyBotLink(link)
    /\ ~IsRevoked(link, linksBefore[u])
    /\ Put(s, [NoLogin EXCEPT !.pc = "checked", !.user = u, !.link = link])
    /\ UNCHANGED <<now, linksBefore>>

\* ... and inserts the session.
SignInWithLink(s) ==
    /\ logins[s].pc = "checked"
    /\ Put(s, [logins[s] EXCEPT !.pc = "open", !.made = now])
    /\ UNCHANGED <<now, linksBefore>>

Expired(s) == logins[s].made + SessionTTL <= now

Usable(s) == logins[s].pc = "open" /\ ~Expired(s)

\* load_session_user of a session that has run out deletes its row.
DropExpired(s) ==
    /\ logins[s].pc = "open"
    /\ Expired(s)
    /\ Put(s, Gone)
    /\ UNCHANGED <<now, linksBefore>>

\* What a revocation leaves of a login of the user.
SignedOut(login) ==
    CASE login.pc = "open" -> Gone
      [] login.pc = "checked" -> [login EXCEPT !.late = TRUE]
      [] OTHER -> login

\* Mutant: the sessions go, the links stay good.
KeepLinks(u) ==
    /\ logins' = [s \in Sessions |-> IF logins[s].user = u THEN SignedOut(logins[s])
                                                           ELSE logins[s]]
    /\ UNCHANGED linksBefore

\* _revoke_sessions, inside its caller's transaction.
RevokeSessions(u) ==
    /\ logins' = [s \in Sessions |-> IF logins[s].user = u THEN SignedOut(logins[s])
                                                           ELSE logins[s]]
    /\ linksBefore' = [linksBefore EXCEPT ![u] = now]

Tick ==
    /\ now < MaxTime
    /\ now' = now + 1
    /\ UNCHANGED <<logins, linksBefore>>

LoginStep ==
    \/ \E s \in Sessions, u \in Users :
          \/ SignInWithInitData(s, u)
          \/ \E link \in 0..now : CheckLink(s, u, link)
    \/ \E s \in Sessions : SignInWithLink(s) \/ DropExpired(s)
    \/ Tick
=============================================================================
