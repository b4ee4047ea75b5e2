----------------------------- MODULE ExportLinks -----------------------------
(***************************************************************************)
(* The single-use link to the CSV of the users. An admin mints a signed    *)
(* token, which nothing records; whoever holds the link may then ask for   *)
(* the file, several times and at once. A download reads the clock, the    *)
(* actor's role and the actor's ban in three steps, claims the token in    *)
(* admin_idempotency together with its audit row, and only then streams.   *)
(* The retention pass deletes claims by age.                               *)
(***************************************************************************)
EXTENDS Integers, FiniteSets

CONSTANTS Links,          \* tokens (their random nonces)
          Downloads,      \* requests in flight
          LinkLife,       \* EXPORT_LINK_TTL_SECONDS
          ClaimLife,      \* ADMIN_IDEMPOTENCY_TTL_SECONDS
          DownloadTime,   \* what a request may take before its first byte
          MaxTime         \* bound: the clock

\* The comment of _consume_download_link: a claim outlives its link.
ASSUME ExportLinksAssumption ==
    /\ {LinkLife, ClaimLife, DownloadTime, MaxTime} \subseteq Nat
    /\ LinkLife + DownloadTime < ClaimLife

VARIABLES seconds,    \* the clock
          expires,    \* expires[l]: the end of link l, 0 before it is minted
          claims,     \* rows of admin_idempotency: link -> created_at
          standing,   \* the actor: [role |-> is an admin, free |-> not banned]
          download,   \* download[d]: the request
          logged,     \* logged[l]: users.export audit rows of link l
          streamed    \* streamed[l]: files sent for link l

linkVars == <<seconds, expires, claims, standing, download, logged, streamed>>

\* role and free: whether they held at some moment since the request began.
Download == [at: {"idle", "verified", "admin", "free", "claimed"},
             link: Links, since: Nat, role: BOOLEAN, free: BOOLEAN]
Standing == [role: BOOLEAN, free: BOOLEAN]

LinksTypeOK ==
    /\ seconds \in 1..MaxTime
    /\ expires \in [Links -> Nat]
    /\ DOMAIN claims \subseteq Links /\ \A l \in DOMAIN claims : claims[l] \in Nat
    /\ standing \in Standing
    /\ download \in [Downloads -> Download]
    /\ logged \in [Links -> Nat] /\ streamed \in [Links -> Nat]

LinksInit ==
    /\ seconds = 1
    /\ expires = [l \in Links |-> 0]
    /\ claims = [l \in {} |-> 0]
    /\ standing = [role |-> TRUE, free |-> TRUE]
    /\ \E l \in Links :
          download = [d \in Downloads |->
             [at |-> "idle", link |-> l, since |-> 0, role |-> FALSE, free |-> FALSE]]
    /\ logged = [l \in Links |-> 0]
    /\ streamed = [l \in Links |-> 0]

-----------------------------------------------------------------------------
\* mint_export_link: an admin's session; it writes nothing.
Mint(l) ==
    /\ expires[l] = 0
    /\ standing.role /\ standing.free
    /\ expires' = [expires EXCEPT ![l] = seconds + LinkLife]
    /\ UNCHANGED <<seconds, claims, standing, download, logged, streamed>>

Idle(d) == [download[d] EXCEPT !.at = "idle", !.since = 0, !.role = FALSE, !.free = FALSE]

\* verify_export_link_token.
Verify(d, l) ==
    /\ download[d].at = "idle"
    /\ seconds < expires[l]
    /\ download' = [download EXCEPT ![d] =
          [at |-> "verified", link |-> l, since |-> seconds,
           role |-> standing.role, free |-> standing.free]]
    /\ UNCHANGED <<seconds, expires, claims, standing, logged, streamed>>

\* require_export_link re-reads the actor: the role, then the ban.
ReadRole(d) ==
    /\ download[d].at = "verified"
    /\ download' = [download EXCEPT ![d] =
          IF standing.role THEN [@ EXCEPT !.at = "admin"] ELSE Idle(d)]
    /\ UNCHANGED <<seconds, expires, claims, standing, logged, streamed>>

\* Mutant: "this route skips that dependency".
SkipBan(d) ==
    /\ download[d].at = "admin"
    /\ download' = [download EXCEPT ![d].at = "free"]
    /\ UNCHANGED <<seconds, expires, claims, standing, logged, streamed>>

ReadBan(d) ==
    /\ download[d].at = "admin"
    /\ download' = [download EXCEPT ![d] =
          IF standing.free THEN [@ EXCEPT !.at = "free"] ELSE Idle(d)]
    /\ UNCHANGED <<seconds, expires, claims, standing, logged, streamed>>

\* INSERT .. ON CONFLICT DO NOTHING, the audit row and the commit are one
\* transaction; a link that is claimed already ends the request.
ClaimLink(d) ==
    LET l == download[d].link IN
    /\ download[d].at = "free"
    /\ IF l \in DOMAIN claims
       THEN /\ download' = [download EXCEPT ![d] = Idle(d)]
            /\ UNCHANGED <<claims, logged>>
       ELSE /\ claims' = [x \in DOMAIN claims \cup {l} |->
                             IF x = l THEN seconds ELSE claims[x]]
            /\ logged' = [logged EXCEPT ![l] = @ + 1]
            /\ download' = [download EXCEPT ![d].at = "claimed"]
    /\ UNCHANGED <<seconds, expires, standing, streamed>>

StreamFile(d) ==
    /\ download[d].at = "claimed"
    /\ streamed' = [streamed EXCEPT ![download[d].link] = @ + 1]
    /\ download' = [download EXCEPT ![d] = Idle(d)]
    /\ UNCHANGED <<seconds, expires, claims, standing, logged>>

\* A failed statement, a lost client or the end of the process.
GiveUpDownload(d) ==
    /\ download[d].at # "idle"
    /\ download' = [download EXCEPT ![d] = Idle(d)]
    /\ UNCHANGED <<seconds, expires, claims, standing, logged, streamed>>

-----------------------------------------------------------------------------
\* Another admin revokes, grants, bans or unbans the actor.
SetStanding(s) ==
    /\ s # standing
    /\ standing' = s
    /\ download' = [d \in Downloads |->
          IF download[d].at = "idle" THEN download[d]
          ELSE [download[d] EXCEPT !.role = @ \/ s.role, !.free = @ \/ s.free]]
    /\ UNCHANGED <<seconds, expires, claims, logged, streamed>>

\* Mutant: claims live as long as their links.
OldLinks == {l \in DOMAIN claims : claims[l] < seconds - LinkLife + 1}

\* retention's rule on admin_idempotency.
OldClaims == {l \in DOMAIN claims : claims[l] < seconds - ClaimLife}

SweepClaims ==
    /\ OldClaims # {}
    /\ claims' = [l \in DOMAIN claims \ OldClaims |-> claims[l]]
    /\ UNCHANGED <<seconds, expires, standing, download, logged, streamed>>

\* No request is older than DownloadTime.
Second ==
    /\ seconds < MaxTime
    /\ \A d \in Downloads : download[d].at # "idle" => seconds < download[d].since + DownloadTime
    /\ seconds' = seconds + 1
    /\ UNCHANGED <<expires, claims, standing, download, logged, streamed>>

LinksNext ==
    \/ \E l \in Links : Mint(l)
    \/ \E d \in Downloads : \/ \E l \in Links : Verify(d, l)
                            \/ ReadRole(d) \/ ReadBan(d)
                            \/ ClaimLink(d) \/ StreamFile(d) \/ GiveUpDownload(d)
    \/ \E s \in Standing : SetStanding(s)
    \/ SweepClaims \/ Second

LinksSpec == LinksInit /\ [][LinksNext]_linkVars

-----------------------------------------------------------------------------
\* A link yields at most one file in its life, every file has its audit row,
\* and an actor who was no admin, or was banned, from the first to the last
\* moment of a request gets nothing.
LinksServeOnce ==
    /\ \A l \in Links : streamed[l] <= logged[l] /\ logged[l] <= 1
    /\ \A d \in Downloads :
          download[d].at = "claimed" => download[d].role /\ download[d].free
=============================================================================
