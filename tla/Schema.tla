-------------------------------- MODULE Schema -------------------------------
(***************************************************************************)
(* The bot and the API share one SQLite file and bring its schema up to    *)
(* date when they start, in either order or at once: each has statements   *)
(* of its own (tables if they are missing, columns that it has not seen),  *)
(* and both then apply the migrations that are not recorded yet. A start   *)
(* may end anywhere.                                                       *)
(*                                                                         *)
(* The schema is the set of its parts: tables, "table.column", indexes     *)
(* ("idx:.."), the ids of the migrations that are recorded, and whether    *)
(* regions has rows. Columns and indexes that always come together are     *)
(* named by one of them. Without a transaction a statement takes effect at *)
(* once; within one, the process works on a copy and keeps others from     *)
(* writing.                                                                *)
(***************************************************************************)
EXTENDS Integers, Sequences, FiniteSets, SequencesExt

CONSTANTS MaxStops    \* bound: starts and runs that end by a crash or a timeout

ASSUME SchemaAssumption == MaxStops \in Nat

VARIABLES schema,    \* what is committed
          workcopy,  \* what the transaction of the lock's holder would commit
          lock,      \* who is writing: "bot", "api" or "nobody"
          proc,      \* proc[p]: the process
          twice,     \* whether some migration was committed again
          stops

schemaVars == <<schema, workcopy, lock, proc, twice, stops>>

Procs == {"bot", "api"}
Other(p) == IF p = "bot" THEN "api" ELSE "bot"

-----------------------------------------------------------------------------
(***************************************************************************)
(* The migrations: what each makes of a schema.                            *)
(***************************************************************************)
Has(S, items) == items \subseteq S

\* An index and the parts it reads.
ReportingIndexes ==
    [date |-> {"users"},
     user_pro |-> {"users", "users.user_pro"},
     blocked |-> {"users", "users.blocked"},
     resume_events |-> {"resume_events"},
     posted_vacancies |-> {"posted_vacancies"},
     notification_settings |-> {"notification_settings"},
     referral_payouts |-> {"referral_payouts"},
     webapp_sessions |-> {"webapp_sessions"}]

Idx ==
    [date |-> "idx:date", user_pro |-> "idx:user_pro", blocked |-> "idx:blocked",
     resume_events |-> "idx:resume_events", posted_vacancies |-> "idx:posted_vacancies",
     notification_settings |-> "idx:notification_settings",
     referral_payouts |-> "idx:referral_payouts",
     webapp_sessions |-> "idx:webapp_sessions"]

\* What is not there yet is skipped.
m001_indexes(S) ==
    S \cup {Idx[i] : i \in {j \in DOMAIN ReportingIndexes : Has(S, ReportingIndexes[j])}}

m002_admins(S) == S \cup {"admins"}
m003_audit_log(S) == S \cup {"admin_audit_log"}
m004_wallet_transactions(S) ==
    IF "wallet_transactions" \in S THEN S
    ELSE S \cup {"wallet_transactions", "wallet_transactions.click_only"}
m005_settings_version(S) ==
    S \cup {"webapp_admin_settings", "webapp_admin_settings.version"}
m006_entry_gate(S) ==
    S \cup {"users", "users.started_at", "channels", "channels.chat_id", "subscription_checks"}
m007_content(S) == S \cup {"content_categories", "content_articles", "content_tips"}
m008_broadcasts(S) == S \cup {"broadcasts", "broadcast_targets"}
m009_admin_users(S) == S \cup {"users", "users.banned", "users.last_seen_at"}
m010_bot_jobs_autopost(S) == S \cup {"bot_jobs", "auto_post_log"}
m011_daily_stats(S) == S \cup {"daily_stats"}
m012_error_log(S) == S \cup {"error_log"}

\* IF NOT EXISTS does not look at what the index is: a full one stays.
m014_ref_by_index(S) ==
    IF "users.ref_by" \in S /\ "idx:ref_by.full" \notin S THEN S \cup {"idx:ref_by"} ELSE S

m015_broadcast_claimed_at(S) ==
    IF "broadcast_targets" \in S THEN S \cup {"broadcast_targets.claimed_at"} ELSE S

\* Mutant: the full index stays.
m016_without_drop(S) == IF "users.ref_by" \in S THEN S \cup {"idx:ref_by"} ELSE S

m016_ref_by_partial_index(S) ==
    IF "users.ref_by" \in S THEN (S \ {"idx:ref_by.full"}) \cup {"idx:ref_by"} ELSE S

m017_broadcast_retry(S) ==
    IF "broadcast_targets" \in S
    THEN S \cup {"broadcast_targets.attempts", "broadcasts.content_failed"} ELSE S
m018_admin_idempotency(S) == S \cup {"admin_idempotency"}
m019_broadcast_last_attempt(S) ==
    IF "broadcast_targets" \in S THEN S \cup {"broadcast_targets.last_attempt_at"} ELSE S

\* The ledger is rebuilt under its new CHECK.
m020_click_payments(S) ==
    (S \ {"wallet_transactions.click_only"})
    \cup {"payment_orders", "payment_orders.click_only", "payment_events", "payment_rate_limits",
          "wallet_transactions", "wallet_transactions.reference"}
    \cup (IF "webapp_admin_settings" \in S
          THEN {"webapp_admin_settings.payment_bonus_percent"} ELSE {})

m021_bot_link_revocation(S) == S \cup {"users.bot_links_before"}
m022_kb_sent_at(S) == S \cup {"users.kb_sent_at"}
m023_vacancy_store(S) == S \cup {"vacancies", "vacancies_fts", "ingest_cursor"}
m024_autopost_min_quality(S) ==
    IF "webapp_admin_settings" \in S
    THEN S \cup {"webapp_admin_settings.autopost_min_quality"} ELSE S
m025_ingest_hardening(S) == S \cup {"vacancies.recheck_after", "vacancies_fts_src"}
m026_vacancy_category(S) ==
    IF "vacancies" \in S THEN S \cup {"vacancies.category_id"} ELSE S
m027_paynet(S) == (S \ {"payment_orders.click_only"}) \cup {"payment_orders.paynet"}

Migrations ==
    <<"m000", "m001", "m002", "m003", "m004", "m005", "m006", "m007", "m008", "m009",
      "m010", "m011", "m012", "m014", "m015", "m016", "m017", "m018", "m019", "m020",
      "m021", "m022", "m023", "m024", "m025", "m026", "m027">>

Applied(m, S) ==
    CASE m = "m000" -> S
      [] m = "m001" -> m001_indexes(S)
      [] m = "m002" -> m002_admins(S)
      [] m = "m003" -> m003_audit_log(S)
      [] m = "m004" -> m004_wallet_transactions(S)
      [] m = "m005" -> m005_settings_version(S)
      [] m = "m006" -> m006_entry_gate(S)
      [] m = "m007" -> m007_content(S)
      [] m = "m008" -> m008_broadcasts(S)
      [] m = "m009" -> m009_admin_users(S)
      [] m = "m010" -> m010_bot_jobs_autopost(S)
      [] m = "m011" -> m011_daily_stats(S)
      [] m = "m012" -> m012_error_log(S)
      [] m = "m014" -> m014_ref_by_index(S)
      [] m = "m015" -> m015_broadcast_claimed_at(S)
      [] m = "m016" -> m016_ref_by_partial_index(S)
      [] m = "m017" -> m017_broadcast_retry(S)
      [] m = "m018" -> m018_admin_idempotency(S)
      [] m = "m019" -> m019_broadcast_last_attempt(S)
      [] m = "m020" -> m020_click_payments(S)
      [] m = "m021" -> m021_bot_link_revocation(S)
      [] m = "m022" -> m022_kb_sent_at(S)
      [] m = "m023" -> m023_vacancy_store(S)
      [] m = "m024" -> m024_autopost_min_quality(S)
      [] m = "m025" -> m025_ingest_hardening(S)
      [] m = "m026" -> m026_vacancy_category(S)
      [] m = "m027" -> m027_paynet(S)

-----------------------------------------------------------------------------
(***************************************************************************)
(* The programs.                                                           *)
(***************************************************************************)
\* Statements that commit at once, each of its own, and that nothing depends on
\* in between, are one step for a set of parts.
Do(what) == <<[do |-> what, parts |-> {}]>>
All(what, parts) == <<[do |-> what, parts |-> parts]>>
Each(what, ids) == [i \in DOMAIN ids |-> [do |-> what, parts |-> {ids[i]}]]

UserColumns ==
    [bot |-> {"users.ref_by", "users.user_pro", "users.blocked", "users.last_seen_at"},
     api |-> {"users.ref_by", "users.username", "users.user_pro", "users.blocked",
              "users.last_seen_at"}]
SettingsColumns ==
    [bot |-> {"webapp_admin_settings.channel_lang"},
     api |-> {"webapp_admin_settings.channel_lang",
              "webapp_admin_settings.autopost_min_quality"}]

\* StatsMiddleware.init_db, then main's run_migrations.
BotProgram ==
    All("create", {"users", "channels"})
    \o Do("saves_new") \o Do("saves")
    \o All("create", {"regions", "webapp_sessions", "bot_handoff_tokens", "referral_payouts"})
    \o Do("commit")
    \o All("look", UserColumns.bot) \o All("column", UserColumns.bot)
    \o All("look", SettingsColumns.bot) \o All("column", SettingsColumns.bot)
    \o Do("regions") \o Do("commit") \o Do("locations")
    \o Each("migrate", Migrations)

\* webapp.core.database.init_db. Its INSERT opens the transaction that the
\* commit before run_migrations ends.
ApiProgram ==
    All("look", UserColumns.api) \o All("column", UserColumns.api)
    \o All("create", {"webapp_sessions", "bot_handoff_tokens", "resume_events",
                      "webapp_admin_settings"})
    \o All("look", SettingsColumns.api) \o All("column", SettingsColumns.api)
    \o Do("insert")
    \o All("create", {"vacancy_cache", "posted_vacancies", "notification_settings"})
    \o Do("indexes") \o Do("commit")
    \o Each("migrate", Migrations)

Program == [bot |-> BotProgram, api |-> ApiProgram]

\* What an old release, or nobody, has left.
Databases ==
    { {},
      {"users", "channels", "saves", "saves.fake", "locations"},
      {"users", "users.ref_by", "users.user_pro", "users.blocked", "users.username",
       "channels", "saves", "regions", "regions.rows", "referral_payouts", "idx:ref_by.full",
       "webapp_sessions", "resume_events", "webapp_admin_settings"} }

\* at: the next step, 0 when the process is down; seen: what the last look missed;
\* moved: the rows of locations were copied; later: the other process had
\* been up when this one was started; missed: a column was given up because
\* the other one was writing; been: it has been up once.
Proc == [at: Nat, seen: SUBSET STRING, moved: BOOLEAN, later: BOOLEAN,
         missed: BOOLEAN, been: BOOLEAN]

SchemaInit ==
    /\ schema \in Databases
    /\ workcopy = {}
    /\ lock = "nobody"
    /\ proc = [p \in Procs |-> [at |-> 0, seen |-> {}, moved |-> FALSE, later |-> FALSE,
                              missed |-> FALSE, been |-> FALSE]]
    /\ twice = FALSE
    /\ stops = 0

-----------------------------------------------------------------------------
(***************************************************************************)
(* Statements.                                                             *)
(***************************************************************************)
View(p) == IF lock = p THEN workcopy ELSE schema
Statement(p) == Program[p][proc[p].at]
Up(p) == proc[p].at > Len(Program[p])

At(p, what) == proc[p].at > 0 /\ ~Up(p) /\ Statement(p).do = what

\* The one migration of a step.
TheMigration(p) == CHOOSE m \in Statement(p).parts : TRUE

Leap(p) == [proc[p] EXCEPT !.at = @ + 1, !.seen = {}, !.been = @ \/ proc[p].at = Len(Program[p])]
Advances(p) == proc' = [proc EXCEPT ![p] = Leap(p)]

\* One statement that turns the schema into S.
Turn(p, S) ==
    /\ lock \in {p, "nobody"} \/ S = schema
    /\ IF lock = p THEN workcopy' = S /\ UNCHANGED schema
       ELSE schema' = S /\ UNCHANGED workcopy
    /\ UNCHANGED <<lock, twice, stops>>

\* The first row that is written opens a transaction.
BeginWith(p, S) ==
    /\ lock \in {p, "nobody"}
    /\ lock' = p
    /\ workcopy' = S
    /\ UNCHANGED <<schema, twice, stops>>

StartProcess(p) ==
    /\ proc[p].at = 0
    /\ proc' = [proc EXCEPT ![p] =
          [@ EXCEPT !.at = 1, !.seen = {}, !.moved = FALSE, !.missed = FALSE,
                    !.later = proc[Other(p)].been]]
    /\ UNCHANGED <<schema, workcopy, lock, twice, stops>>

CreateParts(p) ==
    /\ At(p, "create")
    /\ Turn(p, View(p) \cup Statement(p).parts)
    /\ Advances(p)

\* saves without the column "fake": copied, dropped and renamed in one transaction.
SavesNew(p) ==
    /\ At(p, "saves_new")
    /\ Turn(p, View(p) \cup (IF "saves.fake" \in View(p) THEN {"saves_new"} ELSE {"saves"}))
    /\ Advances(p)

MoveSaves(p) ==
    /\ At(p, "saves")
    /\ IF "saves.fake" \in View(p) THEN BeginWith(p, View(p) \ {"saves.fake", "saves_new"})
       ELSE UNCHANGED <<schema, workcopy, lock, twice, stops>>
    /\ Advances(p)

\* PRAGMA table_info: the columns that the loop will add.
LookAtTable(p) ==
    /\ At(p, "look")
    /\ proc' = [proc EXCEPT ![p] = [Leap(p) EXCEPT !.seen = Statement(p).parts \ View(p)]]
    /\ UNCHANGED <<schema, workcopy, lock, twice, stops>>

\* ALTER TABLE for each; a missing table and a column that has come meanwhile
\* are errors, which are logged.
AddColumns(p) ==
    LET table == IF "users.ref_by" \in Statement(p).parts THEN "users" ELSE "webapp_admin_settings" IN
    /\ At(p, "column")
    /\ IF proc[p].seen = {} \/ table \notin View(p)
       THEN UNCHANGED <<schema, workcopy, lock, twice, stops>>
       ELSE Turn(p, View(p) \cup proc[p].seen)
    /\ Advances(p)

\* "database is locked" is logged as well.
MissColumns(p) ==
    /\ At(p, "column")
    /\ proc[p].seen # {}
    /\ lock = Other(p)
    /\ proc' = [proc EXCEPT ![p] = [Leap(p) EXCEPT !.missed = TRUE]]
    /\ UNCHANGED <<schema, workcopy, lock, twice, stops>>

InsertSettings(p) ==
    /\ At(p, "insert")
    /\ BeginWith(p, View(p))
    /\ Advances(p)

\* _ensure_performance_indexes: every index of a table that is there.
AllIndexes(S) ==
    S \cup {Idx[i] : i \in {j \in DOMAIN ReportingIndexes :
                   \E t \in ReportingIndexes[j] : t \in S /\ t \in {"users", "resume_events",
                       "posted_vacancies", "notification_settings", "referral_payouts",
                       "webapp_sessions"}}}
      \cup (IF "users" \in S /\ "idx:ref_by.full" \notin S THEN {"idx:ref_by"} ELSE {})

\* A column that is missing fails the statement, and the start with it.
CanIndex(S) ==
    "users" \in S => Has(S, {"users.ref_by", "users.user_pro", "users.blocked"})

MakeIndexes(p) ==
    /\ At(p, "indexes")
    /\ CanIndex(View(p))
    /\ Turn(p, AllIndexes(View(p)))
    /\ Advances(p)

\* From the old table, or else from another site, which may not answer.
FillRegions(p) ==
    /\ At(p, "regions")
    /\ \/ /\ "regions.rows" \in View(p)
          /\ UNCHANGED <<schema, workcopy, lock, twice, stops>>
          /\ Advances(p)
       \/ /\ "regions.rows" \notin View(p)
          /\ BeginWith(p, View(p) \cup {"regions.rows"})
          /\ proc' = [proc EXCEPT ![p] = [Leap(p) EXCEPT !.moved = "locations" \in View(p)]]
       \/ /\ "regions.rows" \notin View(p) /\ "locations" \notin View(p)
          /\ UNCHANGED <<schema, workcopy, lock, twice, stops>>
          /\ Advances(p)

DropLocations(p) ==
    /\ At(p, "locations")
    /\ Turn(p, IF proc[p].moved THEN View(p) \ {"locations"} ELSE View(p))
    /\ Advances(p)

CommitChanges(p) ==
    /\ At(p, "commit")
    /\ IF lock = p THEN schema' = workcopy /\ workcopy' = {} /\ lock' = "nobody"
       ELSE UNCHANGED <<schema, workcopy, lock>>
    /\ Advances(p)
    /\ UNCHANGED <<twice, stops>>

-----------------------------------------------------------------------------
(***************************************************************************)
(* run_migrations.                                                         *)
(***************************************************************************)
PassOver(p) ==
    /\ At(p, "migrate")
    /\ lock # p /\ Statement(p).parts \subseteq schema
    /\ Advances(p)
    /\ UNCHANGED <<schema, workcopy, lock, twice, stops>>

\* The look and BEGIN IMMEDIATE are two statements.
LookForMigration(p) ==
    /\ At(p, "migrate")
    /\ lock # p /\ ~(Statement(p).parts \subseteq schema)
    /\ proc[p].seen = {}
    /\ proc' = [proc EXCEPT ![p].seen = Statement(p).parts]
    /\ UNCHANGED <<schema, workcopy, lock, twice, stops>>

BeginMigration(p) ==
    /\ At(p, "migrate")
    /\ lock = "nobody" /\ proc[p].seen # {}
    /\ lock' = p /\ workcopy' = schema
    /\ UNCHANGED <<schema, proc, twice, stops>>

\* Mutant: no second look.
NotYet(m, S) == TRUE

\* "another process won the race".
Pending(m, S) == m \notin S

Migrate(p) ==
    LET m == TheMigration(p) IN
    /\ At(p, "migrate")
    /\ lock = p
    /\ IF Pending(m, workcopy)
       THEN /\ schema' = Applied(m, workcopy) \cup {m}
            /\ twice' = (twice \/ m \in schema)
       ELSE UNCHANGED <<schema, twice>>
    /\ workcopy' = {} /\ lock' = "nobody"
    /\ Advances(p)
    /\ UNCHANGED stops

-----------------------------------------------------------------------------
\* Whatever was open is rolled back.
Dies(p) ==
    /\ proc' = [proc EXCEPT ![p] = [@ EXCEPT !.at = 0, !.seen = {}]]
    /\ IF lock = p THEN lock' = "nobody" /\ workcopy' = {} ELSE UNCHANGED <<lock, workcopy>>
    /\ UNCHANGED <<schema, twice>>

\* A crash, a restart, or a statement that waited for the lock in vain.
StopProcess(p) ==
    /\ proc[p].at > 0
    /\ stops < MaxStops
    /\ stops' = stops + 1
    /\ Dies(p)

IndexFails(p) ==
    /\ At(p, "indexes")
    /\ ~CanIndex(View(p))
    /\ Dies(p)
    /\ UNCHANGED stops

ProcStep(p) ==
    \/ StartProcess(p) \/ CreateParts(p) \/ SavesNew(p) \/ MoveSaves(p)
    \/ LookAtTable(p) \/ AddColumns(p) \/ MissColumns(p)
    \/ InsertSettings(p) \/ MakeIndexes(p) \/ FillRegions(p) \/ DropLocations(p) \/ CommitChanges(p)
    \/ PassOver(p) \/ LookForMigration(p) \/ BeginMigration(p) \/ Migrate(p)
    \/ StopProcess(p) \/ IndexFails(p)

SchemaNext == \E p \in Procs : ProcStep(p)
SchemaSpec == SchemaInit /\ [][SchemaNext]_schemaVars

-----------------------------------------------------------------------------
(***************************************************************************)
(* Properties.                                                             *)
(***************************************************************************)
Parts(program) ==
    UNION {program[i].parts : i \in {j \in DOMAIN program : program[j].do \in {"create", "column"}}}

\* Every part of an empty database that the bot and then the API have met.
Everything ==
    LET after[i \in 0..Len(Migrations)] ==
          IF i = 0 THEN AllIndexes(Parts(BotProgram) \cup Parts(ApiProgram) \cup {"saves"})
          ELSE Applied(Migrations[i], after[i - 1]) \cup {Migrations[i]}
    IN  after[Len(Migrations)]

\* No migration is committed twice. The table of the saves is there as soon as
\* it was. Once a process is up that was started when the other one had been up,
\* and that gave up no column, whatever was skipped or failed before has been
\* made good: the bot has what it uses, and behind the API nothing is missing.
SchemaIsWhole ==
    /\ ~twice
    /\ \A p \in Procs : proc[p].been => Has(schema, ToSet(Migrations))
    /\ "m016" \in schema => "idx:ref_by.full" \notin schema
    /\ proc["bot"].been => "saves" \in schema /\ "saves.fake" \notin schema
    /\ Up("bot") /\ proc["bot"].later /\ ~proc["bot"].missed =>
          Has(schema, Parts(BotProgram))
    /\ Up("api") /\ proc["api"].later /\ ~proc["api"].missed => Has(schema, Everything)
=============================================================================
