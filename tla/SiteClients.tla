---------------------------- MODULE SiteClients -----------------------------
(***************************************************************************)
(* The HTTP side of the source adapters (src/src/ingest/sources and          *)
(* scraping.py): what they make of a site's answers, hh's budget of          *)
(* requests, and vacancy_gov's circuit breaker.                             *)
(*                                                                          *)
(* A run of one source lists some pages, then re-checks rows through the    *)
(* detail endpoint, one request at a time; a step is a request with its     *)
(* answer, and the site may answer anything. Cursors and pages are in       *)
(* Listing, what the runner makes of the results in Ingest.                 *)
(***************************************************************************)
EXTENDS Integers, FiniteSets

CONSTANTS
  Due,             \* rows of the source that a run may re-check: numbers
  MaxListPages,    \* bound: pages of one listing
  RunBudget,       \* MAX_REQUESTS_PER_RUN
  Reserve,         \* RECHECK_RESERVE
  MaxRetries,      \* max_retries, by source
  Consecutive,     \* MAX_CONSECUTIVE_DETAIL_ERRORS
  Threshold,       \* BREAKER_THRESHOLD
  Pause,           \* BREAKER_PAUSE_SECONDS
  MaxClock         \* bound: the clock

Sites == {"hh", "osonish", "vacancy_gov"}

ASSUME ClientsAssumption ==
  /\ {MaxListPages, Reserve, Pause, MaxClock} \subseteq Nat
  /\ {RunBudget, Consecutive, Threshold} \subseteq Nat \ {0}
  /\ MaxRetries \in [Sites -> Nat] /\ MaxRetries["osonish"] = 0
  /\ Due \subseteq Nat \ {0} /\ IsFiniteSet(Due)
  /\ Consecutive <= Threshold

VARIABLES
  site,            \* the source
  clock,
  standing,        \* rows that the store has as open
  job,             \* the run in progress
  budget,          \* HHClient.budget
  failures,        \* VacancyGovAdapter._failures
  pausedUntil,     \* VacancyGovAdapter._paused_until
  told,            \* history: the row that the last answer said is gone
  streak           \* history: failed requests in a row, and when they were too many

clientVars == <<site, clock, standing, job, budget, failures, pausedUntil, told, streak>>

\* row: the one that is asked for; sent: the requests of the run; listed: those
\* of its listing.
NoJob == [at |-> "idle", page |-> 0, attempt |-> 0, todo |-> {}, row |-> 0,
          errors |-> 0, sent |-> 0, listed |-> 0]

NoTime == -1
NoStreak == [count |-> 0, at |-> NoTime]

ClientsTypeOK ==
  /\ site \in Sites /\ clock \in 0..MaxClock /\ standing \subseteq Due
  /\ job.at \in {"idle", "list", "recheck"} /\ job.attempt \in 0..MaxRetries[site]
  /\ job.todo \subseteq Due /\ job.errors \in 0..Consecutive
  /\ budget \in -1..RunBudget
  /\ failures \in 0..(Threshold - 1) /\ pausedUntil \in Nat
  /\ told \subseteq Due

-----------------------------------------------------------------------------
(***************************************************************************)
(* Answers.                                                                *)
(***************************************************************************)
\* good: the JSON the adapter expects; odd: a JSON object whose contents it cannot
\* use; hollow: one without "data"; text: a 200 that is no JSON object; missing:
\* 404; forbidden: 401, 403; bad: 400; limited: 429; down: 5xx; strange: any other
\* status; lost: no answer, at all or in time.
Answers == {"good", "odd", "hollow", "text", "missing", "forbidden", "bad", "strange",
            "limited", "down", "lost"}

Transient == {"limited", "down", "lost"}

\* HHClient.get, search and vacancy.
HHReads(a, detail) ==
  CASE a = "good" -> "body"
    [] a \in {"odd", "hollow"} -> IF detail THEN "unusable" ELSE "error"
    [] a = "missing" -> IF detail THEN "none" ELSE "error"
    [] OTHER -> "error"

\* Mutant: what cannot be read is taken for no vacancy.
GovReadsNothing(a, detail) ==
  CASE a = "good" -> "body"
    [] a \in {"missing", "odd", "hollow"} -> IF detail THEN "none" ELSE "error"
    [] OTHER -> "error"

\* VacancyGovAdapter._request, _page and fetch_detail.
GovReads(a, detail) ==
  CASE a = "good" -> "body"
    [] a = "missing" -> IF detail THEN "none" ELSE "error"
    [] OTHER -> "error"

\* request_json, fetch_osonish_raw_page, get_osonish_detail and _call: a detail
\* without a vacancy object is another way of saying that it is gone.
OsonishReads(a, detail) ==
  CASE a = "good" -> "body"
    [] a = "odd" -> IF detail THEN "unusable" ELSE "error"
    [] a \in {"hollow", "missing"} -> IF detail THEN "none" ELSE "error"
    [] OTHER -> "error"

Reads(a, detail) ==
  CASE site = "hh" -> HHReads(a, detail)
    [] site = "vacancy_gov" -> GovReads(a, detail)
    [] site = "osonish" -> OsonishReads(a, detail)

\* osonish is asked once.
Retried(a) == a \in Transient /\ job.attempt < MaxRetries[site]

-----------------------------------------------------------------------------
(***************************************************************************)
(* Budget and breaker.                                                     *)
(***************************************************************************)
Least2(a, b) == IF a < b THEN a ELSE b
Most2(a, b) == IF a > b THEN a ELSE b

\* Mutant: no part of the budget is left for the re-checks.
WholeBudget == RunBudget

ListBudget == Most2(1, RunBudget - Least2(Reserve, RunBudget \div 4))

ListBudgetSpent == site = "hh" /\ RunBudget - budget >= ListBudget

\* Mutant: only first attempts are counted.
SpendOnce == IF site = "hh" /\ job.attempt = 0 THEN budget - 1 ELSE budget

\* Every attempt spends one.
Spend == IF site = "hh" THEN budget - 1 ELSE budget

CanSpend == site = "hh" => budget > 0

\* Mutant: the run goes on as if nothing had been counted.
CountNothing(a) == UNCHANGED <<failures, pausedUntil>>

\* A JSON object or a 404 sets the count back, also when the object turns out
\* to be unusable and is counted then.
RecordFailure(a) ==
  LET before == IF a \in {"good", "odd", "hollow", "missing"} THEN 0 ELSE failures
      failed == Reads(a, job.at = "recheck") = "error" /\ ~Retried(a)
  IN  IF site # "vacancy_gov" \/ Retried(a) THEN UNCHANGED <<failures, pausedUntil>>
      ELSE IF ~failed THEN failures' = before /\ UNCHANGED pausedUntil
      ELSE IF before + 1 >= Threshold THEN failures' = 0 /\ pausedUntil' = clock + Pause
      ELSE failures' = before + 1 /\ UNCHANGED pausedUntil

\* Mutant: the pause is over as soon as it starts.
AlwaysEnabled == TRUE

Enabled == clock >= pausedUntil

-----------------------------------------------------------------------------
(***************************************************************************)
(* A run.                                                                  *)
(***************************************************************************)
BeginRun ==
  /\ job.at = "idle" /\ Enabled
  /\ job' = [NoJob EXCEPT !.at = "list"]
  /\ budget' = IF site = "hh" THEN RunBudget ELSE budget
  /\ UNCHANGED <<site, clock, standing, failures, pausedUntil, told, streak>>

\* What is picked for the re-checks once n pages or retries were asked for.
Recheck(n) == [NoJob EXCEPT !.at = "recheck", !.todo = standing, !.sent = n, !.listed = n]

\* The budget for the listing is looked at before a page is asked for, not
\* between its retries.
StopListing ==
  /\ job.at = "list"
  /\ (job.attempt = 0 /\ ListBudgetSpent) \/ ~CanSpend
  /\ job' = Recheck(job.sent)
  /\ UNCHANGED <<site, clock, standing, budget, failures, pausedUntil, told, streak>>

StopRechecking ==
  /\ job.at = "recheck"
  /\ job.todo = {} \/ job.errors = Consecutive \/ ~CanSpend
  /\ job' = NoJob
  /\ UNCHANGED <<site, clock, standing, budget, failures, pausedUntil, told, streak>>

\* What the row of refused requests comes to when one more ends, refused or not;
\* it starts anew when the source is paused.
Extended(refused) ==
  LET tooMany == refused /\ streak.count + 1 >= Threshold IN
  [count |-> IF refused /\ ~tooMany /\ pausedUntil' = pausedUntil THEN streak.count + 1 ELSE 0,
   at |-> IF tooMany THEN clock ELSE streak.at]

\* One request, its answer, and what the breaker and the histories make of it.
AskSite(a, rows) ==
  LET failed == Reads(a, job.at = "recheck") = "error" IN
  /\ CanSpend
  /\ budget' = Spend
  /\ RecordFailure(a)
  /\ told' = IF a = "missing" \/ (site = "osonish" /\ a = "hollow") THEN rows ELSE {}
  /\ streak' = IF Retried(a) THEN streak
               ELSE Extended(failed /\ a \notin {"odd", "hollow", "missing"})
  /\ UNCHANGED <<site, clock>>

\* The adapter sleeps and asks again.
AskAgain(r) == [job EXCEPT !.attempt = @ + 1, !.sent = @ + 1, !.row = r]

AskForPage(a) ==
  LET what == Reads(a, FALSE) IN
  /\ job.at = "list"
  /\ job.attempt = 0 => ~ListBudgetSpent
  /\ AskSite(a, {})
  /\ \/ Retried(a) /\ job' = AskAgain(0)
     \/ ~Retried(a) /\ what = "error" /\ job' = NoJob
     \/ what = "body" /\ job' = Recheck(job.sent + 1)
     \/ /\ what = "body" /\ job.page + 1 < MaxListPages
        /\ job' = [job EXCEPT !.page = @ + 1, !.attempt = 0, !.sent = @ + 1]
  /\ UNCHANGED standing

\* fetch_detail for one of the picked rows, and what the runner does with it.
AskForDetail(r, a) ==
  LET what == Reads(a, TRUE) IN
  /\ job.at = "recheck" /\ r \in job.todo /\ job.row \in {0, r}
  /\ job.errors < Consecutive
  /\ AskSite(a, {r})
  /\ IF Retried(a) THEN job' = AskAgain(r) /\ UNCHANGED standing
     ELSE /\ job' = [job EXCEPT !.todo = @ \ {r}, !.attempt = 0, !.row = 0, !.sent = @ + 1,
                                !.errors = IF what = "error" THEN @ + 1 ELSE 0]
          /\ standing' = IF what = "none" THEN standing \ {r} ELSE standing

\* A later page brings the row back.
Relist(r) ==
  /\ job.at = "idle" /\ r \in Due \ standing
  /\ standing' = standing \cup {r}
  /\ told' = {}
  /\ UNCHANGED <<site, clock, job, budget, failures, pausedUntil, streak>>

Wait ==
  /\ clock < MaxClock
  /\ clock' = clock + 1
  /\ UNCHANGED <<site, standing, job, budget, failures, pausedUntil, told, streak>>

ClientsInit ==
  /\ site \in Sites /\ clock = 0 /\ standing = Due /\ job = NoJob
  /\ budget = -1 /\ failures = 0 /\ pausedUntil = 0
  /\ told = {} /\ streak = NoStreak

ClientsNext ==
  \/ BeginRun \/ StopListing \/ StopRechecking \/ Wait
  \/ \E a \in Answers : AskForPage(a) \/ \E r \in Due : AskForDetail(r, a)
  \/ \E r \in Due : Relist(r)

ClientsSpec == ClientsInit /\ [][ClientsNext]_clientVars

-----------------------------------------------------------------------------
(***************************************************************************)
(* Properties.                                                             *)
(***************************************************************************)
\* base.py: a source that cannot answer "never means 'the vacancy does not
\* exist'". A row goes only when the answer to its own detail request said so.
RowsGoWhenGone == [][standing \ standing' \subseteq told']_clientVars

\* hh.py: at most MAX_REQUESTS_PER_RUN requests in a run, retries and re-checks
\* included; and the listing leaves RECHECK_RESERVE of them to the re-checks,
\* less the retries of its last page.
BudgetIsKept ==
  site = "hh" /\ job.at # "idle" =>
     /\ job.sent <= RunBudget
     /\ job.at = "recheck" =>
          RunBudget - job.listed >= Least2(Reserve, RunBudget \div 4) - MaxRetries["hh"]

Sends == job'.sent > job.sent

\* A site that refuses Threshold requests in a row is left alone for the pause,
\* from that very moment, also by the run that was in progress.
RefusalsAreCheap ==
  [][site = "vacancy_gov" /\ Sends /\ streak.at # NoTime =>
        clock >= streak.at + Pause]_clientVars

AnswersAreRead == RowsGoWhenGone /\ RefusalsAreCheap
=============================================================================
