------------------------------- MODULE Ingest -------------------------------
(***************************************************************************)
(* The ingest loop (src/src/ingest/runner.py) and the store it alone writes *)
(* (src/src/ingest/repo.py): each due source is listed page by page, some   *)
(* of its open vacancies are asked for in detail, what was not confirmed    *)
(* for long is closed, and old closed rows are purged.                      *)
(*                                                                         *)
(* A step is one transaction.  Time is a choice: between ticks any open row *)
(* may grow stale, and any row with a failed check may be backed off.       *)
(***************************************************************************)
EXTENDS VacancyGroups

CONSTANTS
  Sources,        \* the adapters, in the order of the loop
  SourceOf,       \* uid -> its source
  JobsOf,         \* uid -> what its source may say of it
  KeyOf,          \* job -> its dedup key and district
  PageSize,       \* bound: vacancies of one page
  MaxConsecutive, \* MAX_CONSECUTIVE_DETAIL_ERRORS
  GiveUp          \* DETAIL_FAILURE_GIVE_UP

ASSUME IngestAssumption ==
  /\ \A u \in Uids : SourceOf[u] \in ToSet(Sources) /\ JobsOf[u] \subseteq Jobs
  /\ DOMAIN KeyOf = Jobs
  /\ PageSize \in Nat /\ MaxConsecutive \in Nat \ {0} /\ GiveUp \in Nat \ {0}

VARIABLES
  table,        \* the rows of `vacancies`
  tick,         \* sources the tick has not visited yet; <<>> outside a tick
  run           \* the run of one source

ingestVars == <<table, tick, run>>

Row == [job : Jobs, open : BOOLEAN, gone : BOOLEAN, grp : Uids, dup : Uids \cup {None},
        fresh : BOOLEAN, failures : 0..GiveUp]

NoRun == [at |-> "none", source |-> None, down |-> FALSE, picked |-> {},
          answered |-> 0, failed |-> 0, consecutive |-> 0, spent |-> FALSE]

IngestTypeOK ==
  /\ Present(table) \subseteq Uids
  /\ \A u \in Present(table) : table[u] \in Row
  /\ tick \in Seq(ToSet(Sources))
  /\ run.at \in {"none", "next", "listing", "checking", "closing", "purging"}
  /\ run.down \in BOOLEAN /\ run.picked \subseteq Uids /\ run.spent \in BOOLEAN
  /\ run.answered \in 0..Cardinality(Uids) /\ run.failed \in 0..Cardinality(Uids)
  /\ run.consecutive \in 0..MaxConsecutive

IngestInit == table = <<>> /\ tick = <<>> /\ run = NoRun

Open(u) == u \in Present(table) /\ table[u].open
Mine(s) == {u \in Uids : SourceOf[u] = s}

-----------------------------------------------------------------------------
\* The store's writes.

NewRow(s) ==
  [job |-> s.job, open |-> s.open, gone |-> FALSE, grp |-> None, dup |-> None,
   fresh |-> TRUE, failures |-> 0]

\* Mutant: a list sighting reopens whatever it shows as open.
ReopenedRow(V, s) ==
  IF s.uid \notin Present(V) THEN NewRow(s)
  ELSE [V[s.uid] EXCEPT !.job = s.job, !.fresh = TRUE, !.open = s.open, !.gone = FALSE]

\* _UPSERT_LIST: a row the detail endpoint called gone stays as it is.
SightedRow(V, s) ==
  IF s.uid \notin Present(V) THEN NewRow(s)
  ELSE [V[s.uid] EXCEPT !.job = s.job, !.fresh = TRUE,
                        !.open = IF V[s.uid].gone THEN @ ELSE s.open]

\* A page names a vacancy once.
SightingOf(page, u) == CHOOSE s \in ToSet(page) : s.uid = u

Sight(V, page) ==
  LET named == {s.uid : s \in ToSet(page)} IN
  [u \in Present(V) \cup named |->
     IF u \in named THEN SightedRow(V, SightingOf(page, u)) ELSE V[u]]

\* New rows and rows whose key or district changed look for a group.
Changed(s) == s.uid \notin Present(table) \/ KeyOf[table[s.uid].job] # KeyOf[s.job]

\* Mutant: only a closing sighting regroups, not one that reopens.
ClosedBySource(s) == ~s.open

\* Closed by the source, or listed again after it was closed.
StatusChanged(s) == ~s.open \/ (s.uid \in Present(table) /\ ~table[s.uid].open)

\* upsert_batch: what one page may leave.
UpsertBatch(page) ==
  LET uids == [i \in DOMAIN page |-> page[i].uid]
      changed == {s.uid : s \in {x \in ToSet(page) : Changed(x)}}
      moved == {s.uid : s \in {x \in ToSet(page) : StatusChanged(x)}}
  IN  UNION {RegroupAll(V, GroupsOf(V, moved)) : V \in AssignAll(Sight(table, page), uids, changed)}

\* close: one of the duplicates takes a closed canonical row's place.
Closed(V, us, gone) ==
  [u \in Present(V) |->
     IF u \in us /\ V[u].open THEN [V[u] EXCEPT !.open = FALSE, !.gone = gone] ELSE V[u]]

CloseRows(V, us, gone) ==
  LET C == Closed(V, us, gone) IN RegroupAll(C, GroupsOf(C, us))

\* apply_detail: the detail answer is the authority.
Detailed(s) ==
  [table EXCEPT ![s.uid] = [@ EXCEPT !.job = s.job, !.open = s.open, !.gone = FALSE,
                                     !.fresh = TRUE, !.failures = 0]]

ApplyDetail(s) ==
  UNION {IF s.open THEN {V} ELSE RegroupAll(V, GroupsOf(V, {s.uid})) : V \in Assign(Detailed(s), s.uid)}

-----------------------------------------------------------------------------
\* run_once: the sources one after the other, then the purge.

StartTick ==
  /\ run.at = "none"
  /\ tick' = Sources
  /\ run' = [NoRun EXCEPT !.at = "next"]
  /\ UNCHANGED table

\* A source that is disabled or not due is passed over.
PassOver ==
  /\ run.at = "next" /\ tick # <<>>
  /\ tick' = Tail(tick)
  /\ UNCHANGED <<table, run>>

\* While a source is down, every detail request of the run fails.
StartRun ==
  /\ run.at = "next" /\ tick # <<>>
  /\ \E down \in BOOLEAN :
       run' = [NoRun EXCEPT !.at = "listing", !.source = Head(tick), !.down = down]
  /\ tick' = Tail(tick)
  /\ UNCHANGED table

Sightings(source) ==
  UNION {{[uid |-> u, job |-> j, open |-> o] : j \in JobsOf[u], o \in BOOLEAN} : u \in Mine(source)}

\* A page names a vacancy once.
Pages(source) ==
  {p \in BoundedSeq(Sightings(source), PageSize) :
     p # <<>> /\ \A i, k \in DOMAIN p : p[i].uid = p[k].uid => i = k}

ListPage ==
  /\ run.at = "listing"
  /\ \E page \in Pages(run.source) : table' \in UpsertBatch(page)
  /\ UNCHANGED <<tick, run>>

BackedOff(u) == table[u].failures > 0

\* pick_for_recheck: open rows up to a limit; some of those whose last check
\* failed are still backed off.
PickForRecheck ==
  /\ run.at = "listing"
  /\ \E picked \in SUBSET {u \in Mine(run.source) : Open(u)} :
       /\ picked = {} => \A u \in Mine(run.source) : Open(u) => BackedOff(u)
       /\ run' = [run EXCEPT !.at = "checking", !.picked = picked]
  /\ UNCHANGED <<table, tick>>

\* An exception of the source or the database ends the run of this source;
\* the rows and the cursor stay where they are.
RunFails ==
  /\ run.at \in {"listing", "checking", "closing"}
  /\ run' = [NoRun EXCEPT !.at = "next"]
  /\ UNCHANGED <<table, tick>>

-----------------------------------------------------------------------------
\* The detail re-checks.

Checking(u) == run.at = "checking" /\ u \in run.picked

Answered(u) ==
  run' = [run EXCEPT !.picked = @ \ {u}, !.answered = @ + 1, !.consecutive = 0]

DetailArrives(u) ==
  /\ Checking(u) /\ ~run.down
  /\ \E job \in JobsOf[u], open \in BOOLEAN :
       table' \in ApplyDetail([uid |-> u, job |-> job, open |-> open])
  /\ Answered(u) /\ UNCHANGED tick

DetailGone(u) ==
  /\ Checking(u) /\ ~run.down
  /\ table' \in CloseRows(table, {u}, TRUE)
  /\ Answered(u) /\ UNCHANGED tick

\* An answer that cannot be parsed, or is about another vacancy, only rotates
\* the row.
DetailUnusable(u) ==
  /\ Checking(u) /\ ~run.down
  /\ Answered(u) /\ UNCHANGED <<table, tick>>

\* record_detail_failure; several failures in a row end the re-checks.
DetailFails(u) ==
  /\ Checking(u)
  /\ table' = [table EXCEPT ![u].failures = IF @ < GiveUp THEN @ + 1 ELSE @]
  /\ run' = [run EXCEPT !.failed = @ + 1, !.consecutive = @ + 1,
                        !.picked = IF run.consecutive + 1 >= MaxConsecutive THEN {} ELSE @ \ {u}]
  /\ UNCHANGED tick

BudgetExhausted ==
  /\ run.at = "checking" /\ run.picked # {}
  /\ run' = [run EXCEPT !.picked = {}, !.spent = TRUE]
  /\ UNCHANGED <<table, tick>>

\* Mutant: a run counts as an outage only when failures came in a row.
SkipInOutage == run.consecutive >= MaxConsecutive

\* skip_stale: an outage, or half of the requests failed.
SkipStale ==
  \/ run.consecutive >= MaxConsecutive
  \/ run.failed + run.answered > 0 /\ 2 * run.failed >= run.failed + run.answered

ChecksEnd ==
  /\ run.at = "checking" /\ run.picked = {}
  /\ run' = IF SkipStale THEN [NoRun EXCEPT !.at = "next"] ELSE [run EXCEPT !.at = "closing"]
  /\ UNCHANGED <<table, tick>>

-----------------------------------------------------------------------------
StaleRows(s) ==
  {u \in Mine(s) : Open(u) /\ ~table[u].fresh /\ table[u].failures \in {0, GiveUp}}

CloseStale ==
  /\ run.at = "closing"
  /\ table' \in CloseRows(table, StaleRows(run.source), FALSE)
  /\ run' = [NoRun EXCEPT !.at = "next"]
  /\ UNCHANGED tick

EndTick ==
  /\ run.at = "next" /\ tick = <<>>
  /\ run' = [NoRun EXCEPT !.at = "purging"]
  /\ UNCHANGED <<table, tick>>

\* Closed rows that are old enough go; a purge that fails is logged.
Purge ==
  /\ run.at = "purging"
  /\ \E old \in SUBSET {u \in Present(table) : ~table[u].open} :
       table' = [u \in Present(table) \ old |-> table[u]]
  /\ run' = NoRun
  /\ UNCHANGED tick

-----------------------------------------------------------------------------
IngestCrash ==
  /\ run.at # "none"
  /\ tick' = <<>> /\ run' = NoRun
  /\ UNCHANGED table

\* Weeks pass in which an open row was neither listed nor confirmed.
GrowStale ==
  /\ run.at = "none"
  /\ \E u \in Present(table) :
       /\ Open(u) /\ table[u].fresh
       /\ table' = [table EXCEPT ![u].fresh = FALSE]
  /\ UNCHANGED <<tick, run>>

DetailStep(u) ==
  \/ DetailArrives(u) \/ DetailGone(u) \/ DetailUnusable(u) \/ DetailFails(u)

IngestNext ==
  \/ StartTick \/ PassOver \/ StartRun \/ ListPage \/ PickForRecheck \/ RunFails
  \/ \E u \in Uids : DetailStep(u)
  \/ BudgetExhausted \/ ChecksEnd \/ CloseStale \/ EndTick \/ Purge
  \/ IngestCrash \/ GrowStale

IngestSpec == IngestInit /\ [][IngestNext]_ingestVars

-----------------------------------------------------------------------------
Shown(u) == Open(u) /\ table[u].dup = None

\* An open vacancy is found by the searches, which list only open rows with no
\* dup_of: either it is shown, or exactly one open row of its group is, and
\* points to itself as the group.  No sequence of closings, reopenings,
\* changes, purges and new arrivals hides a job altogether or shows it twice.
OpenVacanciesAreShown ==
  \A u \in Uids : Open(u) =>
    LET g == table[u].grp IN
    /\ Shown(g) /\ table[g].grp = g
    /\ table[u].dup = (IF u = g THEN None ELSE g)

\* "a source outage never closes healthy vacancies": while every detail request
\* of a run fails, the run closes nothing on the ground of age, except rows
\* given up after GiveUp failures, unless the budget ended the checks early.
OutagesCloseNothing ==
  [][\A u \in Uids :
       run.at = "closing" /\ run.down /\ ~run.spent /\ Open(u) /\ ~table'[u].open
         => table[u].failures = GiveUp]_ingestVars

\* A vacancy that the source answered "gone" for does not come back through a
\* stale list, only as a new row after the purge.
GoneRowsStayClosed ==
  [][\A u \in Present(table) \cap Present(table') :
       table[u].gone /\ ~table[u].open => ~table'[u].open]_ingestVars

\* A vacancy closes for a reason and opens for a reason: an outage is none for
\* closing it, and a stale list none for opening it again.
RowsCloseForAReason == OutagesCloseNothing /\ GoneRowsStayClosed
=============================================================================
